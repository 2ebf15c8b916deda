----------------------- MODULE CarefulClients_proofs ------------------------
(***************************************************************************)
(* Orders with bids, for any number of chains, orders and users whose      *)
(* front ends follow the discipline of CarefulClients: every stake is kept *)
(* and returned or spent once, no bid passes its price, and an order is    *)
(* sold or returned, but not both.                                         *)
(*                                                                         *)
(* The discipline leaves one conversation at a time about a bid, or about  *)
(* an order as a whole.  Each step belongs to one packet, and disturbs no  *)
(* bid and no order but its own; so it is enough to look, action by        *)
(* action, at the bid the packet is about.                                 *)
(***************************************************************************)
EXTENDS Atomicity_proofs, CarefulClients, SumTheorems

\* A packet has a number that was given out.
NumberedBySent == \A p \in packets : p.seq < sent[p.order]

\* No two packets in flight conflict.
OneTalk == \A p, q \in packets : p # q => ~Conflict(p, q)

\* What both chains know of the bid that a packet is about.
BidTalk(p) ==
    LET bid == remoteBids[p.order][p.who]
        mirror == nativeBids[p.order][p.who]
    IN  /\ p.type = "MakeBid" =>
              /\ bid = NewBid("Initial", p.amount, p.expire)
              /\ p.amount \in BidAmounts
              /\ p.state = "ok" => mirror = NewBid("Placed", p.amount, p.expire)
        /\ p.type \in {"TakeBid", "CancelBid", "UpdateBid"} => bid.status = "Placed"
        /\ p.type = "UpdateBid" =>
              /\ bid.amount + p.amount <= Offer[p.order].buy
              /\ p.state = "ok" => mirror = Raised(bid, p.amount)

\* An order that is being bought is in the active list of the away chain; if
\* by a bid, it is neither locked nor cancelled, and may be sold to the bidder.
SaleTalk(p) ==
    /\ p.type \in BuyTypes => Found(remote[p.order])
    /\ p.type = "TakeBid" =>
          /\ remote[p.order].taker = NoUser /\ remote[p.order].status # "Cancel"
          /\ BuyerOK(p.order, p.who)

\* The chains agree on a placed bid, unless a message about it was accepted
\* and the answer is on its way.
Agreement(o, u) ==
    remoteBids[o][u].status = "Placed" =>
        \/ nativeBids[o][u] = remoteBids[o][u]
        \/ \E p \in packets :
              p.order = o /\ p.who = u /\ p.type \in BidTypes /\ p.state = "ok"

Capped(o, u) ==
    BidStake(o, u) <= Offer[o].buy \/ BidStake(o, u) \in BidAmounts

Staked(o, u) ==
    ledger[o].held[u] = BidStake(o, u) + AdditionStake(o, u) + LockStake(o, u)

\* All that is known of a bid.
InOrder(o, u) == Agreement(o, u) /\ Capped(o, u) /\ Staked(o, u)

TalkInv ==
    /\ NumberedBySent
    /\ OneTalk
    /\ \A p \in packets : BidTalk(p) /\ SaleTalk(p)
    /\ \A o \in Orders, u \in Users : InOrder(o, u)

LEMMA CarefulIsNext == [CarefulNext]_vars => [Next]_vars
BY DEF CarefulNext, Next, Relay

LEMMA CarefulIsSpec == CarefulSpec => Spec
BY CarefulIsNext, PTL DEF CarefulSpec, Spec

-----------------------------------------------------------------------------
\* One packet at a time.

\* The packet of a step: it is sent, or settled, or answered.
Sends(q) ==
    /\ packets' = packets \cup {q}
    /\ \A r \in packets : ~Conflict(q, r)
    /\ Sensible(q)
    /\ q.state = "sent" /\ q.order \in Orders /\ q.seq = sent[q.order]
    /\ sent' = [sent EXCEPT ![q.order] = @ + 1]
Drops(p) == p \in packets /\ packets' = packets \ {p} /\ sent' = sent
AnswersBy(p, q) ==
    /\ p \in packets /\ p.state = "sent" /\ q.state \in {"ok", "err"}
    /\ packets' = (packets \ {p}) \cup {q} /\ sent' = sent
    /\ q.order = p.order /\ q.type = p.type /\ q.who = p.who /\ q.seq = p.seq
    /\ q.amount = p.amount /\ q.expire = p.expire
Moves(t) == Sends(t) \/ Drops(t) \/ \E q : AnswersBy(t, q)

LEMMA CarefulSends ==
    ASSUME TypeOK, NumberedBySent, Careful, NEW o \in Orders, NEW type, NEW u, NEW amount,
           NEW expire, NEW from, NEW to,
           SendPacket(from, to, NewPacket(o, type, u, amount, expire))
    PROVE  Sends(NewPacket(o, type, u, amount, expire))
<1> DEFINE q == NewPacket(o, type, u, amount, expire)
<1>1. /\ q.order = o /\ q.seq = sent[o] /\ q.state = "sent"
      /\ packets' = packets \cup {q} /\ sent' = [sent EXCEPT ![q.order] = @ + 1]
  <2>1. q.order = o /\ q.seq = sent[o] /\ q.state = "sent"
    BY DEF NewPacket
  <2>2. packets' = packets \cup {q} /\ sent' = [sent EXCEPT ![q.order] = @ + 1]
    <3> HIDE DEF q
    <3>1. SendPacket(from, to, q)
      BY DEF q
    <3> QED
      BY <3>1 DEF SendPacket
  <2> QED
    BY <2>1, <2>2
<1> HIDE DEF q
<1>2. q \notin packets
  BY <1>1 DEF NumberedBySent, TypeOK
<1>3. Sensible(q) /\ \A r \in packets : ~Conflict(q, r)
  BY <1>1, <1>2 DEF Careful
<1> QED
  BY <1>1, <1>3 DEF Sends, q

LEMMA AckAnswers ==
    ASSUME TypeOK, NEW p \in packets, p.state = "sent",
           NEW result \in {"ok", "err"}, WriteAck(p, result)
    PROVE  \E q : AnswersBy(p, q) /\ q.state = result
<1>1. p \in PacketType
  BY DEF TypeOK
<1>2. /\ AnswersBy(p, [p EXCEPT !.state = result])
      /\ [p EXCEPT !.state = result].state = result
  BY <1>1 DEF WriteAck, AnswersBy, PacketType
<1> QED
  BY <1>2

LEMMA TalkKept ==
    ASSUME TypeOK, NumberedBySent, OneTalk, NEW t, Moves(t)
    PROVE  NumberedBySent' /\ OneTalk'
<1>1. CASE Sends(t)
  <2>1. NumberedBySent'
    BY <1>1 DEF Sends, NumberedBySent, TypeOK, PacketType
  <2>2. OneTalk'
    BY <1>1 DEF Sends, OneTalk, Conflict
  <2> QED
    BY <2>1, <2>2
<1>2. CASE Drops(t)
  BY <1>2 DEF Drops, NumberedBySent, OneTalk, Conflict
<1>3. ASSUME NEW q, AnswersBy(t, q) PROVE NumberedBySent' /\ OneTalk'
  <2>1. NumberedBySent'
    BY <1>3 DEF AnswersBy, NumberedBySent
  <2>2. OneTalk'
    BY <1>3 DEF AnswersBy, OneTalk, Conflict
  <2> QED
    BY <2>1, <2>2
<1> QED
  BY <1>1, <1>2, <1>3 DEF Moves

-----------------------------------------------------------------------------
\* Additions in flight.

LEMMA AdditionTotals ==
    /\ AdditionTotal({}) = 0
    /\ \A p : p.amount \in Int => AdditionTotal({p}) = p.amount
<1>1. AdditionTotal({}) = 0
  BY SumEmpty DEF AdditionTotal
<1>2. ASSUME NEW p, p.amount \in Int PROVE AdditionTotal({p}) = p.amount
  <2> DEFINE f == [x \in {p} |-> x.amount]
  <2>1. SumFunctionOnSet(f, {p}) = f[p] + SumFunctionOnSet(f, {p} \ {p})
    <3>1. IsFiniteSet({p}) /\ \A x \in {p} : f[x] \in Int
      BY <1>2, FS_Singleton
    <3> HIDE DEF f
    <3> QED
      BY <3>1, SumAt
  <2>2. {p} \ {p} = {} /\ f[p] = p.amount
    OBVIOUS
  <2>3. SumFunctionOnSet(f, {}) = 0
    BY SumEmpty
  <2> QED
    BY <1>2, <2>1, <2>2, <2>3 DEF AdditionTotal
<1> QED
  BY <1>1, <1>2

AddsTo(S, o, u) == {p \in S : p.order = o /\ p.who = u /\ p.type = "UpdateBid"}

LEMMA AdditionStakes ==
    \A o, u : /\ AdditionStake(o, u) = AdditionTotal(AddsTo(packets, o, u))
              /\ AdditionStake(o, u)' = AdditionTotal(AddsTo(packets', o, u))
BY DEF AdditionStake, AddsTo

\* Only the packet of the step is added or removed.
LEMMA AdditionsElsewhere ==
    ASSUME NEW t, Moves(t), NEW o, NEW u,
           ~(o = t.order /\ u = t.who) \/ t.type # "UpdateBid"
    PROVE  AdditionStake(o, u)' = AdditionStake(o, u)
<1>1. AddsTo(packets', o, u) = AddsTo(packets, o, u)
  BY DEF Moves, Sends, Drops, AnswersBy, AddsTo
<1> QED
  BY <1>1, AdditionStakes

LEMMA AdditionsHere ==
    ASSUME TypeOK, OneTalk, NEW t, Moves(t), t.amount \in Int
    PROVE  /\ Sends(t) => /\ AdditionStake(t.order, t.who) = 0
                          /\ t.type = "UpdateBid" =>
                                AdditionStake(t.order, t.who)' = t.amount
           /\ t \in packets =>
                 AdditionStake(t.order, t.who) =
                     IF t.type = "UpdateBid" THEN t.amount ELSE 0
           /\ Drops(t) => AdditionStake(t.order, t.who)' = 0
           /\ \A q : AnswersBy(t, q) =>
                 AdditionStake(t.order, t.who)' = AdditionStake(t.order, t.who)
<1> DEFINE Now == AddsTo(packets, t.order, t.who)
           Then == AddsTo(packets', t.order, t.who)
<1>1. ASSUME Sends(t) PROVE Now = {} /\ (t.type = "UpdateBid" => Then = {t})
  BY <1>1 DEF Sends, AddsTo, Conflict
<1>2. ASSUME t \in packets PROVE Now = IF t.type = "UpdateBid" THEN {t} ELSE {}
  BY <1>2 DEF OneTalk, AddsTo, Conflict
<1>3. ASSUME Drops(t) PROVE Then = {}
  BY <1>3 DEF Drops, OneTalk, AddsTo, Conflict
<1>4. ASSUME NEW q, AnswersBy(t, q), t.type = "UpdateBid"
      PROVE  Then = {q} /\ q.amount = t.amount
  BY <1>4 DEF AnswersBy, OneTalk, AddsTo, Conflict
<1>5. /\ AdditionStake(t.order, t.who) = AdditionTotal(Now)
      /\ AdditionStake(t.order, t.who)' = AdditionTotal(Then)
  BY AdditionStakes
<1>6. ASSUME NEW q, AnswersBy(t, q)
      PROVE  AdditionStake(t.order, t.who)' = AdditionStake(t.order, t.who)
  <2>1. t \in packets
    BY <1>6 DEF AnswersBy
  <2>2. CASE t.type = "UpdateBid"
    BY <1>2, <1>4, <1>5, <1>6, <2>1, <2>2, AdditionTotals
  <2>3. CASE t.type # "UpdateBid"
    BY <2>3, AdditionsElsewhere
  <2> QED
    BY <2>2, <2>3
<1> HIDE DEF Now, Then
<1> QED
  BY <1>1, <1>2, <1>3, <1>5, <1>6, AdditionTotals

-----------------------------------------------------------------------------
\* A step disturbs no bid and no order but those its packet is about.

Untouched(x, v) ==
    /\ remoteBids'[x][v] = remoteBids[x][v]
    /\ nativeBids'[x][v] = nativeBids[x][v]
    /\ ledger'[x].held[v] = ledger[x].held[v]
    /\ LockStake(x, v)' = LockStake(x, v)

Focused(t) ==
    /\ t.order \in Orders
    /\ \A x \in Orders, v \in Users : Untouched(x, v) \/ (x = t.order /\ v = t.who)
    /\ \A x \in Orders :
          remote'[x] = remote[x] \/ (x = t.order /\ t.type \in OrderRequests)

LEMMA OtherPackets ==
    ASSUME TypeOK, NEW t, Focused(t), NEW r \in packets, ~Conflict(r, t),
           BidTalk(r), SaleTalk(r)
    PROVE  BidTalk(r)' /\ SaleTalk(r)'
<1>1. r \in PacketType /\ r.order \in Orders
  BY DEF TypeOK, PacketType
<1>2. remote'[r.order] = remote[r.order] \/ r.type \notin BuyTypes
  BY <1>1 DEF Focused, Conflict
<1>3. SaleTalk(r)'
  <2>1. CASE r.type \in BuyTypes
    BY <1>2, <2>1 DEF SaleTalk, Found
  <2>2. CASE r.type \notin BuyTypes
    BY <2>2 DEF SaleTalk, BuyTypes
  <2> QED
    BY <2>1, <2>2
<1>4. BidTalk(r)'
  <2>1. CASE r.who \in Users
    <3>1. /\ remoteBids'[r.order][r.who] = remoteBids[r.order][r.who]
          /\ nativeBids'[r.order][r.who] = nativeBids[r.order][r.who]
      BY <1>1, <2>1 DEF Focused, Untouched, Conflict
    <3> QED
      BY <3>1 DEF BidTalk
  <2>2. CASE r.who \notin Users
    <3>1. r.type \in {"MakeSwap", "CancelSwap"}
      BY <1>1, <2>2 DEF PacketType
    <3> QED
      BY <3>1 DEF BidTalk
  <2> QED
    BY <2>1, <2>2
<1> QED
  BY <1>3, <1>4

LEMMA OtherBids ==
    ASSUME TypeOK, NEW t, Moves(t), NEW x \in Orders, NEW v \in Users,
           ~(x = t.order /\ v = t.who), Untouched(x, v), InOrder(x, v)
    PROVE  InOrder(x, v)'
<1>1. Agreement(x, v)'
  <2>1. ASSUME NEW p \in packets, p.order = x, p.who = v
        PROVE  p \in packets'
    BY <2>1 DEF Moves, Sends, Drops, AnswersBy
  <2> QED
    BY <2>1 DEF InOrder, Agreement, Untouched
<1>2. BidStake(x, v)' = BidStake(x, v)
  BY DEF BidStake, Untouched
<1>3. AdditionStake(x, v)' = AdditionStake(x, v)
  BY AdditionsElsewhere
<1> QED
  BY <1>1, <1>2, <1>3 DEF InOrder, Capped, Staked, Untouched

\* So it is enough to look at the bid and the packet of the step.
LEMMA FocusKeeps ==
    ASSUME TypeOK, TalkInv, NEW t, Moves(t), Focused(t),
           \A q \in packets' \ packets : BidTalk(q)' /\ SaleTalk(q)',
           t.who \in Users => InOrder(t.order, t.who)'
    PROVE  TalkInv'
<1>1. NumberedBySent' /\ OneTalk'
  BY TalkKept DEF TalkInv
<1>2. ASSUME NEW r \in packets' PROVE BidTalk(r)' /\ SaleTalk(r)'
  <2>1. CASE r \in packets
    <3>1. ~Conflict(r, t)
      <4>1. (r # t /\ t \in packets) \/ \A p \in packets : ~Conflict(t, p)
        BY <2>1 DEF Moves, Sends, Drops, AnswersBy, TalkInv, OneTalk, Conflict
      <4> QED
        BY <2>1, <4>1 DEF TalkInv, OneTalk, Conflict
    <3> QED
      BY <2>1, <3>1, OtherPackets DEF TalkInv
  <2>2. CASE r \notin packets
    BY <2>2
  <2> QED
    BY <2>1, <2>2
<1>3. ASSUME NEW x \in Orders, NEW v \in Users PROVE InOrder(x, v)'
  <2>1. CASE x = t.order /\ v = t.who
    BY <2>1
  <2>2. CASE ~(x = t.order /\ v = t.who)
    BY <2>2, OtherBids DEF Focused, TalkInv
  <2> QED
    BY <2>1, <2>2
<1> QED
  BY <1>1, <1>2, <1>3 DEF TalkInv

-----------------------------------------------------------------------------
\* Steps that change no bid, no mirror and no stake.

StillStep(t) ==
    /\ Moves(t) /\ t.order \in Orders
    /\ UNCHANGED <<remote, remoteBids, nativeBids>>
    /\ \A x \in Orders : ledger'[x].held = ledger[x].held
    /\ Sends(t) => /\ t.type \notin {"MakeBid", "UpdateBid"}
                   /\ BidTalk(t) /\ SaleTalk(t)
    /\ Drops(t) => /\ t.type # "UpdateBid"
                   /\ t.type \in BidTypes => t.state # "ok"
    /\ \A q : AnswersBy(t, q) /\ q.state = "ok" =>
                  t.type \notin {"MakeBid", "UpdateBid"}

LEMMA StillKeeps ==
    ASSUME TypeOK, TalkInv, NEW t, StillStep(t)
    PROVE  TalkInv'
<1>1. Moves(t) /\ t.order \in Orders
  BY DEF StillStep
<1>2. \A x \in Orders, v \in Users : Untouched(x, v)
  BY DEF StillStep, Untouched, LockStake, Found
<1>3. Focused(t)
  BY <1>1, <1>2 DEF StillStep, Focused
<1>4. ASSUME NEW q \in packets' \ packets PROVE BidTalk(q)' /\ SaleTalk(q)'
  <2>1. CASE Sends(t)
    <3>1. BidTalk(q) /\ SaleTalk(q)
      BY <1>4, <2>1 DEF StillStep, Sends
    <3> QED
      BY <3>1 DEF StillStep, BidTalk, SaleTalk, Found
  <2>2. CASE AnswersBy(t, q)
    <3>1. BidTalk(t) /\ SaleTalk(t)
      BY <2>2 DEF AnswersBy, TalkInv
    <3>2. SaleTalk(q)'
      BY <2>2, <3>1 DEF AnswersBy, StillStep, SaleTalk, Found
    <3>3. BidTalk(q)'
      BY <2>2, <3>1 DEF AnswersBy, StillStep, BidTalk
    <3> QED
      BY <3>2, <3>3
  <2> QED
    BY <1>1, <1>4, <2>1, <2>2 DEF Moves, Drops, AnswersBy
<1>5. ASSUME t.who \in Users PROVE InOrder(t.order, t.who)'
  <2>1. InOrder(t.order, t.who) /\ Untouched(t.order, t.who)
    BY <1>1, <1>2, <1>5 DEF TalkInv
  <2>2. Agreement(t.order, t.who)'
    <3>1. ASSUME NEW p \in packets, p.type \in BidTypes, p.state = "ok"
          PROVE  p \in packets'
      BY <1>1, <3>1 DEF Moves, Sends, Drops, AnswersBy, StillStep
    <3> QED
      BY <2>1, <3>1 DEF InOrder, Agreement, Untouched
  <2>3. AdditionStake(t.order, t.who)' = AdditionStake(t.order, t.who)
    <3>1. CASE t.type # "UpdateBid"
      BY <1>1, <3>1, AdditionsElsewhere
    <3>2. CASE t.type = "UpdateBid"
      <4>1. PICK q : AnswersBy(t, q)
        BY <1>1, <3>2 DEF Moves, StillStep
      <4>2. t.amount \in Int
        BY <4>1, <3>2 DEF AnswersBy, TypeOK, PacketType
      <4> QED
        BY <1>1, <4>1, <4>2, AdditionsHere DEF TalkInv
    <3> QED
      BY <3>1, <3>2
  <2>4. BidStake(t.order, t.who)' = BidStake(t.order, t.who)
    BY <2>1 DEF Untouched, BidStake
  <2> QED
    BY <2>1, <2>2, <2>3, <2>4 DEF InOrder, Capped, Staked, Untouched
<1> QED
  BY <1>1, <1>3, <1>4, <1>5, FocusKeeps

LEMMA StillRequests ==
    ASSUME TypeOK, TalkInv, Careful, NEW o \in Orders,
           \/ ExecuteMakeSwap(o) \/ ExecuteCancelSwap(o)
           \/ \E u \in Users : ExecuteTakeBid(o, u) \/ ExecuteCancelBid(o, u)
    PROVE  TalkInv'
<1>1. UNCHANGED <<remote, remoteBids, nativeBids, ledger>>
  BY DEF ExecuteMakeSwap, ExecuteCancelSwap, ExecuteTakeBid, ExecuteCancelBid,
         swapVars, bidVars
<1>2. ASSUME NEW q, Sends(q), q.order = o, BidTalk(q), SaleTalk(q),
             q.type \notin {"MakeBid", "UpdateBid"}
      PROVE  TalkInv'
  <2>1. q \notin packets
    BY <1>2 DEF Sends, Conflict
  <2>2. StillStep(q)
    BY <1>1, <1>2, <2>1 DEF StillStep, Moves, Drops, AnswersBy
  <2> QED
    BY <2>2, StillKeeps
<1>3. CASE ExecuteMakeSwap(o)
  <2> DEFINE q == NewPacket(o, "MakeSwap", NoUser, 0, 0)
  <2>1. Sends(q)
    BY <1>3, CarefulSends DEF ExecuteMakeSwap, TalkInv
  <2>2. q.order = o /\ q.type = "MakeSwap"
    BY DEF NewPacket
  <2> HIDE DEF q
  <2> QED
    BY <1>2, <2>1, <2>2 DEF BidTalk, SaleTalk, BuyTypes
<1>4. CASE ExecuteCancelSwap(o)
  <2> DEFINE q == NewPacket(o, "CancelSwap", NoUser, 0, 0)
  <2>1. Sends(q)
    BY <1>4, CarefulSends DEF ExecuteCancelSwap, TalkInv
  <2>2. q.order = o /\ q.type = "CancelSwap"
    BY DEF NewPacket
  <2> HIDE DEF q
  <2> QED
    BY <1>2, <2>1, <2>2 DEF BidTalk, SaleTalk, BuyTypes
<1>5. ASSUME NEW u \in Users, ExecuteTakeBid(o, u) PROVE TalkInv'
  <2> DEFINE q == NewPacket(o, "TakeBid", u, 0, 0)
  <2>1. Sends(q)
    BY <1>5, CarefulSends DEF ExecuteTakeBid, SendBidPacket, TalkInv
  <2>2. q.order = o /\ q.type = "TakeBid" /\ q.who = u
    BY DEF NewPacket
  <2> HIDE DEF q
  <2>3. BidTalk(q) /\ SaleTalk(q)
    BY <1>5, <2>1, <2>2 DEF ExecuteTakeBid, Sends, Sensible, BidTalk, SaleTalk, BuyTypes
  <2> QED
    BY <1>2, <2>1, <2>2, <2>3
<1>6. ASSUME NEW u \in Users, ExecuteCancelBid(o, u) PROVE TalkInv'
  <2> DEFINE q == NewPacket(o, "CancelBid", u, 0, 0)
  <2>1. Sends(q)
    BY <1>6, CarefulSends DEF ExecuteCancelBid, SendBidPacket, TalkInv
  <2>2. q.order = o /\ q.type = "CancelBid" /\ q.who = u
    BY DEF NewPacket
  <2> HIDE DEF q
  <2>3. BidTalk(q) /\ SaleTalk(q)
    BY <2>1, <2>2 DEF Sends, Sensible, BidTalk, SaleTalk, BuyTypes
  <2> QED
    BY <1>2, <2>1, <2>2, <2>3
<1> QED
  BY <1>3, <1>4, <1>5, <1>6

LEMMA StillRelays ==
    ASSUME TypeOK, TalkInv, NEW p \in packets,
           \/ AckMakeSwap(p) \/ RefundMakeSwap(p) \/ OnReceivedTake(p)
           \/ RefuseTake(p) \/ RefuseCancel(p) \/ AckCancelSwap(p)
           \/ DropCancelSwap(p) \/ RefuseTakeBid(p) \/ RefuseCancelBid(p)
           \/ RefuseUpdateBid(p) \/ DropBidPacket(p)
    PROVE  TalkInv'
<1>1. p.order \in Orders
  BY DEF TypeOK, PacketType
<1>2. UNCHANGED <<remote, remoteBids, nativeBids>>
  BY DEF AckMakeSwap, RefundMakeSwap, OnReceivedTake, RefuseTake, RefuseCancel,
         AckCancelSwap, DropCancelSwap, RefuseTakeBid, RefuseCancelBid,
         RefuseUpdateBid, DropBidPacket, swapVars, bidVars
<1>3. \A x \in Orders : ledger'[x].held = ledger[x].held
  <2>1. \/ ledger' = ledger
        \/ ledger' = [ledger EXCEPT ![p.order] = Delivered(@)]
        \/ ledger' = [ledger EXCEPT ![p.order] = Refunded(@)]
    BY DEF AckMakeSwap, RefundMakeSwap, OnReceivedTake, RefuseTake, RefuseCancel,
           AckCancelSwap, DropCancelSwap, RefuseTakeBid, RefuseCancelBid,
           RefuseUpdateBid, DropBidPacket, DeliverTo
  <2>2. ledger \in [Orders -> LedgerType]
    BY DEF TypeOK
  <2> QED
    BY <1>1, <2>1, <2>2, DeliveredEntry, RefundedEntry
<1>4. CASE \/ AckMakeSwap(p) \/ RefundMakeSwap(p) \/ AckCancelSwap(p)
           \/ DropCancelSwap(p) \/ DropBidPacket(p)
  <2>1. Drops(p) /\ p.type # "UpdateBid" /\ (p.type \in BidTypes => p.state # "ok")
    BY <1>4 DEF AckMakeSwap, RefundMakeSwap, AckCancelSwap, DropCancelSwap,
                DropBidPacket, Consume, Drops, Succeeded, Failed, BidTypes
  <2>2. ~Sends(p) /\ \A q : ~AnswersBy(p, q)
    BY <2>1 DEF Sends, Drops, AnswersBy, Conflict, TalkInv, OneTalk
  <2>3. StillStep(p)
    BY <1>1, <1>2, <1>3, <2>1, <2>2 DEF StillStep, Moves
  <2> QED
    BY <2>3, StillKeeps
<1>5. CASE \/ OnReceivedTake(p) \/ RefuseTake(p) \/ RefuseCancel(p)
           \/ RefuseTakeBid(p) \/ RefuseCancelBid(p) \/ RefuseUpdateBid(p)
  <2>1. PICK result \in {"ok", "err"} :
            /\ WriteAck(p, result) /\ p.state = "sent"
            /\ result = "ok" => p.type = "TakeSwap"
    BY <1>5 DEF OnReceivedTake, RefuseTake, RefuseCancel, RefuseTakeBid,
                RefuseCancelBid, RefuseUpdateBid, Arrives
  <2>2. PICK q : AnswersBy(p, q) /\ q.state = result
    BY <2>1, AckAnswers
  <2>3. q \notin packets
    BY <2>2 DEF AnswersBy, TalkInv, OneTalk, Conflict
  <2>4. ~Sends(p) /\ ~Drops(p) /\ \A r : AnswersBy(p, r) => r = q
    BY <2>2, <2>3 DEF Sends, Drops, AnswersBy, Conflict
  <2>5. StillStep(p)
    BY <1>1, <1>2, <1>3, <2>1, <2>2, <2>4 DEF StillStep, Moves
  <2> QED
    BY <2>5, StillKeeps
<1> QED
  BY <1>4, <1>5

-----------------------------------------------------------------------------
\* Steps that change a mirror.

\* What a deposit, a refund and a payment do to the stakes.
HeldKept(o, u) ==
    \A x \in Orders, v \in Users :
        ledger'[x].held[v] = ledger[x].held[v] \/ (x = o /\ v = u)

LEMMA HeldMore ==
    ASSUME TypeOK, NEW o \in Orders, NEW u \in Users, NEW amount,
           ledger' = [ledger EXCEPT ![o] = PutIn(@, u, amount)]
    PROVE  ledger'[o].held[u] = ledger[o].held[u] + amount /\ HeldKept(o, u)
<1>1. /\ ledger[o] \in LedgerType /\ ledger'[o] = PutIn(ledger[o], u, amount)
      /\ \A x \in Orders \ {o} : ledger'[x] = ledger[x]
  BY DEF TypeOK
<1> QED
  BY <1>1, HeldEntries DEF HeldKept

LEMMA HeldLess ==
    ASSUME TypeOK, NEW o \in Orders, NEW u \in Users, NEW amount,
           \/ ledger' = [ledger EXCEPT ![o] = TakenOut(@, u, amount)]
           \/ ledger' = [ledger EXCEPT ![o] = MakerPaid(@, u, amount)]
    PROVE  ledger'[o].held[u] = ledger[o].held[u] - amount /\ HeldKept(o, u)
<1>1. /\ ledger[o] \in LedgerType
      /\ ledger'[o] \in {TakenOut(ledger[o], u, amount), MakerPaid(ledger[o], u, amount)}
      /\ \A x \in Orders \ {o} : ledger'[x] = ledger[x]
  BY DEF TypeOK
<1> QED
  BY <1>1, HeldEntries DEF HeldKept

\* A bid whose records stay, and whose packet is not an accepted one.
LEMMA BidKept ==
    ASSUME TypeOK, TalkInv, NEW t, Moves(t), t.order \in Orders, t.who \in Users,
           UNCHANGED <<remoteBids, nativeBids>>,
           Drops(t) => t.type \notin BidTypes \/ t.state # "ok"
    PROVE  /\ Agreement(t.order, t.who)' /\ Capped(t.order, t.who)'
           /\ BidStake(t.order, t.who)' = BidStake(t.order, t.who)
<1>1. InOrder(t.order, t.who)
  BY DEF TalkInv
<1>2. ASSUME NEW p \in packets, p.type \in BidTypes, p.state = "ok"
      PROVE  p \in packets'
  BY <1>2 DEF Moves, Sends, Drops, AnswersBy
<1>3. Agreement(t.order, t.who)'
  BY <1>1, <1>2 DEF InOrder, Agreement
<1>4. BidStake(t.order, t.who)' = BidStake(t.order, t.who)
  BY DEF BidStake
<1> QED
  BY <1>1, <1>3, <1>4 DEF InOrder, Capped

\* The order is mirrored, or cancelled, on the away chain.
LEMMA MirrorKeepsTalk ==
    ASSUME TypeOK, SettlementInv, TalkInv, NEW p \in packets,
           OnReceivedMake(p) \/ OnReceivedCancel(p)
    PROVE  TalkInv'
<1>1. /\ p.order \in Orders /\ p.who = NoUser /\ p.who \notin Users
      /\ p.type \in {"MakeSwap", "CancelSwap"} /\ p.state = "sent"
  BY UserAssumption
     DEF TypeOK, PacketType, OnReceivedMake, OnReceivedCancel, Arrives, BidTypes
<1>2. PICK q : AnswersBy(p, q)
  BY <1>1, AckAnswers DEF OnReceivedMake, OnReceivedCancel
<1>3. \A x \in Orders \ {p.order} : remote'[x] = remote[x]
  BY <1>1 DEF OnReceivedMake, OnReceivedCancel, TypeOK
<1>4. \A v \in Users : LockStake(p.order, v)' = LockStake(p.order, v)
  <2>1. CASE OnReceivedMake(p)
    <3>1. remote[p.order].loc = "none"
      BY <1>1, <2>1 DEF OnReceivedMake, Arrives, SettlementInv, AnnouncedOnce
    <3>2. remote'[p.order] = Appended("Sync")
      BY <1>1, <2>1, <3>1 DEF OnReceivedMake, Found, TypeOK
    <3> QED
      BY <3>1, <3>2, UserAssumption DEF LockStake, Appended, Found
  <2>2. CASE OnReceivedCancel(p)
    <3>1. remote[p.order] \in OrderType /\ remote'[p.order] = Cancelled(remote[p.order])
      BY <1>1, <2>2 DEF OnReceivedCancel, TypeOK
    <3> QED
      BY <3>1, KeptUpdates, UpdatedRecords DEF LockStake, Found
  <2> QED
    BY <2>1, <2>2
<1>5. Focused(p)
  <2>1. UNCHANGED <<remoteBids, nativeBids, ledger>>
    BY DEF OnReceivedMake, OnReceivedCancel, bidVars
  <2>2. ASSUME NEW x \in Orders, NEW v \in Users PROVE Untouched(x, v)
    BY <1>3, <1>4, <2>1 DEF Untouched, LockStake, Found
  <2> QED
    BY <1>1, <1>3, <2>2 DEF Focused, OrderRequests
<1>6. ASSUME NEW r \in packets' \ packets PROVE BidTalk(r)' /\ SaleTalk(r)'
  <2>1. r.type \in {"MakeSwap", "CancelSwap"}
    BY <1>1, <1>2, <1>6 DEF AnswersBy
  <2> QED
    BY <2>1 DEF BidTalk, SaleTalk, BuyTypes
<1> QED
  BY <1>1, <1>2, <1>5, <1>6, FocusKeeps DEF Moves

\* A taker locks the order, and its tokens.
LEMMA TakeKeepsTalk ==
    ASSUME TypeOK, TalkInv, Careful, NEW o \in Orders, NEW u \in Users,
           ExecuteTakeSwap(o, u)
    PROVE  TalkInv'
<1> DEFINE q == NewPacket(o, "TakeSwap", u, Offer[o].buy, 0)
<1>1. Sends(q)
  BY CarefulSends DEF ExecuteTakeSwap, TalkInv
<1>2. q.order = o /\ q.type = "TakeSwap" /\ q.who = u
  BY DEF NewPacket
<1> HIDE DEF q
<1>3. Moves(q) /\ ~Drops(q)
  BY <1>1 DEF Moves, Sends, Drops, Conflict
<1>4. /\ remote[o].loc = "active" /\ remote[o].taker = NoUser
      /\ remote'[o].loc = "active" /\ remote'[o].taker = u
      /\ \A x \in Orders \ {o} : remote'[x] = remote[x]
  <2>1. remote[o] \in OrderType /\ remote'[o] = TakenBy(remote[o], u)
        /\ \A x \in Orders \ {o} : remote'[x] = remote[x]
    BY DEF ExecuteTakeSwap, TypeOK
  <2> QED
    BY <2>1, KeptUpdates, UpdatedRecords DEF ExecuteTakeSwap, Open, Found
<1>5. /\ LockStake(o, u) = 0 /\ LockStake(o, u)' = Offer[o].buy
      /\ \A v \in Users \ {u} : LockStake(o, v) = 0 /\ LockStake(o, v)' = 0
  BY <1>4, UserAssumption DEF LockStake, Found
<1>6. UNCHANGED <<remoteBids, nativeBids>>
      /\ ledger' = [ledger EXCEPT ![o] = PutIn(@, u, Offer[o].buy)]
  BY DEF ExecuteTakeSwap, bidVars
<1>7. Focused(q)
  <2>1. HeldKept(o, u)
    BY <1>6, HeldMore
  <2>2. ASSUME NEW x \in Orders, NEW v \in Users PROVE Untouched(x, v) \/ (x = o /\ v = u)
    <3>1. LockStake(x, v)' = LockStake(x, v) \/ (x = o /\ v = u)
      BY <1>4, <1>5 DEF LockStake, Found
    <3> QED
      BY <1>6, <2>1, <3>1 DEF HeldKept, Untouched
  <2> QED
    BY <1>2, <1>4, <2>2 DEF Focused, OrderRequests
<1>8. ASSUME NEW r \in packets' \ packets PROVE BidTalk(r)' /\ SaleTalk(r)'
  <2>1. r = q
    BY <1>1, <1>8 DEF Sends
  <2> QED
    BY <1>2, <1>4, <2>1 DEF BidTalk, SaleTalk, Found
<1>9. InOrder(o, u)'
  <2>1. ledger'[o].held[u] = ledger[o].held[u] + Offer[o].buy
    BY <1>6, HeldMore
  <2>2. AdditionStake(o, u)' = AdditionStake(o, u)
    BY <1>2, <1>3, AdditionsElsewhere
  <2>3. Agreement(o, u)' /\ Capped(o, u)' /\ BidStake(o, u)' = BidStake(o, u)
    BY <1>2, <1>3, <1>6, BidKept
  <2>4. AdditionStake(o, u) = 0
    <3>1. q.amount \in Int
      BY OfferFacts DEF NewPacket, q
    <3> QED
      BY <1>1, <1>2, <1>3, <3>1, AdditionsHere DEF TalkInv
  <2>5. BidStake(o, u) \in Nat
    BY DEF BidStake, TypeOK, BidType
  <2>6. Offer[o].buy \in Nat
    BY OfferFacts
  <2> QED
    BY <1>5, <2>1, <2>2, <2>3, <2>4, <2>5, <2>6 DEF TalkInv, InOrder, Staked
<1> QED
  BY <1>2, <1>3, <1>7, <1>8, <1>9, FocusKeeps

\* A take is settled: the tokens return, or pay the maker.
LEMMA TakeSettledKeepsTalk ==
    ASSUME TypeOK, CancelInv, TalkInv, NEW p \in packets,
           AckTakeSwap(p) \/ RefundTakeSwap(p)
    PROVE  TalkInv'
<1> DEFINE o == p.order
           u == p.who
<1>1. p.order \in Orders /\ p.who \in Users /\ p.type = "TakeSwap"
  BY DEF TypeOK, PacketType, AckTakeSwap, RefundTakeSwap, Succeeded, Failed, BidTypes
<1>2. Drops(p) /\ Moves(p)
  BY DEF AckTakeSwap, RefundTakeSwap, Consume, Drops, Moves
<1>3. /\ remote[o].loc = "active" /\ remote[o].taker = u /\ p.amount = Offer[o].buy
  BY <1>1 DEF AckTakeSwap, RefundTakeSwap, Found, CancelInv, TakeHoldsLock
<1>4. /\ remote'[o].loc = "inactive" \/ remote'[o].taker = NoUser
      /\ \A x \in Orders \ {o} : remote'[x] = remote[x]
  <2>1. /\ remote[o] \in OrderType
        /\ remote'[o] \in {Completed(remote[o], u), Untaken(remote[o])}
        /\ \A x \in Orders \ {o} : remote'[x] = remote[x]
    BY <1>1 DEF AckTakeSwap, RefundTakeSwap, PayMaker, TypeOK
  <2> QED
    BY <2>1, CompletedRecord, UpdatedRecords
<1>5. /\ LockStake(o, u) = Offer[o].buy /\ LockStake(o, u)' = 0
      /\ \A v \in Users \ {u} : LockStake(o, v) = 0 /\ LockStake(o, v)' = 0
  BY <1>1, <1>3, <1>4, UserAssumption DEF LockStake, Found
<1>6. /\ UNCHANGED <<remoteBids, nativeBids>>
      /\ \/ ledger' = [ledger EXCEPT ![o] = TakenOut(@, u, p.amount)]
         \/ ledger' = [ledger EXCEPT ![o] = MakerPaid(@, u, p.amount)]
  BY DEF AckTakeSwap, RefundTakeSwap, PayMaker, bidVars
<1>7. Focused(p)
  <2>1. HeldKept(o, u)
    BY <1>1, <1>6, HeldLess
  <2>2. ASSUME NEW x \in Orders, NEW v \in Users PROVE Untouched(x, v) \/ (x = o /\ v = u)
    <3>1. LockStake(x, v)' = LockStake(x, v) \/ (x = o /\ v = u)
      BY <1>4, <1>5 DEF LockStake, Found
    <3> QED
      BY <1>6, <2>1, <3>1 DEF HeldKept, Untouched
  <2> QED
    BY <1>1, <1>4, <2>2 DEF Focused, OrderRequests
<1>8. packets' \ packets = {}
  BY <1>2 DEF Drops
<1>9. InOrder(o, u)'
  <2>1. ledger'[o].held[u] = ledger[o].held[u] - Offer[o].buy
    BY <1>1, <1>3, <1>6, HeldLess
  <2>2. AdditionStake(o, u)' = AdditionStake(o, u)
    BY <1>1, <1>2, AdditionsElsewhere
  <2>3. Agreement(o, u)' /\ Capped(o, u)' /\ BidStake(o, u)' = BidStake(o, u)
    BY <1>1, <1>2, <1>6, BidKept DEF BidTypes
  <2>4. AdditionStake(o, u) = 0
    <3>1. p.amount \in Int
      BY <1>1, <1>3, OfferFacts
    <3> QED
      BY <1>1, <1>2, <3>1, AdditionsHere DEF TalkInv
  <2>5. BidStake(o, u) \in Nat
    BY <1>1 DEF BidStake, TypeOK, BidType
  <2>6. Offer[o].buy \in Nat
    BY <1>1, OfferFacts
  <2> QED
    BY <1>1, <1>5, <2>1, <2>2, <2>3, <2>4, <2>5, <2>6 DEF TalkInv, InOrder, Staked
<1> QED
  BY <1>1, <1>2, <1>7, <1>8, <1>9, FocusKeeps

-----------------------------------------------------------------------------
\* Steps that change the home chain's record of a bid.

LEMMA BidTables ==
    ASSUME TypeOK, NEW o \in Orders, NEW u \in Users, NEW bid
    PROVE  /\ SetRemoteBid(o, u, bid) =>
                 /\ remoteBids'[o][u] = bid
                 /\ \A x \in Orders, v \in Users :
                       remoteBids'[x][v] = remoteBids[x][v] \/ (x = o /\ v = u)
           /\ SetNativeBid(o, u, bid) =>
                 /\ nativeBids'[o][u] = bid
                 /\ \A x \in Orders, v \in Users :
                       nativeBids'[x][v] = nativeBids[x][v] \/ (x = o /\ v = u)
BY DEF TypeOK, SetRemoteBid, SetNativeBid

\* A step of a bid that leaves the mirrors alone.
LEMMA BidFocused ==
    ASSUME TypeOK, NEW t, t.order \in Orders, t.who \in Users, remote' = remote,
           \/ remoteBids' = remoteBids
           \/ \E bid : SetRemoteBid(t.order, t.who, bid),
           \/ nativeBids' = nativeBids
           \/ \E bid : SetNativeBid(t.order, t.who, bid),
           HeldKept(t.order, t.who)
    PROVE  Focused(t) /\ LockStake(t.order, t.who)' = LockStake(t.order, t.who)
<1>1. \A x, v : LockStake(x, v)' = LockStake(x, v)
  BY DEF LockStake, Found
<1>2. ASSUME NEW x \in Orders, NEW v \in Users
      PROVE  Untouched(x, v) \/ (x = t.order /\ v = t.who)
  <2>1. remoteBids'[x][v] = remoteBids[x][v] \/ (x = t.order /\ v = t.who)
    BY BidTables
  <2>2. nativeBids'[x][v] = nativeBids[x][v] \/ (x = t.order /\ v = t.who)
    BY BidTables
  <2> QED
    BY <1>1, <2>1, <2>2 DEF Untouched, HeldKept
<1> QED
  BY <1>1, <1>2 DEF Focused

\* The packet of a placed bid finds what both chains agreed on.
LEMMA AgreedBefore ==
    ASSUME TypeOK, TalkInv, NEW p \in packets, p.state # "ok",
           p.order \in Orders, p.who \in Users,
           remoteBids[p.order][p.who].status = "Placed"
    PROVE  nativeBids[p.order][p.who] = remoteBids[p.order][p.who]
<1>1. Agreement(p.order, p.who)
  BY DEF TalkInv, InOrder
<1>2. \A r \in packets : r.order = p.order /\ r.who = p.who => r = p
  BY DEF TalkInv, OneTalk, Conflict
<1> QED
  BY <1>1, <1>2 DEF Agreement

LEMMA HomeBid ==
    ASSUME TypeOK, TalkInv, NEW p \in packets, NEW q, AnswersBy(p, q), q.state = "ok",
           NEW bid,
           p.order \in Orders, p.who \in Users, p.type \in BidTypes,
           SetNativeBid(p.order, p.who, bid),
           UNCHANGED <<remote, remoteBids>>,
           \A x \in Orders : ledger'[x].held = ledger[x].held,
           p.type = "MakeBid" => bid = NewBid("Placed", p.amount, p.expire),
           p.type = "UpdateBid" =>
               bid = Raised(remoteBids[p.order][p.who], p.amount)
    PROVE  TalkInv'
<1> DEFINE o == p.order
           u == p.who
<1>1. Moves(p) /\ InOrder(o, u) /\ BidTalk(p) /\ SaleTalk(p)
  BY DEF Moves, TalkInv
<1>2. Focused(p) /\ LockStake(o, u)' = LockStake(o, u)
  BY BidFocused DEF HeldKept
<1>3. nativeBids'[o][u] = bid
  BY BidTables
<1>4. ASSUME NEW r \in packets' \ packets PROVE BidTalk(r)' /\ SaleTalk(r)'
  <2>1. r = q
    BY <1>4 DEF AnswersBy
  <2>2. /\ r.order = o /\ r.who = u /\ r.type = p.type /\ r.amount = p.amount
        /\ r.expire = p.expire
    BY <2>1 DEF AnswersBy
  <2>3. SaleTalk(r)'
    BY <1>1, <2>2 DEF SaleTalk, Found
  <2>4. BidTalk(r)'
    BY <1>1, <1>3, <2>2 DEF BidTalk
  <2> QED
    BY <2>3, <2>4
<1>5. Agreement(o, u)'
  BY DEF AnswersBy, Agreement
<1>6. AdditionStake(o, u)' = AdditionStake(o, u)
  <2>1. p.amount \in Int
    BY DEF TypeOK, PacketType
  <2> QED
    BY <1>1, <2>1, AdditionsHere DEF TalkInv
<1>7. BidStake(o, u)' = BidStake(o, u)
  BY DEF BidStake
<1>8. ledger'[o].held[u] = ledger[o].held[u]
  OBVIOUS
<1>9. InOrder(o, u)'
  BY <1>1, <1>2, <1>5, <1>6, <1>7, <1>8 DEF InOrder, Capped, Staked
<1> QED
  BY <1>1, <1>2, <1>4, <1>9, FocusKeeps

LEMMA HomeBidKeepsTalk ==
    ASSUME TypeOK, TalkInv, NEW p \in packets,
           \/ OnReceivedMakeBid(p) \/ OnReceivedTakeBid(p) \/ RefuseTakeBidLate(p)
           \/ OnReceivedCancelBid(p) \/ OnReceivedUpdateBid(p)
    PROVE  TalkInv'
<1>1. /\ p.order \in Orders /\ p.who \in Users /\ p.type \in BidTypes
      /\ p.state = "sent" /\ BidTalk(p) /\ SaleTalk(p)
  BY DEF TypeOK, PacketType, OnReceivedMakeBid, OnReceivedTakeBid,
         RefuseTakeBidLate, OnReceivedCancelBid, OnReceivedUpdateBid, Arrives,
         BidTypes, TalkInv
<1>2. UNCHANGED <<remote, remoteBids>>
  BY DEF OnReceivedMakeBid, OnReceivedTakeBid, RefuseTakeBidLate,
         OnReceivedCancelBid, OnReceivedUpdateBid, swapVars
<1>3. \A x \in Orders : ledger'[x].held = ledger[x].held
  <2>1. ledger' = ledger \/ ledger' = [ledger EXCEPT ![p.order] = Delivered(@)]
    BY DEF OnReceivedMakeBid, OnReceivedTakeBid, RefuseTakeBidLate,
           OnReceivedCancelBid, OnReceivedUpdateBid, DeliverTo
  <2>2. ledger \in [Orders -> LedgerType]
    BY DEF TypeOK
  <2> QED
    BY <1>1, <2>1, <2>2, DeliveredEntry
<1> DEFINE Mirror == nativeBids[p.order][p.who]
<1>4. CASE OnReceivedMakeBid(p)
  <2>1. PICK q : AnswersBy(p, q) /\ q.state = "ok"
    BY <1>1, <1>4, AckAnswers DEF OnReceivedMakeBid
  <2>2. SetNativeBid(p.order, p.who, NewBid("Placed", p.amount, p.expire))
        /\ p.type = "MakeBid"
    BY <1>4 DEF OnReceivedMakeBid, Arrives
  <2> QED
    BY <1>1, <1>2, <1>3, <2>1, <2>2, HomeBid
<1>5. CASE OnReceivedTakeBid(p) \/ OnReceivedCancelBid(p)
  <2>1. PICK q : AnswersBy(p, q) /\ q.state = "ok"
    BY <1>1, <1>5, AckAnswers DEF OnReceivedTakeBid, OnReceivedCancelBid
  <2>2. /\ \E bid : SetNativeBid(p.order, p.who, bid)
        /\ p.type \in {"TakeBid", "CancelBid"}
    BY <1>5 DEF OnReceivedTakeBid, OnReceivedCancelBid, Arrives, Execute
  <2> QED
    BY <1>1, <1>2, <1>3, <2>1, <2>2, HomeBid
<1>6. CASE RefuseTakeBidLate(p)
  \* No careful maker takes the bid of somebody who may not buy.
  BY <1>1, <1>6 DEF RefuseTakeBidLate, Arrives, SaleTalk
<1>7. CASE OnReceivedUpdateBid(p)
  <2>1. PICK q : AnswersBy(p, q) /\ q.state = "ok"
    BY <1>1, <1>7, AckAnswers DEF OnReceivedUpdateBid
  <2>2. /\ SetNativeBid(p.order, p.who, Raised(Mirror, p.amount))
        /\ p.type = "UpdateBid" /\ Mirror.status = "Placed"
    BY <1>7 DEF OnReceivedUpdateBid, UpdateAccepted, Arrives
  <2>3. Mirror = remoteBids[p.order][p.who]
    BY <1>1, <2>2, AgreedBefore DEF BidTalk
  <2> QED
    BY <1>1, <1>2, <1>3, <2>1, <2>2, <2>3, HomeBid
<1> QED
  BY <1>4, <1>5, <1>6, <1>7

-----------------------------------------------------------------------------
\* Steps that change the away chain's record of a bid, or its stake.

LEMMA BidUpdates ==
    ASSUME NEW bid \in BidType, NEW amount \in Nat
    PROVE  /\ \A status : /\ InStatus(bid, status).status = status
                          /\ InStatus(bid, status).amount = bid.amount
           /\ Raised(bid, amount).status = bid.status
           /\ Raised(bid, amount).amount = bid.amount + amount
BY DEF BidType, InStatus, Raised

\* A bid packet that is settled leaves no packet, and no addition, behind.
LEMMA SettledFacts ==
    ASSUME TypeOK, TalkInv, NEW p \in packets, p.who \in Users, packets' = packets \ {p},
           sent' = sent
    PROVE  /\ p.order \in Orders /\ p.amount \in Nat
           /\ Moves(p) /\ Drops(p) /\ packets' \ packets = {}
           /\ BidTalk(p) /\ SaleTalk(p) /\ InOrder(p.order, p.who)
           /\ remoteBids[p.order][p.who] \in BidType
           /\ AdditionStake(p.order, p.who)' = 0
           /\ AdditionStake(p.order, p.who) =
                 IF p.type = "UpdateBid" THEN p.amount ELSE 0
           /\ LockStake(p.order, p.who) \in Int
           /\ ledger[p.order].held[p.who] \in Int
<1>1. /\ p.order \in Orders /\ p.amount \in Nat
      /\ remoteBids[p.order][p.who] \in BidType
      /\ ledger[p.order].held[p.who] \in Int
  BY DEF TypeOK, PacketType, LedgerType
<1>2. LockStake(p.order, p.who) \in Int
  BY <1>1, OfferFacts DEF LockStake
<1>3. Drops(p) /\ Moves(p) /\ packets' \ packets = {}
  BY DEF Drops, Moves
<1> QED
  BY <1>1, <1>2, <1>3, AdditionsHere DEF TalkInv

\* The answer to a bid, and to an addition: the record catches up.
LEMMA AckBidKeepsTalk ==
    ASSUME TypeOK, TalkInv, NEW p \in packets, AckMakeBid(p) \/ AckUpdateBid(p)
    PROVE  TalkInv'
<1> DEFINE o == p.order
           u == p.who
           bid == remoteBids[o][u]
           new == IF p.type = "MakeBid" THEN InStatus(bid, "Placed")
                                        ELSE Raised(bid, p.amount)
<1>1. /\ p.who \in Users /\ p.type \in {"MakeBid", "UpdateBid"} /\ p.state = "ok"
      /\ packets' = packets \ {p} /\ sent' = sent
      /\ SetRemoteBid(o, u, new)
      /\ UNCHANGED <<remote, nativeBids, ledger>>
  BY DEF AckMakeBid, AckUpdateBid, Succeeded, Consume, swapVars, TypeOK,
         PacketType, BidTypes
<1>2. /\ o \in Orders /\ p.amount \in Nat /\ bid \in BidType
      /\ Moves(p) /\ packets' \ packets = {} /\ BidTalk(p) /\ InOrder(o, u)
      /\ AdditionStake(o, u)' = 0
      /\ AdditionStake(o, u) = IF p.type = "UpdateBid" THEN p.amount ELSE 0
      /\ LockStake(o, u) \in Int
  BY <1>1, SettledFacts
<1> HIDE DEF new
<1>3. Focused(p) /\ LockStake(o, u)' = LockStake(o, u)
  <2>1. HeldKept(o, u)
    BY <1>1 DEF HeldKept
  <2> QED
    BY <1>1, <1>2, <2>1, BidFocused
<1>4. remoteBids'[o][u] = new
  BY <1>1, <1>2, BidTables
<1>5. /\ nativeBids[o][u] = new /\ new.status = "Placed"
      /\ new.amount = bid.amount + AdditionStake(o, u)
      /\ bid.status \in {"Initial", "Placed"}
  <2>1. CASE p.type = "MakeBid"
    BY <1>1, <1>2, <2>1 DEF BidTalk, new, NewBid, InStatus
  <2>2. CASE p.type = "UpdateBid"
    BY <1>1, <1>2, <2>2, BidUpdates DEF BidTalk, new
  <2> QED
    BY <1>1, <2>1, <2>2
<1>6. /\ BidStake(o, u) = bid.amount
      /\ BidStake(o, u)' = bid.amount + AdditionStake(o, u)
  BY <1>4, <1>5 DEF BidStake
<1>7. Agreement(o, u)'
  BY <1>1, <1>4, <1>5 DEF Agreement
<1>8. Capped(o, u)'
  <2>1. CASE p.type = "MakeBid"
    BY <1>1, <1>2, <1>6, <2>1 DEF Capped, InOrder, BidType
  <2>2. CASE p.type = "UpdateBid"
    BY <1>1, <1>2, <1>6, <2>2 DEF Capped, BidTalk
  <2> QED
    BY <1>1, <2>1, <2>2
<1>9. Staked(o, u)'
  <2>1. bid.amount \in Nat
    BY <1>2 DEF BidType
  <2> QED
    BY <1>1, <1>2, <1>3, <1>6, <2>1 DEF Staked, InOrder
<1> QED
  BY <1>2, <1>3, <1>7, <1>8, <1>9, FocusKeeps DEF InOrder

\* A bid that failed, was cancelled or was taken: its stake leaves in full.
LEMMA EndedBid ==
    ASSUME TypeOK, TalkInv, NEW p \in packets, p.who \in Users, Focused(p),
           packets' = packets \ {p}, sent' = sent,
           p.type \in {"MakeBid", "CancelBid", "TakeBid"},
           remoteBids'[p.order][p.who].status \notin {"Initial", "Placed"},
           ledger'[p.order].held[p.who] =
               ledger[p.order].held[p.who] - remoteBids[p.order][p.who].amount,
           LockStake(p.order, p.who)' = LockStake(p.order, p.who)
    PROVE  TalkInv'
<1> DEFINE o == p.order
           u == p.who
           bid == remoteBids[o][u]
<1>1. /\ o \in Orders /\ bid \in BidType
      /\ Moves(p) /\ packets' \ packets = {} /\ BidTalk(p) /\ InOrder(o, u)
      /\ AdditionStake(o, u)' = 0 /\ AdditionStake(o, u) = 0
      /\ LockStake(o, u) \in Int
  BY SettledFacts
<1>2. bid.status \in {"Initial", "Placed"}
  BY <1>1 DEF BidTalk, NewBid
<1>3. BidStake(o, u) = bid.amount /\ BidStake(o, u)' = 0
  BY <1>2 DEF BidStake
<1>4. Agreement(o, u)' /\ Capped(o, u)'
  <2>1. 0 <= Offer[o].buy
    BY <1>1, OfferFacts
  <2> QED
    BY <1>3, <2>1 DEF Agreement, Capped
<1>5. Staked(o, u)'
  <2>1. bid.amount \in Nat
    BY <1>1 DEF BidType
  <2> QED
    BY <1>1, <1>3, <2>1 DEF Staked, InOrder
<1> QED
  BY <1>1, <1>4, <1>5, FocusKeeps DEF InOrder

LEMMA BidReturnsKeepTalk ==
    ASSUME TypeOK, TalkInv, NEW p \in packets, RefundMakeBid(p) \/ AckCancelBid(p)
    PROVE  TalkInv'
<1> DEFINE o == p.order
           u == p.who
           bid == remoteBids[o][u]
<1>1. /\ p.who \in Users /\ p.type \in {"MakeBid", "CancelBid"}
      /\ packets' = packets \ {p} /\ sent' = sent
      /\ UNCHANGED <<remote, nativeBids>>
  BY DEF RefundMakeBid, AckCancelBid, Succeeded, Failed, Consume, swapVars, TypeOK,
         PacketType, BidTypes
<1>2. o \in Orders /\ bid \in BidType /\ BidTalk(p)
  BY <1>1, SettledFacts
<1>3. /\ ledger' = [ledger EXCEPT ![o] = TakenOut(@, u, bid.amount)]
      /\ \E status \in {"Failed", "Cancelled"} : SetRemoteBid(o, u, InStatus(bid, status))
  <2>1. CASE RefundMakeBid(p)
    <3>1. p.amount = bid.amount
      BY <1>2, <2>1 DEF RefundMakeBid, Failed, BidTalk, NewBid
    <3> QED
      BY <2>1, <3>1 DEF RefundMakeBid, PayBack
  <2>2. CASE AckCancelBid(p)
    BY <2>2 DEF AckCancelBid, PayBack
  <2> QED
    BY <2>1, <2>2
<1>4. /\ ledger'[o].held[u] = ledger[o].held[u] - bid.amount
      /\ HeldKept(o, u)
  BY <1>1, <1>2, <1>3, HeldLess
<1>5. Focused(p) /\ LockStake(o, u)' = LockStake(o, u)
  BY <1>1, <1>2, <1>3, <1>4, BidFocused
<1>6. remoteBids'[o][u].status \in {"Failed", "Cancelled"}
  BY <1>1, <1>2, <1>3, BidTables, BidUpdates
<1> QED
  BY <1>1, <1>4, <1>5, <1>6, EndedBid

\* The maker is paid with the bid; the order was not locked by anyone.
LEMMA AckTakeBidKeepsTalk ==
    ASSUME TypeOK, TalkInv, NEW p \in packets, AckTakeBid(p)
    PROVE  TalkInv'
<1> DEFINE o == p.order
           u == p.who
           bid == remoteBids[o][u]
<1>1. /\ p.who \in Users /\ p.type = "TakeBid" /\ nativeBids' = nativeBids
      /\ packets' = packets \ {p} /\ sent' = sent
      /\ PayMaker(o, u, bid.amount) /\ SetRemoteBid(o, u, InStatus(bid, "Executed"))
  BY DEF AckTakeBid, Succeeded, Consume, TypeOK, PacketType, BidTypes
<1>2. o \in Orders /\ bid \in BidType /\ SaleTalk(p)
  BY <1>1, SettledFacts
<1>3. ledger'[o].held[u] = ledger[o].held[u] - bid.amount /\ HeldKept(o, u)
  BY <1>1, <1>2, HeldLess DEF PayMaker
<1>4. /\ remote'[o].loc = "inactive"
      /\ \A x \in Orders \ {o} : remote'[x] = remote[x]
  <2>1. /\ remote[o] \in OrderType
        /\ remote'[o] = Completed(remote[o], u)
        /\ \A x \in Orders \ {o} : remote'[x] = remote[x]
    BY <1>1, <1>2 DEF PayMaker, TypeOK
  <2> QED
    BY <2>1, CompletedRecord
<1>5. \A x \in Orders, v \in Users : LockStake(x, v)' = LockStake(x, v)
  BY <1>1, <1>2, <1>4, UserAssumption DEF LockStake, SaleTalk, Found
<1>6. Focused(p)
  <2>1. ASSUME NEW x \in Orders, NEW v \in Users PROVE Untouched(x, v) \/ (x = o /\ v = u)
    <3>1. remoteBids'[x][v] = remoteBids[x][v] \/ (x = o /\ v = u)
      BY <1>1, <1>2, BidTables
    <3> QED
      BY <1>1, <1>3, <1>5, <3>1 DEF Untouched, HeldKept
  <2> QED
    BY <1>1, <1>2, <1>4, <2>1 DEF Focused, OrderRequests
<1>7. remoteBids'[o][u].status = "Executed"
  BY <1>1, <1>2, BidTables, BidUpdates
<1> QED
  BY <1>1, <1>2, <1>3, <1>5, <1>6, <1>7, EndedBid

\* An addition that failed goes back.
LEMMA RefundUpdateKeepsTalk ==
    ASSUME TypeOK, TalkInv, NEW p \in packets, RefundUpdateBid(p)
    PROVE  TalkInv'
<1> DEFINE o == p.order
           u == p.who
<1>1. /\ p.who \in Users /\ p.type = "UpdateBid" /\ p.state # "ok"
      /\ packets' = packets \ {p} /\ sent' = sent
      /\ UNCHANGED <<remote, remoteBids, nativeBids>>
      /\ ledger' = [ledger EXCEPT ![o] = TakenOut(@, u, p.amount)]
  BY DEF RefundUpdateBid, Failed, Consume, PayBack, swapVars, bidVars, TypeOK,
         PacketType, BidTypes
<1>2. /\ o \in Orders /\ p.amount \in Nat
      /\ Moves(p) /\ packets' \ packets = {} /\ InOrder(o, u)
      /\ AdditionStake(o, u)' = 0 /\ AdditionStake(o, u) = p.amount
      /\ LockStake(o, u) \in Int /\ remoteBids[o][u] \in BidType
  BY <1>1, SettledFacts
<1>3. ledger'[o].held[u] = ledger[o].held[u] - p.amount /\ HeldKept(o, u)
  BY <1>1, <1>2, HeldLess
<1>4. Focused(p) /\ LockStake(o, u)' = LockStake(o, u)
  BY <1>1, <1>2, <1>3, BidFocused
<1>5. Agreement(o, u)' /\ Capped(o, u)' /\ BidStake(o, u)' = BidStake(o, u)
  BY <1>1, <1>2, BidKept
<1>6. Staked(o, u)'
  <2>1. BidStake(o, u) \in Nat
    BY <1>2 DEF BidStake, BidType
  <2> QED
    BY <1>2, <1>3, <1>4, <1>5, <2>1 DEF Staked, InOrder
<1> QED
  BY <1>1, <1>2, <1>4, <1>5, <1>6, FocusKeeps DEF InOrder

\* A bid, or an addition to one, is put in.
LEMMA DepositKeepsTalk ==
    ASSUME TypeOK, TalkInv, Careful, NEW o \in Orders, NEW u \in Users,
           \/ \E amount \in BidAmounts, expire \in BidExpiries :
                 ExecuteMakeBid(o, u, amount, expire)
           \/ \E addition \in Additions : ExecuteUpdateBid(o, u, addition)
    PROVE  TalkInv'
<1> DEFINE bid == remoteBids[o][u]
<1>1. bid \in BidType /\ bid.amount \in Nat /\ LockStake(o, u) \in Int
  BY OfferFacts DEF TypeOK, BidType, LockStake
<1>2. ASSUME NEW amount \in BidAmounts, NEW expire \in BidExpiries,
             ExecuteMakeBid(o, u, amount, expire)
      PROVE  TalkInv'
  <2> DEFINE q == NewPacket(o, "MakeBid", u, amount, expire)
             new == NewBid("Initial", amount, expire)
  <2>1. Sends(q)
    BY <1>2, CarefulSends DEF ExecuteMakeBid, SendBidPacket, TalkInv
  <2>2. /\ q.order = o /\ q.type = "MakeBid" /\ q.who = u /\ q.state = "sent"
        /\ q.amount = amount /\ q.expire = expire
    BY DEF NewPacket
  <2>3. /\ SetRemoteBid(o, u, new) /\ UNCHANGED <<remote, nativeBids>>
        /\ ledger' = [ledger EXCEPT ![o] = PutIn(@, u, amount)]
        /\ ~Live(bid)
    BY <1>2 DEF ExecuteMakeBid, Deposit, swapVars
  <2>4. new.status = "Initial" /\ new.amount = amount /\ amount \in Nat
    BY AmountAssumption DEF NewBid
  <2> HIDE DEF q
  <2>5. ledger'[o].held[u] = ledger[o].held[u] + amount /\ HeldKept(o, u)
    BY <2>3, HeldMore
  <2>6. remoteBids'[o][u] = new
    BY <2>3, BidTables
  <2>7. Moves(q) /\ Focused(q) /\ LockStake(o, u)' = LockStake(o, u)
    BY <2>1, <2>2, <2>3, <2>5, BidFocused DEF Moves
  <2>8. ASSUME NEW r \in packets' \ packets PROVE BidTalk(r)' /\ SaleTalk(r)'
    <3>1. r = q
      BY <2>1, <2>8 DEF Sends
    <3> QED
      BY <2>2, <2>6, <3>1 DEF BidTalk, SaleTalk, BuyTypes
  <2>9. AdditionStake(o, u) = 0 /\ AdditionStake(o, u)' = 0
    BY <2>1, <2>2, <2>4, <2>7, AdditionsHere, AdditionsElsewhere DEF TalkInv
  <2>10. BidStake(o, u) = 0 /\ BidStake(o, u)' = amount
    BY <2>3, <2>4, <2>6 DEF BidStake, Live
  <2>11. InOrder(o, u)'
    <3>1. Staked(o, u)
      BY DEF TalkInv, InOrder
    <3>2. Staked(o, u)'
      BY <1>1, <2>4, <2>5, <2>7, <2>9, <2>10, <3>1 DEF Staked
    <3>3. Agreement(o, u)'
      BY <2>4, <2>6 DEF Agreement
    <3> QED
      BY <2>10, <3>2, <3>3 DEF InOrder, Capped
  <2> QED
    BY <2>2, <2>7, <2>8, <2>11, FocusKeeps
<1>3. ASSUME NEW addition \in Additions, ExecuteUpdateBid(o, u, addition)
      PROVE  TalkInv'
  <2> DEFINE q == NewPacket(o, "UpdateBid", u, addition, 0)
  <2>1. Sends(q)
    BY <1>3, CarefulSends DEF ExecuteUpdateBid, SendBidPacket, TalkInv
  <2>2. /\ q.order = o /\ q.type = "UpdateBid" /\ q.who = u /\ q.state = "sent"
        /\ q.amount = addition
    BY DEF NewPacket
  <2>3. /\ UNCHANGED <<remote, remoteBids, nativeBids>>
        /\ ledger' = [ledger EXCEPT ![o] = PutIn(@, u, addition)]
        /\ bid.status = "Placed" /\ bid.amount + addition <= Offer[o].buy
    BY <1>3 DEF ExecuteUpdateBid, WithinPrice, Deposit, swapVars, bidVars
  <2>4. addition \in Nat
    BY AmountAssumption
  <2> HIDE DEF q
  <2>5. ledger'[o].held[u] = ledger[o].held[u] + addition /\ HeldKept(o, u)
    BY <2>3, HeldMore
  <2>6. Moves(q) /\ ~Drops(q) /\ Focused(q) /\ LockStake(o, u)' = LockStake(o, u)
    <3>1. ~Drops(q)
      BY <2>1 DEF Sends, Drops, Conflict
    <3> QED
      BY <2>1, <2>2, <2>3, <2>5, <3>1, BidFocused DEF Moves
  <2>7. ASSUME NEW r \in packets' \ packets PROVE BidTalk(r)' /\ SaleTalk(r)'
    <3>1. r = q
      BY <2>1, <2>7 DEF Sends
    <3> QED
      BY <2>2, <2>3, <3>1 DEF BidTalk, SaleTalk, BuyTypes
  <2>8. AdditionStake(o, u) = 0 /\ AdditionStake(o, u)' = addition
    BY <2>1, <2>2, <2>4, <2>6, AdditionsHere DEF TalkInv
  <2>9. Agreement(o, u)' /\ Capped(o, u)' /\ BidStake(o, u)' = BidStake(o, u)
    BY <2>2, <2>3, <2>6, BidKept
  <2>10. InOrder(o, u)'
    <3>1. Staked(o, u)
      BY DEF TalkInv, InOrder
    <3>2. BidStake(o, u) \in Nat
      BY <1>1 DEF BidStake
    <3>3. Staked(o, u)'
      BY <1>1, <2>4, <2>5, <2>6, <2>8, <2>9, <3>1, <3>2 DEF Staked
    <3> QED
      BY <2>9, <3>3 DEF InOrder
  <2> QED
    BY <2>2, <2>6, <2>7, <2>10, FocusKeeps
<1> QED
  BY <1>2, <1>3

-----------------------------------------------------------------------------
\* The invariant holds.

LEMMA TalkInit == Init => TalkInv
<1> SUFFICES ASSUME Init PROVE TalkInv
  OBVIOUS
<1>1. NumberedBySent /\ OneTalk /\ \A p \in packets : BidTalk(p) /\ SaleTalk(p)
  BY DEF Init, NumberedBySent, OneTalk
<1>2. ASSUME NEW o \in Orders, NEW u \in Users PROVE InOrder(o, u)
  <2>1. remoteBids[o][u].status = "none" /\ remote[o].loc = "none"
    BY DEF Init, NoBid, NoOrder
  <2>2. BidStake(o, u) = 0 /\ LockStake(o, u) = 0
    BY <2>1 DEF BidStake, LockStake, Found
  <2>3. AdditionStake(o, u) = 0
    <3>1. AddsTo(packets, o, u) = {}
      BY DEF Init, AddsTo
    <3> QED
      BY <3>1, AdditionStakes, AdditionTotals
  <2>4. ledger[o].held[u] = 0 /\ Offer[o].buy >= 0
    BY OfferFacts DEF Init, EmptyLedger
  <2> QED
    BY <2>1, <2>2, <2>3, <2>4 DEF InOrder, Agreement, Capped, Staked
<1> QED
  BY <1>1, <1>2 DEF TalkInv

LEMMA TalkUnseen ==
    ASSUME TalkInv,
           UNCHANGED <<remote, remoteBids, nativeBids, packets, sent, ledger>>
    PROVE  TalkInv'
<1>1. NumberedBySent' /\ OneTalk'
  BY DEF TalkInv, NumberedBySent, OneTalk
<1>2. \A p \in packets' : BidTalk(p)' /\ SaleTalk(p)'
  BY DEF TalkInv, BidTalk, SaleTalk, Found
<1>3. ASSUME NEW o \in Orders, NEW u \in Users PROVE InOrder(o, u)'
  <2>1. /\ BidStake(o, u)' = BidStake(o, u) /\ LockStake(o, u)' = LockStake(o, u)
        /\ AdditionStake(o, u)' = AdditionStake(o, u)
    BY AdditionStakes DEF BidStake, LockStake, Found
  <2> QED
    BY <2>1 DEF TalkInv, InOrder, Agreement, Capped, Staked
<1> QED
  BY <1>1, <1>2, <1>3 DEF TalkInv

LEMMA TalkNext ==
    TypeOK /\ SettlementInv /\ CancelInv /\ TalkInv /\ [CarefulNext]_vars => TalkInv'
<1> SUFFICES ASSUME TypeOK, SettlementInv, CancelInv, TalkInv, [CarefulNext]_vars
             PROVE  TalkInv'
  OBVIOUS
<1>1. CASE Environment \/ UNCHANGED vars
  <2>1. UNCHANGED <<remote, remoteBids, nativeBids, packets, sent, ledger>>
    BY <1>1 DEF Environment, vars, IbcChannelConnect, Tick, swapVars, bidVars,
                ExecutePauseMarket, ExecuteUnpauseMarket, SetMarket
  <2> QED
    BY <2>1, TalkUnseen
<1>2. CASE SwapRequest /\ Careful
  BY <1>2, StillRequests, TakeKeepsTalk DEF SwapRequest
<1>3. CASE BidRequest /\ Careful
  BY <1>3, StillRequests, DepositKeepsTalk DEF BidRequest
<1>4. CASE SwapRelay
  BY <1>4, StillRelays, MirrorKeepsTalk, TakeSettledKeepsTalk DEF SwapRelay
<1>5. CASE BidRelay
  BY <1>5, StillRelays, HomeBidKeepsTalk, AckBidKeepsTalk, BidReturnsKeepTalk,
     AckTakeBidKeepsTalk, RefundUpdateKeepsTalk DEF BidRelay
<1> QED
  BY <1>1, <1>2, <1>3, <1>4, <1>5 DEF CarefulNext, Relay

\* Careful clients hold one conversation at a time, and after each of its
\* steps both chains, the packets and the stakes fit together.
THEOREM TalkCorrect == CarefulSpec => []TalkInv
<1>1. CarefulSpec => [](TypeOK /\ SettlementInv /\ CancelInv)
  BY CarefulIsSpec, TypeCorrect, SettlementCorrect, CancelCorrect, PTL
<1> QED
  BY <1>1, TalkInit, TalkNext, PTL DEF CarefulSpec

\* Every bid, with its additions, and every lock of a careful client is held
\* by the contract until it is refunded or paid, once and in full.
THEOREM StakesHeldCorrect == CarefulSpec => []StakesHeld
<1>1. TalkInv => StakesHeld
  BY DEF TalkInv, InOrder, Staked, StakesHeld
<1> QED
  BY <1>1, TalkCorrect, PTL

\* An addition in flight counts towards the price, although
\* execute_update_bid does not look at it: careful bidders cannot pass it.
THEOREM PriceCapsCorrect == CarefulSpec => []PriceCaps
<1>1. TypeOK /\ TalkInv => PriceCaps
  <2> SUFFICES ASSUME TypeOK, TalkInv, NEW o \in Orders, NEW u \in Users
               PROVE  \/ BidStake(o, u) + AdditionStake(o, u) <= Offer[o].buy
                      \/ BidStake(o, u) \in BidAmounts /\ AdditionStake(o, u) = 0
    BY DEF PriceCaps
  <2>1. Capped(o, u) /\ BidStake(o, u) \in Nat /\ Offer[o].buy \in Nat
    BY OfferFacts DEF TalkInv, InOrder, BidStake, TypeOK, BidType
  <2>2. CASE AddsTo(packets, o, u) = {}
    BY <2>1, <2>2, AdditionStakes, AdditionTotals DEF Capped
  <2>3. ASSUME NEW p \in AddsTo(packets, o, u) PROVE
            BidStake(o, u) + AdditionStake(o, u) <= Offer[o].buy
    <3>1. AddsTo(packets, o, u) = {p} /\ p.amount \in Nat
      BY <2>3 DEF AddsTo, TalkInv, OneTalk, Conflict, TypeOK, PacketType
    <3>2. AdditionStake(o, u) = p.amount
      BY <3>1, AdditionStakes, AdditionTotals
    <3>3. BidStake(o, u) = remoteBids[o][u].amount
          /\ remoteBids[o][u].amount + p.amount <= Offer[o].buy
      BY <2>3 DEF AddsTo, TalkInv, BidTalk, BidStake
    <3> QED
      BY <3>2, <3>3
  <2> QED
    BY <2>2, <2>3
<1>2. CarefulSpec => []TypeOK
  BY CarefulIsSpec, TypeCorrect, PTL
<1> QED
  BY <1>1, <1>2, TalkCorrect, PTL

\* Both chains have the same record of a placed bid when nothing about it is
\* under way, but for a bid that was taken for a user who may not buy.
THEOREM PlacedBidsAgreeCorrect == CarefulSpec => []PlacedBidsAgree
<1>1. TalkInv => PlacedBidsAgree
  BY DEF TalkInv, InOrder, Agreement, PlacedBidsAgree
<1> QED
  BY <1>1, TalkCorrect, PTL

-----------------------------------------------------------------------------
\* Sold or returned.

\* What is being bought was not returned.
LEMMA BoughtUnrefunded ==
    ASSUME TypeOK, CancelInv, TalkInv, NEW p \in packets, p.type \in BuyTypes
    PROVE  ledger[p.order].refunded = 0
<1>1. p.order \in Orders
  BY DEF TypeOK, PacketType
<1>2. remote[p.order].loc = "active" /\ remote[p.order].status # "Cancel"
  BY DEF TalkInv, SaleTalk, CancelInv, TakeHoldsLock, BuyTypes, Found
<1> QED
  BY <1>1, <1>2 DEF CancelInv, RefundHasReason, Sealed, CancelStands

LEMMA SoldOrReturnedNext ==
    ASSUME TypeOK, SettlementInv, CancelInv, SettlementInv', CancelInv', TalkInv,
           SoldOrReturnedAll, [Next]_vars
    PROVE  SoldOrReturnedAll'
<1> SUFFICES ASSUME NEW o \in Orders,
                    ledger'[o].delivered = 1, ledger'[o].refunded = 1
             PROVE  FALSE
  BY DEF SettlementInv, PaidMeansInactive, CancelInv, RefundHasReason,
         SoldOrReturnedAll
<1>1. /\ ledger[o].delivered \in {0, 1} /\ ledger[o].refunded \in {0, 1}
      /\ ledger[o].delivered + ledger[o].refunded <= 1
  BY DEF SettlementInv, PaidMeansInactive, CancelInv, RefundHasReason,
         SoldOrReturnedAll
<1>2. CASE ledger[o].delivered = 0
  <2>1. PICK p \in packets : Delivery(p) /\ p.order = o
    <3>1. ledger'[o].delivered # ledger[o].delivered
      BY <1>2
    <3>2. SettlementStep
      BY StepShapes DEF SettlementInv
    <3>3. ~QuietStep
      BY <3>1 DEF QuietStep, OrderKept
    <3>4. \A x \in Orders : ~ExecuteMakeSwap(x)
      BY <3>1 DEF ExecuteMakeSwap
    <3>5. \A p \in packets : ~OnReceivedMake(p)
      BY <3>1 DEF OnReceivedMake
    <3>6. \A p \in packets : ~Payment(p)
      BY <3>1, PaymentStep
    <3> QED
      BY <3>1, <3>2, <3>3, <3>4, <3>5, <3>6, DeliveryStep DEF SettlementStep
  <2>2. ledger[o].refunded = 0
    BY <2>1, BoughtUnrefunded, DeliveryStep
  <2>3. ledger'[o].refunded = ledger[o].refunded
    BY <2>1, UnrefundedEntries
       DEF Delivery, OnReceivedTake, OnReceivedTakeBid, DeliverTo, TypeOK
  <2> QED
    BY <2>2, <2>3
<1>3. CASE ledger[o].delivered = 1
  <2>1. ledger[o].refunded = 0 /\ native[o].loc = "inactive"
    BY <1>1, <1>3 DEF SettlementInv, PaidMeansInactive
  <2>2. CancellationStep
    BY CancellationShapes
  <2>3. \A x \in packets : RefundMakeSwap(x) \/ AckCancelSwap(x) => ledger'[o] = ledger[o]
    BY <2>1 DEF RefundMakeSwap, AckCancelSwap, CancelRefundable, Found, TypeOK
  <2>4. ~AsideStep
    BY <2>1 DEF AsideStep
  <2>5. /\ \A x \in Orders : ~ExecuteMakeSwap(x)
        /\ \A p \in packets : ~OnReceivedMake(p) /\ ~OnReceivedCancel(p)
    BY <2>1 DEF ExecuteMakeSwap, OnReceivedMake, OnReceivedCancel
  <2>6. ledger[o] \in LedgerType
    BY DEF TypeOK
  <2>7. ASSUME NEW x \in Orders, NEW u \in Users, ExecuteTakeSwap(x, u)
        PROVE  FALSE
    <3>1. ledger'[o] = ledger[o] \/ ledger'[o] = PutIn(ledger[o], u, Offer[x].buy)
      BY <2>7 DEF ExecuteTakeSwap, TypeOK
    <3> QED
      BY <2>1, <2>6, <3>1, UnrefundedEntries
  <2>8. ASSUME NEW p \in packets, Payment(p) \/ RefundTakeSwap(p)
        PROVE  FALSE
    <3>1. PICK amount :
              \/ ledger' = [ledger EXCEPT ![p.order] = MakerPaid(@, p.who, amount)]
              \/ ledger' = [ledger EXCEPT ![p.order] = TakenOut(@, p.who, amount)]
      BY <2>8 DEF Payment, AckTakeSwap, AckTakeBid, PayMaker, RefundTakeSwap
    <3>2. \/ ledger'[o] = ledger[o]
          \/ ledger'[o] = MakerPaid(ledger[o], p.who, amount)
          \/ ledger'[o] = TakenOut(ledger[o], p.who, amount)
      BY <3>1 DEF TypeOK
    <3> QED
      BY <2>1, <2>6, <3>2, UnrefundedEntries
  <2> QED
    BY <2>1, <2>2, <2>3, <2>4, <2>5, <2>7, <2>8 DEF CancellationStep
<1> QED
  BY <1>1, <1>2, <1>3

\* An order of careful clients is sold or returned to its maker, never both,
\* even if bids of it are taken (on_received_take_bid against
\* on_received_cancel and the refunds).
THEOREM SoldOrReturnedAllCorrect == CarefulSpec => []SoldOrReturnedAll
<1>1. Init => SoldOrReturnedAll
  BY DEF Init, EmptyLedger, SoldOrReturnedAll
<1>2. CarefulSpec => [](TypeOK /\ SettlementInv /\ CancelInv)
  BY CarefulIsSpec, TypeCorrect, SettlementCorrect, CancelCorrect, PTL
<1>3. /\ TypeOK /\ SettlementInv /\ CancelInv
      /\ SettlementInv' /\ CancelInv'
      /\ TalkInv /\ SoldOrReturnedAll /\ [CarefulNext]_vars
      => SoldOrReturnedAll'
  BY SoldOrReturnedNext, CarefulIsNext
<1> QED
  BY <1>1, <1>2, <1>3, TalkCorrect, PTL DEF CarefulSpec

-----------------------------------------------------------------------------
\* Accounts.  Whatever clients do, the account of a chain holds its reserve,
\* the sell tokens of the orders made there less what was delivered and
\* refunded of them, and what users put in less what they got back or spent.

HomeRest(o) ==
    IF native[o].loc = "none" THEN 0
    ELSE Offer[o].sell * (1 - ledger[o].delivered - ledger[o].refunded)

HomeShare(c) == [o \in Orders |-> IF Home(o) = c THEN HomeRest(o) ELSE 0]

Bidders == Orders \X Users

HeldShare(c) ==
    [e \in Bidders |-> IF Away(e[1]) = c THEN ledger[e[1]].held[e[2]] ELSE 0]

Accounts ==
    \A c \in Chains :
        bank[c] = Reserve[c] + SumFunctionOnSet(HomeShare(c), Orders)
                             + SumFunctionOnSet(HeldShare(c), Bidders)

LEMMA FiniteBidders == IsFiniteSet(Bidders)
BY FiniteAssumption, FS_Product DEF Bidders

SharesTyped ==
    /\ \A o \in Orders : HomeRest(o) \in Int
    /\ \A c \in Chains :
          /\ \A o \in Orders : HomeShare(c)[o] \in Int
          /\ \A e \in Bidders : HeldShare(c)[e] \in Int
          /\ SumFunctionOnSet(HomeShare(c), Orders) \in Int
          /\ SumFunctionOnSet(HeldShare(c), Bidders) \in Int

LEMMA ShareTypes == TypeOK => SharesTyped
<1> SUFFICES ASSUME TypeOK PROVE SharesTyped
  OBVIOUS
<1>1. \A o \in Orders : HomeRest(o) \in Int
  <2> TAKE o \in Orders
  <2>1. ledger[o].delivered \in Nat /\ ledger[o].refunded \in Nat
    BY DEF TypeOK, LedgerType
  <2>2. Offer[o].sell \in Int
    BY OfferFacts
  <2> QED BY <2>1, <2>2 DEF HomeRest
<1>2. \A o \in Orders, u \in Users : ledger[o].held[u] \in Int
  BY DEF TypeOK, LedgerType
<1>3. \A c : /\ \A o \in Orders : HomeShare(c)[o] \in Int
             /\ \A e \in Bidders : HeldShare(c)[e] \in Int
  BY <1>1, <1>2 DEF HomeShare, HeldShare, Bidders
<1>4. \A c : /\ SumFunctionOnSet(HomeShare(c), Orders) \in Int
             /\ SumFunctionOnSet(HeldShare(c), Bidders) \in Int
  BY <1>3, FiniteBidders, FiniteAssumption, SumType
<1> QED
  BY <1>1, <1>3, <1>4 DEF SharesTyped

LEMMA ShareTypesNext == TypeOK' => SharesTyped'
BY ShareTypes, PTL

\* A step that moves no tokens.
StillRest == \A o \in Orders : HomeRest(o)' = HomeRest(o)
StillHeld == \A o \in Orders, u \in Users : ledger'[o].held[u] = ledger[o].held[u]

LEMMA NothingMoves ==
    ASSUME Accounts, StillRest, StillHeld, bank' = bank
    PROVE  Accounts'
<1>1. ASSUME NEW c
      PROVE  HomeShare(c)' = HomeShare(c) /\ HeldShare(c)' = HeldShare(c)
  BY DEF StillRest, StillHeld, HomeShare, HeldShare, Bidders
<1> QED BY <1>1 DEF Accounts

\* Sell tokens of an order enter or leave the account of its home chain.
LEMMA HomeMoves ==
    ASSUME TypeOK, TypeOK', Accounts, NEW o \in Orders, StillHeld,
           \A x \in Orders \ {o} : HomeRest(x)' = HomeRest(x),
           bank' = [bank EXCEPT ![Home(o)] = @ + (HomeRest(o)' - HomeRest(o))]
    PROVE  Accounts'
<1> SUFFICES ASSUME NEW c \in Chains
             PROVE  bank'[c] = Reserve[c] + SumFunctionOnSet(HomeShare(c)', Orders)
                                          + SumFunctionOnSet(HeldShare(c)', Bidders)
  BY DEF Accounts
<1> DEFINE f == HomeShare(c)
           g == HomeShare(c)'
<1>1. \A x \in Orders : f[x] \in Int /\ g[x] \in Int
  BY ShareTypes, ShareTypesNext DEF SharesTyped
<1>2. \A x \in Orders \ {o} : f[x] = g[x]
  BY DEF HomeShare
<1>3. g[o] - f[o] = IF Home(o) = c THEN HomeRest(o)' - HomeRest(o) ELSE 0
  BY DEF HomeShare
<1>4. HeldShare(c)' = HeldShare(c)
  BY DEF StillHeld, HeldShare, Bidders
<1>5. bank'[c] = bank[c] + (g[o] - f[o])
  <2>1. bank[c] \in Int /\ bank \in [Chains -> Nat]
    BY DEF TypeOK
  <2> HIDE DEF f, g
  <2> QED BY <1>3, <2>1
<1>6. bank[c] = Reserve[c] + SumFunctionOnSet(f, Orders)
                           + SumFunctionOnSet(HeldShare(c), Bidders)
  BY DEF Accounts
<1>7. /\ SumFunctionOnSet(f, Orders) \in Int
      /\ SumFunctionOnSet(HeldShare(c), Bidders) \in Int
  BY ShareTypes DEF SharesTyped
<1> HIDE DEF f, g
<1>8. SumFunctionOnSet(g, Orders) = SumFunctionOnSet(f, Orders) + g[o] - f[o]
  <2>1. IsFiniteSet(Orders)
    BY FiniteAssumption
  <2> QED BY <1>1, <1>2, <2>1, SumChange
<1>9. Reserve[c] \in Int
  BY ReserveAssumption
<1>10. bank'[c] = Reserve[c] + SumFunctionOnSet(g, Orders)
                             + SumFunctionOnSet(HeldShare(c), Bidders)
  BY <1>1, <1>5, <1>6, <1>7, <1>8, <1>9
<1> QED BY <1>4, <1>10 DEF g

\* A user's tokens enter or leave the account of the away chain.
LEMMA AwayMoves ==
    ASSUME TypeOK, TypeOK', Accounts, NEW o \in Orders, NEW u \in Users,
           StillRest, HeldKept(o, u),
           bank' = [bank EXCEPT
                       ![Away(o)] = @ + (ledger'[o].held[u] - ledger[o].held[u])]
    PROVE  Accounts'
<1> SUFFICES ASSUME NEW c \in Chains
             PROVE  bank'[c] = Reserve[c] + SumFunctionOnSet(HomeShare(c)', Orders)
                                          + SumFunctionOnSet(HeldShare(c)', Bidders)
  BY DEF Accounts
<1> DEFINE f == HeldShare(c)
           g == HeldShare(c)'
           b == <<o, u>>
<1>0. b \in Bidders /\ b[1] = o /\ b[2] = u
  BY DEF Bidders
<1>1. \A x \in Bidders : f[x] \in Int /\ g[x] \in Int
  BY ShareTypes, ShareTypesNext DEF SharesTyped
<1>2. \A x \in Bidders \ {b} : f[x] = g[x]
  <2> TAKE x \in Bidders \ {b}
  <2>1. x[1] \in Orders /\ x[2] \in Users /\ ~(x[1] = o /\ x[2] = u)
    BY DEF Bidders
  <2>2. ledger'[x[1]].held[x[2]] = ledger[x[1]].held[x[2]]
    BY <2>1 DEF HeldKept
  <2> QED BY <2>2 DEF HeldShare
<1>3. g[b] - f[b] = IF Away(o) = c THEN ledger'[o].held[u] - ledger[o].held[u] ELSE 0
  BY <1>0 DEF HeldShare
<1>4. HomeShare(c)' = HomeShare(c)
  BY DEF StillRest, HomeShare
<1>5. bank'[c] = bank[c] + (g[b] - f[b])
  <2>1. bank[c] \in Int /\ bank \in [Chains -> Nat]
    BY DEF TypeOK
  <2> HIDE DEF f, g, b
  <2> QED BY <1>3, <2>1
<1>6. bank[c] = Reserve[c] + SumFunctionOnSet(HomeShare(c), Orders)
                           + SumFunctionOnSet(f, Bidders)
  BY DEF Accounts
<1>7. /\ SumFunctionOnSet(f, Bidders) \in Int
      /\ SumFunctionOnSet(HomeShare(c), Orders) \in Int
  BY ShareTypes DEF SharesTyped
<1> HIDE DEF f, g, b
<1>8. SumFunctionOnSet(g, Bidders) = SumFunctionOnSet(f, Bidders) + g[b] - f[b]
  BY <1>0, <1>1, <1>2, FiniteBidders, SumChange
<1>9. Reserve[c] \in Int
  BY ReserveAssumption
<1>10. bank'[c] = Reserve[c] + SumFunctionOnSet(HomeShare(c), Orders)
                             + SumFunctionOnSet(g, Bidders)
  BY <1>0, <1>1, <1>5, <1>6, <1>7, <1>8, <1>9
<1> QED BY <1>4, <1>10 DEF g

\* What an order has left at home depends on its entry, and on whether it
\* was made.
LEMMA RestKept ==
    ASSUME NEW o \in Orders,
           native'[o].loc = "none" <=> native[o].loc = "none",
           ledger'[o].delivered = ledger[o].delivered,
           ledger'[o].refunded = ledger[o].refunded
    PROVE  HomeRest(o)' = HomeRest(o)
BY DEF HomeRest

\* Steps that leave the account and the history alone.
LEMMA QuietAccounts ==
    ASSUME Accounts, bank' = bank, ledger' = ledger,
           \A o \in Orders : native'[o].loc = "none" <=> native[o].loc = "none"
    PROVE  Accounts'
BY RestKept, NothingMoves DEF StillRest, StillHeld

\* A new order brings its sell tokens.
LEMMA MakeAccounts ==
    ASSUME TypeOK, TypeOK', SettlementInv, CancelInv, Accounts,
           NEW o \in Orders, ExecuteMakeSwap(o)
    PROVE  Accounts'
<1>1. /\ native[o].loc = "none" /\ native'[o].loc = "active" /\ ledger' = ledger
      /\ \A x \in Orders \ {o} : native'[x] = native[x]
      /\ bank' = Locked(Home(o), Offer[o].sell)
  BY DEF ExecuteMakeSwap, Appended, TypeOK
<1>2. ledger[o].delivered = 0 /\ ledger[o].refunded = 0
  BY <1>1 DEF SettlementInv, PaidMeansInactive, CancelInv, RefundHasReason
<1>3. HomeRest(o)' - HomeRest(o) = Offer[o].sell
  <2>1. Offer[o].sell \in Int
    BY OfferFacts
  <2>2. HomeRest(o)' = Offer[o].sell * 1 /\ HomeRest(o) = 0
    BY <1>1, <1>2 DEF HomeRest
  <2> QED BY <2>1, <2>2
<1>4. \A x \in Orders \ {o} : HomeRest(x)' = HomeRest(x)
  BY <1>1, RestKept
<1>5. StillHeld
  BY <1>1 DEF StillHeld
<1> QED BY <1>1, <1>3, <1>4, <1>5, HomeMoves DEF Locked

LEMMA OnceLess ==
    ASSUME NEW a \in Int, NEW n \in Int
    PROVE  a * n \in Int /\ a * (n - 1) = a * n - a
OBVIOUS

\* They leave for the buyer, or return to the maker.
LEMMA ReleaseAccounts ==
    ASSUME TypeOK, TypeOK', Accounts, NEW p \in packets,
           Delivery(p) \/ RefundMakeSwap(p) \/ AckCancelSwap(p)
    PROVE  Accounts'
<1> DEFINE o == p.order
<1>1. o \in Orders
  BY DEF TypeOK, PacketType
<1>2. /\ bank' = Paid(Home(o), Offer[o].sell)
      /\ native[o].loc = "active"
      /\ \/ ledger' = [ledger EXCEPT ![o] = Delivered(@)]
         \/ ledger' = [ledger EXCEPT ![o] = Refunded(@)]
      /\ \/ native' = [native EXCEPT ![o] = Completed(@, p.who)]
         \/ native' = [native EXCEPT ![o] = NotCreated(@)]
         \/ native' = [native EXCEPT ![o] = Cancelled(@)]
  BY DEF Delivery, OnReceivedTake, OnReceivedTakeBid, TakeAccepted, BidKnown, DeliverTo,
         RefundMakeSwap, AckCancelSwap, CancelRefundable, Found
<1>3. native[o] \in OrderType /\ ledger[o] \in LedgerType
  BY <1>1 DEF TypeOK
<1>4. native'[o].loc # "none" /\ \A x \in Orders \ {o} : native'[x] = native[x]
  BY <1>1, <1>2, <1>3, CompletedRecord, KeptUpdates DEF TypeOK
<1>5. /\ ledger'[o] \in {Delivered(ledger[o]), Refunded(ledger[o])}
      /\ \A x \in Orders \ {o} : ledger'[x] = ledger[x]
  BY <1>1, <1>2 DEF TypeOK
<1>6. /\ ledger'[o].held = ledger[o].held
      /\ ledger'[o].delivered + ledger'[o].refunded =
             ledger[o].delivered + ledger[o].refunded + 1
  BY <1>3, <1>5 DEF LedgerType, Delivered, Refunded
<1>7. HomeRest(o)' - HomeRest(o) = 0 - Offer[o].sell
  <2> DEFINE n == 1 - ledger[o].delivered - ledger[o].refunded
  <2>1. /\ ledger[o].delivered \in Nat /\ ledger[o].refunded \in Nat
        /\ ledger'[o].delivered \in Nat /\ ledger'[o].refunded \in Nat
    BY <1>1 DEF TypeOK, LedgerType
  <2>2. n \in Int /\ Offer[o].sell \in Int
    BY <1>1, <2>1, OfferFacts
  <2>3. 1 - ledger'[o].delivered - ledger'[o].refunded = n - 1
    BY <1>6, <2>1
  <2>4. HomeRest(o) = Offer[o].sell * n /\ HomeRest(o)' = Offer[o].sell * (n - 1)
    BY <1>2, <1>4, <2>3 DEF HomeRest
  <2> HIDE DEF n, o
  <2>5. /\ Offer[o].sell * n \in Int
        /\ Offer[o].sell * (n - 1) = Offer[o].sell * n - Offer[o].sell
    BY <2>2, OnceLess
  <2> QED BY <2>2, <2>4, <2>5
<1>8. \A x \in Orders \ {o} : HomeRest(x)' = HomeRest(x)
  BY <1>4, <1>5, RestKept
<1>9. StillHeld
  BY <1>5, <1>6 DEF StillHeld
<1>10. bank' = [bank EXCEPT ![Home(o)] = @ + (HomeRest(o)' - HomeRest(o))]
  <2>1. Offer[o].sell \in Int /\ Home(o) \in Chains
    BY <1>1, OfferFacts
  <2>2. bank[Home(o)] \in Int /\ bank \in [Chains -> Nat]
    BY <2>1 DEF TypeOK
  <2> HIDE DEF o
  <2>3. bank[Home(o)] - Offer[o].sell = bank[Home(o)] + (HomeRest(o)' - HomeRest(o))
    BY <1>7, <2>1, <2>2
  <2> QED BY <1>2, <2>3 DEF Paid
<1> HIDE DEF o
<1> QED BY <1>1, <1>8, <1>9, <1>10, HomeMoves

\* Tokens of a user enter the account of the away chain, or leave it.
LEMMA DepositAccounts ==
    ASSUME TypeOK, TypeOK', Accounts, NEW o \in Orders, NEW u \in Users, NEW n \in Nat,
           bank' = Locked(Away(o), n),
           ledger' = [ledger EXCEPT ![o] = PutIn(@, u, n)], native' = native
    PROVE  Accounts'
<1>1. ledger'[o].held[u] = ledger[o].held[u] + n /\ HeldKept(o, u)
  BY HeldMore
<1>2. /\ ledger[o] \in LedgerType /\ ledger'[o] = PutIn(ledger[o], u, n)
      /\ \A x \in Orders \ {o} : ledger'[x] = ledger[x]
  BY DEF TypeOK
<1>3. StillRest
  <2>1. \A x \in Orders : /\ ledger'[x].delivered = ledger[x].delivered
                          /\ ledger'[x].refunded = ledger[x].refunded
    BY <1>2, KeptEntries, UnrefundedEntries
  <2> QED BY <2>1, RestKept DEF StillRest
<1>4. ledger'[o].held[u] - ledger[o].held[u] = n
  <2>1. ledger[o].held[u] \in Int
    BY DEF TypeOK, LedgerType
  <2> QED BY <1>1, <2>1
<1> QED BY <1>1, <1>3, <1>4, AwayMoves DEF Locked

LEMMA PayoutAccounts ==
    ASSUME TypeOK, TypeOK', Accounts, NEW o \in Orders, NEW u \in Users, NEW n \in Nat,
           bank' = Paid(Away(o), n), native' = native,
           \/ ledger' = [ledger EXCEPT ![o] = TakenOut(@, u, n)]
           \/ ledger' = [ledger EXCEPT ![o] = MakerPaid(@, u, n)]
    PROVE  Accounts'
<1>1. ledger'[o].held[u] = ledger[o].held[u] - n /\ HeldKept(o, u)
  BY HeldLess
<1>2. /\ ledger[o] \in LedgerType
      /\ ledger'[o] \in {TakenOut(ledger[o], u, n), MakerPaid(ledger[o], u, n)}
      /\ \A x \in Orders \ {o} : ledger'[x] = ledger[x]
  BY DEF TypeOK
<1>3. StillRest
  <2>1. \A x \in Orders : /\ ledger'[x].delivered = ledger[x].delivered
                          /\ ledger'[x].refunded = ledger[x].refunded
    BY <1>2, KeptEntries, UnrefundedEntries, ReleasedEntries
  <2> QED BY <2>1, RestKept DEF StillRest
<1>4. ledger'[o].held[u] - ledger[o].held[u] = 0 - n
  <2>1. ledger[o].held[u] \in Int
    BY DEF TypeOK, LedgerType
  <2> QED BY <1>1, <2>1
<1>5. bank' = [bank EXCEPT
                  ![Away(o)] = @ + (ledger'[o].held[u] - ledger[o].held[u])]
  <2>1. Away(o) \in Chains /\ bank \in [Chains -> Nat]
    BY OfferFacts DEF TypeOK
  <2>2. bank[Away(o)] - n = bank[Away(o)] + (0 - n)
    BY <2>1
  <2> QED BY <1>4, <2>2 DEF Paid
<1> QED BY <1>1, <1>3, <1>5, AwayMoves

\* Requests.
LEMMA RequestAccounts ==
    ASSUME TypeOK, TypeOK', SettlementInv, CancelInv, Accounts,
           SwapRequest \/ BidRequest
    PROVE  Accounts'
<1>1. ASSUME NEW o \in Orders, ExecuteCancelSwap(o)
      PROVE  Accounts'
  BY <1>1, QuietAccounts DEF ExecuteCancelSwap, swapVars
<1>2. ASSUME NEW o \in Orders, NEW u \in Users, ExecuteTakeBid(o, u) \/ ExecuteCancelBid(o, u)
      PROVE  Accounts'
  BY <1>2, QuietAccounts DEF ExecuteTakeBid, ExecuteCancelBid, swapVars
<1>3. ASSUME NEW o \in Orders, NEW u \in Users, ExecuteTakeSwap(o, u)
      PROVE  Accounts'
  BY <1>3, OfferFacts, DepositAccounts DEF ExecuteTakeSwap
<1>4. ASSUME NEW o \in Orders, NEW u \in Users, NEW amount \in BidAmounts,
             NEW expire, ExecuteMakeBid(o, u, amount, expire)
      PROVE  Accounts'
  BY <1>4, AmountAssumption, DepositAccounts DEF ExecuteMakeBid, Deposit, swapVars
<1>5. ASSUME NEW o \in Orders, NEW u \in Users, NEW addition \in Additions,
             ExecuteUpdateBid(o, u, addition)
      PROVE  Accounts'
  BY <1>5, AmountAssumption, DepositAccounts DEF ExecuteUpdateBid, Deposit, swapVars
<1> QED
  BY <1>1, <1>2, <1>3, <1>4, <1>5, MakeAccounts DEF SwapRequest, BidRequest

\* Steps of the relayer.
LEMMA RelayAccounts ==
    ASSUME TypeOK, TypeOK', Accounts, Relay
    PROVE  Accounts'
<1>1. ASSUME NEW p \in packets
      PROVE  /\ p.order \in Orders
             /\ p.type \notin {"MakeSwap", "CancelSwap"} =>
                   p.who \in Users /\ p.amount \in Nat
  BY DEF TypeOK, PacketType
<1>2. ASSUME NEW p \in packets,
             \/ OnReceivedMake(p) \/ RefuseTake(p) \/ OnReceivedCancel(p)
             \/ RefuseCancel(p) \/ DropCancelSwap(p)
      PROVE  Accounts'
  BY <1>2, QuietAccounts
     DEF OnReceivedMake, RefuseTake, OnReceivedCancel, RefuseCancel, DropCancelSwap, swapVars
<1>3. ASSUME NEW p \in packets, AckMakeSwap(p)
      PROVE  Accounts'
  <2>1. \A x \in Orders : native'[x].loc = native[x].loc
    BY <1>1, <1>3, KeptUpdates DEF AckMakeSwap, TypeOK
  <2> QED BY <1>3, <2>1, QuietAccounts DEF AckMakeSwap
<1>4. ASSUME NEW p \in packets, RefundTakeSwap(p) \/ RefundMakeBid(p) \/ RefundUpdateBid(p)
      PROVE  Accounts'
  <2>1. /\ p.order \in Orders /\ p.who \in Users /\ p.amount \in Nat
        /\ bank' = Paid(Away(p.order), p.amount) /\ native' = native
        /\ ledger' = [ledger EXCEPT ![p.order] = TakenOut(@, p.who, p.amount)]
    BY <1>1, <1>4 DEF RefundTakeSwap, RefundMakeBid, RefundUpdateBid, Failed, PayBack, swapVars
  <2> QED BY <2>1, PayoutAccounts
<1>5. ASSUME NEW p \in packets, AckTakeSwap(p)
      PROVE  Accounts'
  <2>1. /\ p.order \in Orders /\ p.who \in Users /\ p.amount \in Nat
        /\ bank' = Paid(Away(p.order), p.amount) /\ native' = native
        /\ ledger' = [ledger EXCEPT ![p.order] = MakerPaid(@, p.who, p.amount)]
    BY <1>1, <1>5 DEF AckTakeSwap, Succeeded, PayMaker
  <2> QED BY <2>1, PayoutAccounts
<1>6. ASSUME NEW p \in packets, AckTakeBid(p) \/ AckCancelBid(p)
      PROVE  Accounts'
  <2> DEFINE n == remoteBids[p.order][p.who].amount
  <2>1. p.order \in Orders /\ p.who \in Users
    BY <1>1, <1>6 DEF AckTakeBid, AckCancelBid, Succeeded
  <2>2. n \in Nat
    BY <2>1 DEF TypeOK, BidType
  <2>3. /\ bank' = Paid(Away(p.order), n) /\ native' = native
        /\ \/ ledger' = [ledger EXCEPT ![p.order] = TakenOut(@, p.who, n)]
           \/ ledger' = [ledger EXCEPT ![p.order] = MakerPaid(@, p.who, n)]
    BY <1>6 DEF AckTakeBid, AckCancelBid, PayMaker, PayBack, swapVars
  <2> HIDE DEF n
  <2> QED BY <2>1, <2>2, <2>3, PayoutAccounts
<1>7. ASSUME NEW p \in packets,
             \/ OnReceivedMakeBid(p) \/ AckMakeBid(p) \/ RefuseTakeBidLate(p)
             \/ RefuseTakeBid(p) \/ OnReceivedCancelBid(p) \/ RefuseCancelBid(p)
             \/ OnReceivedUpdateBid(p) \/ RefuseUpdateBid(p) \/ AckUpdateBid(p)
             \/ DropBidPacket(p)
      PROVE  Accounts'
  <2>1. bank' = bank /\ ledger' = ledger /\ native' = native
    BY <1>7 DEF OnReceivedMakeBid, AckMakeBid, RefuseTakeBidLate, RefuseTakeBid,
       OnReceivedCancelBid, RefuseCancelBid, OnReceivedUpdateBid, RefuseUpdateBid,
       AckUpdateBid, DropBidPacket, swapVars
  <2> QED BY <2>1, QuietAccounts
<1> QED
  BY <1>2, <1>3, <1>4, <1>5, <1>6, <1>7, ReleaseAccounts
     DEF Relay, SwapRelay, BidRelay, Delivery

LEMMA AccountsNext ==
    ASSUME TypeOK, TypeOK', SettlementInv, CancelInv, Accounts, [Next]_vars
    PROVE  Accounts'
<1>1. CASE Environment \/ UNCHANGED vars
  BY <1>1, QuietAccounts DEF Environment, IbcChannelConnect, Tick, swapVars, vars,
     ExecutePauseMarket, ExecuteUnpauseMarket, SetMarket
<1> QED BY <1>1, RequestAccounts, RelayAccounts DEF Next

LEMMA AccountsInit == Init => Accounts
<1> SUFFICES ASSUME Init, NEW c \in Chains
             PROVE  bank[c] = Reserve[c] + SumFunctionOnSet(HomeShare(c), Orders)
                                         + SumFunctionOnSet(HeldShare(c), Bidders)
  BY DEF Accounts
<1>1. \A o \in Orders : HomeShare(c)[o] = 0
  BY DEF Init, HomeShare, HomeRest, NoOrder
<1>2. \A e \in Bidders : HeldShare(c)[e] = 0
  BY DEF Init, HeldShare, Bidders, EmptyLedger
<1>3. SumFunctionOnSet(HomeShare(c), Orders) = 0 /\ SumFunctionOnSet(HeldShare(c), Bidders) = 0
  BY <1>1, <1>2, FiniteBidders, FiniteAssumption, SumZero
<1> QED BY <1>3, ReserveAssumption DEF Init

\* No token appears or disappears, whatever clients do: the account of a chain
\* is its reserve, what is left of the orders made there, and what users have
\* put in and not got back or spent.  (What users have left may be negative for
\* careless clients: then others paid for it, as the findings show.)
THEOREM AccountsCorrect == Spec => []Accounts
BY AccountsInit, AccountsNext, TypeCorrect, SettlementCorrect, CancelCorrect,
   PTL DEF Spec

\* Beyond the reserve, a contract of careful clients holds the sell tokens of
\* the orders not yet sold or returned and what the records and the messages in
\* flight say users have in orders, however many orders share the account.
THEOREM BooksBalanceAllCorrect == CarefulSpec => []BooksBalanceAll
<1>1. ASSUME TypeOK, SettlementInv, Accounts, StakesHeld, SoldOrReturnedAll
      PROVE  BooksBalanceAll
  <2> SUFFICES ASSUME NEW c \in Chains
               PROVE  bank[c] = Reserve[c] + SumFunctionOnSet(Unsettled(c), Orders)
                                           + SumFunctionOnSet(Stakes(c), Orders \X Users)
    BY DEF BooksBalanceAll
  <2>1. \A o \in Orders : HomeShare(c)[o] = Unsettled(c)[o]
    <3> TAKE o \in Orders
    <3>1. ledger[o].delivered \in Nat /\ ledger[o].refunded \in Nat
      BY <1>1 DEF TypeOK, LedgerType
    <3>2. Offer[o].sell \in Int
      BY OfferFacts
    <3>3. ledger[o].delivered + ledger[o].refunded \in {0, 1}
      BY <1>1, <3>1 DEF SoldOrReturnedAll
    <3>4. 1 - ledger[o].delivered - ledger[o].refunded =
              IF ledger[o].delivered + ledger[o].refunded = 0 THEN 1 ELSE 0
      BY <3>1, <3>3
    <3>5. Offer[o].sell * 1 = Offer[o].sell /\ Offer[o].sell * 0 = 0
      BY <3>2
    <3> QED BY <3>4, <3>5 DEF HomeShare, HomeRest, Unsettled
  <2>2. \A e \in Bidders : HeldShare(c)[e] = Stakes(c)[e]
    BY <1>1 DEF HeldShare, Stakes, StakesHeld, Bidders
  <2>3. SumFunctionOnSet(HomeShare(c), Orders) = SumFunctionOnSet(Unsettled(c), Orders)
    BY <1>1, <2>1, ShareTypes, FiniteAssumption, SumSame DEF SharesTyped
  <2>4. SumFunctionOnSet(HeldShare(c), Bidders) = SumFunctionOnSet(Stakes(c), Bidders)
    BY <1>1, <2>2, ShareTypes, FiniteBidders, SumSame DEF SharesTyped
  <2> QED BY <1>1, <2>3, <2>4 DEF Accounts, Bidders
<1> QED
  BY <1>1, CarefulIsSpec, AccountsCorrect, TypeCorrect, SettlementCorrect,
     StakesHeldCorrect, SoldOrReturnedAllCorrect, PTL

-----------------------------------------------------------------------------
\* Nobody waits for somebody else's tokens.

\* The sums of the books have no negative term, so each term is covered.
LEMMA StakeTypes ==
    ASSUME TypeOK, TalkInv, NEW o \in Orders, NEW u \in Users
    PROVE  /\ BidStake(o, u) \in Nat /\ AdditionStake(o, u) \in Nat
           /\ LockStake(o, u) \in Nat
<1>1. BidStake(o, u) \in Nat /\ LockStake(o, u) \in Nat
  BY OfferFacts DEF BidStake, LockStake, TypeOK, BidType
<1>2. CASE AddsTo(packets, o, u) = {}
  BY <1>1, <1>2, AdditionStakes, AdditionTotals
<1>3. ASSUME NEW p \in AddsTo(packets, o, u)
      PROVE  AdditionStake(o, u) \in Nat
  <2>1. AddsTo(packets, o, u) = {p} /\ p.amount \in Nat
    BY <1>3 DEF AddsTo, TalkInv, OneTalk, Conflict, TypeOK, PacketType
  <2> QED
    BY <2>1, AdditionStakes, AdditionTotals
<1> QED
  BY <1>1, <1>2, <1>3

LEMMA BooksCover ==
    ASSUME TypeOK, TalkInv, BooksBalanceAll, NEW c \in Chains
    PROVE  /\ Covers(c, Reserve[c])
           /\ \A o \in Orders : Covers(c, Reserve[c] + Unsettled(c)[o])
           /\ \A o \in Orders, u \in Users :
                 Away(o) = c =>
                     Covers(c, Reserve[c] + BidStake(o, u) + AdditionStake(o, u)
                                          + LockStake(o, u))
<1> DEFINE f == Unsettled(c)
           g == Stakes(c)
           F == SumFunctionOnSet(f, Orders)
           G == SumFunctionOnSet(g, Bidders)
<1>1. \A o \in Orders : f[o] \in Nat
  BY OfferFacts DEF Unsettled
<1>2. /\ \A e \in Bidders : g[e] \in Nat
      /\ \A o \in Orders, u \in Users :
            /\ <<o, u>> \in Bidders
            /\ Away(o) = c => g[<<o, u>>] =
                   BidStake(o, u) + AdditionStake(o, u) + LockStake(o, u)
  BY StakeTypes DEF Stakes, Bidders
<1>3. bank[c] = Reserve[c] + F + G
  BY DEF BooksBalanceAll, Bidders
<1>4. F \in Nat /\ \A o \in Orders : f[o] <= F
  <2>1. IsFiniteSet(Orders)
    BY FiniteAssumption
  <2> HIDE DEF f
  <2> QED BY <1>1, <2>1, SumCovers
<1>5. G \in Nat /\ \A e \in Bidders : g[e] <= G
  <2> HIDE DEF g
  <2> QED BY <1>2, FiniteBidders, SumCovers
<1>6. Reserve[c] \in Nat
  BY ReserveAssumption
<1> HIDE DEF F, G
<1>7. Covers(c, Reserve[c]) /\ \A o \in Orders : Covers(c, Reserve[c] + f[o])
  <2> HIDE DEF f, g
  <2> QED BY <1>1, <1>3, <1>4, <1>5, <1>6 DEF Covers
<1>8. ASSUME NEW o \in Orders, NEW u \in Users, Away(o) = c
      PROVE  Covers(c, Reserve[c] + BidStake(o, u) + AdditionStake(o, u)
                                  + LockStake(o, u))
  <2>1. BidStake(o, u) + AdditionStake(o, u) + LockStake(o, u) <= G
    BY <1>2, <1>5, <1>8
  <2> QED BY <1>3, <1>4, <1>5, <1>6, <2>1, StakeTypes DEF Covers
<1> QED
  BY <1>7, <1>8

\* What finishing with a message pays out is part of its user's stake.
LEMMA DueStaked ==
    ASSUME TypeOK, CancelInv, TalkInv, NEW p \in packets
    PROVE  \/ AwayDue(p) = 0
           \/ /\ p.who \in Users
              /\ AwayDue(p) \in {BidStake(p.order, p.who),
                                 AdditionStake(p.order, p.who),
                                 LockStake(p.order, p.who)}
<1>1. p \in PacketType
  BY DEF TypeOK
<1>2. BidTalk(p) /\ SaleTalk(p)
  BY DEF TalkInv
<1>3. CASE p.type \in {"MakeSwap", "CancelSwap"}
  BY <1>1, <1>3 DEF PacketType, BidTypes, AwayDue
<1>4. CASE p.type = "TakeSwap"
  <2>1. /\ p.who \in Users /\ p.amount = Offer[p.order].buy
        /\ Found(remote[p.order]) /\ remote[p.order].taker = p.who
    BY <1>1, <1>2, <1>4 DEF PacketType, SaleTalk, BuyTypes, CancelInv, TakeHoldsLock, Found
  <2> QED
    BY <1>4, <2>1 DEF AwayDue, LockStake
<1>5. CASE p.type \in {"TakeBid", "CancelBid"}
  BY <1>1, <1>2, <1>5 DEF PacketType, BidTalk, AwayDue, BidStake
<1>6. CASE p.type = "MakeBid"
  BY <1>1, <1>2, <1>6 DEF PacketType, BidTalk, AwayDue, BidStake, NewBid
<1>7. CASE p.type = "UpdateBid"
  <2>1. p.who \in Users /\ p.amount \in Nat
    BY <1>1, <1>7 DEF PacketType
  <2>2. AddsTo(packets, p.order, p.who) = {p}
    BY <1>7 DEF AddsTo, TalkInv, OneTalk, Conflict
  <2> QED
    BY <1>7, <2>1, <2>2, AdditionStakes, AdditionTotals DEF AwayDue
<1> QED
  BY <1>1, <1>3, <1>4, <1>5, <1>6, <1>7 DEF PacketType, BidTypes

\* Sell tokens that a message may still release were not released before.
LEMMA ReleasedUnsettled ==
    ASSUME TypeOK, SettlementInv, CancelInv, TalkInv, NEW p \in packets,
           Releases(p), Found(native[p.order])
    PROVE  Unsettled(Home(p.order))[p.order] = Offer[p.order].sell
<1>1. p.order \in Orders
  BY DEF TypeOK, PacketType
<1>2. native[p.order].loc = "active" /\ ledger[p.order].delivered = 0
  BY <1>1 DEF Found, SettlementInv, PaidMeansInactive
<1>3. ledger[p.order].refunded = 0
  BY BoughtUnrefunded DEF Releases, BuyTypes, CancelInv, AgreedCancel, AnnouncedUnrefunded
<1> QED
  BY <1>1, <1>2, <1>3 DEF Unsettled

\* A payment or a refund to a careful client, whichever handler makes it, is
\* never held up by an account that others have emptied.
THEOREM PayoutsCoveredCorrect == CarefulSpec => []PayoutsCovered
<1>1. ASSUME TypeOK, SettlementInv, CancelInv, TalkInv, BooksBalanceAll
      PROVE  PayoutsCovered
  <2> USE <1>1
  <2> SUFFICES ASSUME NEW p \in packets
               PROVE  /\ Covers(Away(p.order), Reserve[Away(p.order)] + AwayDue(p))
                      /\ Releases(p) /\ Found(native[p.order]) =>
                            Covers(Home(p.order),
                                   Reserve[Home(p.order)] + Offer[p.order].sell)
    BY DEF PayoutsCovered
  <2>1. p.order \in Orders /\ Away(p.order) \in Chains /\ Home(p.order) \in Chains
    BY OfferFacts DEF TypeOK, PacketType
  <2>2. Covers(Away(p.order), Reserve[Away(p.order)] + AwayDue(p))
    <3> DEFINE c == Away(p.order)
    <3>1. Reserve[c] \in Nat /\ bank[c] \in Nat
      BY <2>1, ReserveAssumption DEF TypeOK
    <3>2. CASE AwayDue(p) = 0
      BY <2>1, <3>1, <3>2, BooksCover
    <3>3. CASE /\ p.who \in Users
               /\ AwayDue(p) \in {BidStake(p.order, p.who),
                                  AdditionStake(p.order, p.who),
                                  LockStake(p.order, p.who)}
      <4>1. /\ BidStake(p.order, p.who) \in Nat /\ AdditionStake(p.order, p.who) \in Nat
            /\ LockStake(p.order, p.who) \in Nat
        BY <2>1, <3>3, StakeTypes
      <4>2. Covers(c, Reserve[c] + BidStake(p.order, p.who) + AdditionStake(p.order, p.who)
                                 + LockStake(p.order, p.who))
        BY <2>1, <3>3, BooksCover
      <4>3. /\ AwayDue(p) \in Nat
            /\ AwayDue(p) <= BidStake(p.order, p.who) + AdditionStake(p.order, p.who)
                                                      + LockStake(p.order, p.who)
        BY <3>3, <4>1
      <4> QED BY <3>1, <4>1, <4>2, <4>3 DEF Covers
    <3> QED BY <3>2, <3>3, DueStaked
  <2>3. ASSUME Releases(p), Found(native[p.order])
        PROVE  Covers(Home(p.order), Reserve[Home(p.order)] + Offer[p.order].sell)
    BY <2>1, <2>3, BooksCover, ReleasedUnsettled
  <2> QED BY <2>2, <2>3
<1> QED
  BY <1>1, CarefulIsSpec, TypeCorrect, SettlementCorrect, CancelCorrect, TalkCorrect,
     BooksBalanceAllCorrect, PTL
=============================================================================
