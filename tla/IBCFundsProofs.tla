--------------------------- MODULE IBCFundsProofs ---------------------------
(* The steps of IBC transfers keep the invariant of their funds: the       *)
(* escrow, the account of x/axelarnet and what recipients are owed.        *)
EXTENDS IBCTransfers, TLAPS

USE SMTT(20), ZenonT(10)

-----------------------------------------------------------------------------
(* The invariant of the packets.                                           *)

IsRecord(x) == x = [to |-> x.to, amount |-> x.amount, state |-> x.state]
\* transfers are numbered without gaps, whatever their amounts
IsList(t, n) == t = [i \in 1..n |-> t[i]] /\ \A i \in 1..n : IsRecord(t[i])

\* a transfer has an IBC transfer only once it is archived
ListInv ==
    /\ \E n \in 0..NonceBound : IsList(transfers, n)
    /\ DOMAIN status = IDs
    /\ \A i \in IDs : status[i] # "none" => i \in DOMAIN transfers /\ transfers[i].state = "archived"

\* sequences are used once
SequencesInv ==
    /\ nextSeq \in Nat
    /\ \A s \in DOMAIN packets \cup DOMAIN transferOf \cup DOMAIN messageOf : s \in Nat /\ s < nextSeq
    /\ DOMAIN transferOf \cap DOMAIN messageOf = {}

\* pending transfers are queued or in flight
FlightInv ==
    /\ queue \subseteq IDs
    /\ \A i \in queue : status[i] = "pending"
    /\ \A s \in DOMAIN transferOf :
          /\ s \in DOMAIN packets
          /\ transferOf[s] \in IDs \ queue
          /\ status[transferOf[s]] = "pending"
          /\ packets[s] = transfers[transferOf[s]].amount
    /\ \A s, t \in DOMAIN transferOf : transferOf[s] = transferOf[t] => s = t
    /\ \A i \in IDs \ queue : status[i] = "pending" => \E s \in DOMAIN transferOf : transferOf[s] = i

PacketInv == ListInv /\ SequencesInv /\ FlightInv

-----------------------------------------------------------------------------
(* The invariant of the funds.                                             *)

AmountIn(t, S) == SumFunctionOnSet([i \in DOMAIN t |-> t[i].amount], S)

\* the transfers of a list that the escrow pays for, those that a recipient waits for
\* and the messages whose token is in the escrow
ClaimsIn(t, st) ==
    {i \in DOMAIN t : t[i].state \in {"insufficient", "pending", "failed"} \/ st[i] = "failed"}
OwedIn(t, st, r) ==
    {i \in DOMAIN t : t[i].to = r /\ (t[i].state \in {"insufficient", "pending", "failed"} \/ st[i] \in {"pending", "failed"})}
WaitingIn(ms) == {m \in Messages : ms[m] \in {"approved", "failed"}}
TokensIn(ms) == SumFunctionOnSet(tokenOf, WaitingIn(ms))

FundTypes ==
    /\ \A i \in DOMAIN transfers : transfers[i].amount \in Nat /\ transfers[i].to \in Recipients
    /\ fees \in Nat /\ held \in Int /\ stray \in Int /\ feeInfo \in FeeInfos
    /\ tokenOf \in [Messages -> Nat] /\ DOMAIN message = Messages
    /\ \A s \in DOMAIN packets : packets[s] \in Nat
    /\ \A s \in DOMAIN messageOf : messageOf[s] \in Messages

EscrowInv == escrow = AmountIn(transfers, ClaimsIn(transfers, status)) + fees + held + TokensIn(message)
AccountInv == account = AmountIn(transfers, queue) + stray
OwedInv ==
    /\ DOMAIN owed = Recipients
    /\ \A r \in Recipients : owed[r] = AmountIn(transfers, OwedIn(transfers, status, r))

\* deposits are merged: no two transfers below the fee, no two pending ones
MergedInv ==
    \A r \in Recipients : \A state \in {"insufficient", "pending"} :
        \A i, j \in DOMAIN transfers :
            /\ transfers[i].to = r /\ transfers[i].state = state
            /\ transfers[j].to = r /\ transfers[j].state = state
            => i = j

FundsInv == FundTypes /\ EscrowInv /\ AccountInv /\ OwedInv /\ MergedInv

-----------------------------------------------------------------------------
(* Amounts.                                                                *)

IsAmounts(t, n) == DOMAIN t = 1..n /\ \A i \in 1..n : t[i].amount \in Nat

\* S and T split the transfers U of a list of n transfers.
Split(n, U, S, T) == U \subseteq 1..n /\ U = S \cup T /\ S \cap T = {}

\* What the proofs about funds use of sums and of cardinalities.  The module of the
\* theorems proves it (SumsHold): it needs the library's facts about finite sets, and
\* these are kept out of the many steps below.
SumFacts ==
    /\ Cardinality({}) = 0
    /\ \A t : AmountIn(t, {}) = 0
    /\ \A n \in Nat : \A t : IsAmounts(t, n) =>
          /\ \A S \in SUBSET (1..n) : AmountIn(t, S) \in Nat
          /\ \A i \in 1..n : AmountIn(t, {i}) = t[i].amount
          /\ \A U, S, T : Split(n, U, S, T) => AmountIn(t, U) = AmountIn(t, S) + AmountIn(t, T)
          /\ \A u : \A S \in SUBSET (1..n) :
                S \subseteq DOMAIN u /\ (\A i \in S : u[i].amount = t[i].amount) => AmountIn(u, S) = AmountIn(t, S)
    /\ \A f \in [Messages -> Nat] : \A S \in SUBSET Messages :
          /\ SumFunctionOnSet(f, S) \in Nat
          /\ \A m \in S : SumFunctionOnSet(f, S \ {m}) = SumFunctionOnSet(f, S) - f[m]

LEMMA AmountNone == SumFacts => \A t : AmountIn(t, {}) = 0
  BY DEF SumFacts

LEMMA AmountType ==
  ASSUME SumFacts, NEW n \in Nat, NEW t, IsAmounts(t, n), NEW S, S \subseteq 1..n
  PROVE  AmountIn(t, S) \in Nat
  BY DEF SumFacts

LEMMA AmountOne ==
  ASSUME SumFacts, NEW n \in Nat, NEW t, IsAmounts(t, n), NEW i \in 1..n
  PROVE  AmountIn(t, {i}) = t[i].amount
  BY Zenon DEF SumFacts

LEMMA AmountParts ==
  ASSUME SumFacts, NEW n \in Nat, NEW t, IsAmounts(t, n), NEW U, NEW S, NEW T, Split(n, U, S, T)
  PROVE  AmountIn(t, U) = AmountIn(t, S) + AmountIn(t, T)
  BY DEF SumFacts

LEMMA AmountSame ==
  ASSUME SumFacts, NEW n \in Nat, NEW t, IsAmounts(t, n), NEW u, NEW S, S \subseteq 1..n, S \subseteq DOMAIN u,
         \A i \in S : u[i].amount = t[i].amount
  PROVE  AmountIn(u, S) = AmountIn(t, S)
  BY DEF SumFacts

\* end is what becomes of the transfers S of a list of n when some leave and others enter
Moved(n, S, lost, gained, end) ==
    /\ S \subseteq 1..n /\ lost \subseteq S /\ gained \subseteq 1..n /\ gained \cap S = {}
    /\ end = (S \ lost) \cup gained

\* What becomes of their amount.
LEMMA AmountMoved ==
  ASSUME SumFacts, NEW n \in Nat, NEW t, IsAmounts(t, n), NEW S, NEW lost, NEW gained, NEW end, Moved(n, S, lost, gained, end)
  PROVE  /\ AmountIn(t, end) = AmountIn(t, S) - AmountIn(t, lost) + AmountIn(t, gained)
         /\ AmountIn(t, S) \in Nat /\ AmountIn(t, lost) \in Nat /\ AmountIn(t, gained) \in Nat
<1>1. PICK rest : rest = S \ lost
  BY Zenon
<1>2. Split(n, S, rest, lost) /\ Split(n, end, rest, gained)
  BY <1>1, Zenon DEF Split, Moved
<1>3. S \subseteq 1..n /\ lost \subseteq 1..n /\ gained \subseteq 1..n /\ rest \subseteq 1..n
  BY <1>1 DEF Moved
<1>4. AmountIn(t, S) = AmountIn(t, rest) + AmountIn(t, lost)
  BY <1>2, AmountParts
<1>5. AmountIn(t, end) = AmountIn(t, rest) + AmountIn(t, gained)
  BY <1>2, AmountParts
<1>6. AmountIn(t, S) \in Nat /\ AmountIn(t, lost) \in Nat /\ AmountIn(t, gained) \in Nat /\ AmountIn(t, rest) \in Nat
  BY <1>3, AmountType, Zenon
<1> QED
  BY <1>4, <1>5, <1>6

\* u adds an element to the list t
Extends(n, t, u) == IsAmounts(t, n) /\ IsAmounts(u, n + 1) /\ \A i \in 1..n : u[i].amount = t[i].amount

\* The amounts of the list stay.
LEMMA AmountExtended ==
  ASSUME SumFacts, NEW n \in Nat, NEW t, NEW u, Extends(n, t, u), NEW T \in SUBSET (1..n)
  PROVE  AmountIn(u, T) = AmountIn(t, T)
<1>1. IsAmounts(t, n) /\ DOMAIN u = 1..(n + 1) /\ \A i \in 1..n : u[i].amount = t[i].amount
  BY DEF Extends, IsAmounts
<1>2. T \subseteq 1..n /\ T \subseteq DOMAIN u /\ \A i \in T : u[i].amount = t[i].amount
  BY <1>1
<1> QED
  BY <1>1, <1>2 DEF SumFacts

\* end is what becomes of S when M is replaced by a new transfer
Replaced(n, S, M, end) == S \subseteq 1..n /\ M \subseteq S /\ end = (S \ M) \cup {n + 1}

ReplacedIn(n, t, u, S, M, end) == Extends(n, t, u) /\ Replaced(n, S, M, end)

\* What becomes of their amount.
LEMMA AmountReplaced ==
  ASSUME SumFacts, NEW n \in Nat, NEW t, NEW u, NEW S, NEW M, NEW end, ReplacedIn(n, t, u, S, M, end)
  PROVE  /\ AmountIn(u, end) = AmountIn(t, S) - AmountIn(t, M) + u[n + 1].amount
         /\ AmountIn(t, S) \in Nat /\ AmountIn(t, M) \in Nat
<1>1. Extends(n, t, u) /\ IsAmounts(t, n) /\ IsAmounts(u, n + 1)
  BY DEF Extends, ReplacedIn
<1>2. 1..n \subseteq 1..(n + 1) /\ n + 1 \in 1..(n + 1) /\ n + 1 \notin 1..n /\ n + 1 \in Nat
  OBVIOUS
<1>3. PICK rest, new : rest = S \ M /\ new = {n + 1}
  BY Zenon
<1>4. rest \in SUBSET (1..n) /\ M \subseteq 1..n /\ S \subseteq 1..n
  BY <1>3 DEF Replaced, ReplacedIn
<1>5. Split(n, S, rest, M) /\ Split(n + 1, end, rest, new)
  BY <1>2, <1>3, <1>4, Zenon DEF Split, Replaced, ReplacedIn
<1>6. AmountIn(t, S) = AmountIn(t, rest) + AmountIn(t, M)
  BY <1>1, <1>5, AmountParts
<1>7. AmountIn(u, end) = AmountIn(u, rest) + AmountIn(u, new)
  BY <1>1, <1>2, <1>5, AmountParts
<1>8. AmountIn(u, new) = u[n + 1].amount
  BY <1>1, <1>2, <1>3, AmountOne
<1>9. AmountIn(u, rest) = AmountIn(t, rest)
  BY <1>1, <1>4, AmountExtended
<1>10. AmountIn(t, rest) \in Nat /\ AmountIn(t, M) \in Nat /\ AmountIn(t, S) \in Nat
  BY <1>1, <1>4, AmountType, Zenon
<1>11. u[n + 1].amount \in Nat
  BY <1>1, <1>2 DEF IsAmounts
<1> QED
  BY <1>6, <1>7, <1>8, <1>9, <1>10, <1>11

\* The larger and the smaller of two numbers.
LEMMA OfTwo ==
  ASSUME NEW a \in Int, NEW b \in Int
  PROVE  /\ Max({a, b}) \in {a, b} /\ Max({a, b}) >= a /\ Max({a, b}) >= b
         /\ Min({a, b}) \in {a, b} /\ Min({a, b}) <= a /\ Min({a, b}) <= b
<1>1. \E x \in {a, b} : \A y \in {a, b} : x >= y
  OBVIOUS
<1>2. \E x \in {a, b} : \A y \in {a, b} : x <= y
  OBVIOUS
<1>3. Max({a, b}) \in {a, b} /\ \A y \in {a, b} : Max({a, b}) >= y
  BY <1>1, Zenon DEF Max
<1>4. Min({a, b}) \in {a, b} /\ \A y \in {a, b} : Min({a, b}) <= y
  BY <1>2, Zenon DEF Min
<1> QED
  BY <1>3, <1>4

-----------------------------------------------------------------------------
(* Lists of transfers.                                                     *)

LEMMA Bounds == NonceBound \in Nat /\ IDs = 1..NonceBound
  BY TransfersAssumption DEF IDs

\* What Append does to a list of anything.
LEMMA Appended ==
  ASSUME NEW n \in Nat, NEW t, t = [i \in 1..n |-> t[i]], NEW e
  PROVE  /\ Len(t) = n
         /\ Append(t, e) = [i \in 1..(n + 1) |-> IF i = n + 1 THEN e ELSE t[i]]
<1> DEFINE V == {t[i] : i \in 1..n} \cup {e}
<1>1. t \in [1..n -> V]
  OBVIOUS
<1> HIDE DEF V
<1>2. t \in Seq(V)
  BY <1>1
<1>3. Len(t) = n
  BY <1>1, <1>2
<1>4. e \in V
  BY DEF V
<1>5. Append(t, e) \in Seq(V) /\ Len(Append(t, e)) = n + 1
  BY <1>2, <1>3, <1>4
<1>6. \A i \in 1..(n + 1) : Append(t, e)[i] = IF i = n + 1 THEN e ELSE t[i]
  BY <1>2, <1>3, <1>4
<1>7. Append(t, e) = [i \in 1..(n + 1) |-> Append(t, e)[i]]
  BY <1>5
<1>8. [i \in 1..(n + 1) |-> Append(t, e)[i]] = [i \in 1..(n + 1) |-> IF i = n + 1 THEN e ELSE t[i]]
  BY <1>6
<1> QED
  BY <1>3, <1>7, <1>8

LEMMA LowestSubset == \A k, S : Lowest(k, S) \subseteq S
  BY DEF Lowest

\* A page, and a transfer that a deposit is merged with, are transfers of the given state.
LEMMA Pages ==
  /\ \A chain : GetTransfersForChainPaginated(chain)
                   \subseteq {i \in DOMAIN transfers : transfers[i].state = "pending"}
  /\ \A r, state : getTransfer(r, state) \subseteq {i \in DOMAIN transfers : transfers[i].state = state}
<1>1. \A r, state : InState(r, state) \subseteq {i \in DOMAIN transfers : transfers[i].state = state}
  BY DEF InState
<1>2. \A chain : ForChain(chain, "pending") \subseteq {i \in DOMAIN transfers : transfers[i].state = "pending"}
  BY <1>1 DEF ForChain
<1>3. \A chain : Lowest(TransferLimit, ForChain(chain, "pending")) \subseteq ForChain(chain, "pending")
  BY LowestSubset
<1>4. \A r, state : Lowest(1, InState(r, state)) \subseteq InState(r, state)
  BY LowestSubset
<1> QED
  BY <1>1, <1>2, <1>3, <1>4 DEF GetTransfersForChainPaginated, getTransfer

\* Setting the state of transfers keeps the list and the amounts.
LEMMA StatesSet ==
  ASSUME NEW n \in 0..NonceBound, IsList(transfers, n), NEW S, NEW state
  PROVE  /\ IsList(SetStates(S, state), n)
         /\ \A i \in 1..n : /\ SetStates(S, state)[i].amount = transfers[i].amount
                            /\ i \in S => SetStates(S, state)[i].state = state
                            /\ i \notin S => SetStates(S, state)[i] = transfers[i]
<1>1. DOMAIN transfers = 1..n
  BY DEF IsList
<1>2. SetStates(S, state) = [i \in 1..n |-> IF i \in S THEN [transfers[i] EXCEPT !.state = state] ELSE transfers[i]]
  BY <1>1 DEF SetStates
<1>3. \A i \in 1..n : /\ [transfers[i] EXCEPT !.state = state]
                            = [to |-> transfers[i].to, amount |-> transfers[i].amount, state |-> state]
  BY DEF IsList, IsRecord
<1> QED
  BY <1>2, <1>3 DEF IsList, IsRecord

\* The amounts of the model.
LEMMA AmountIs == \A S : Amount(S) = AmountIn(transfers, S)
  BY DEF Amount, amounts, AmountIn

LEMMA TokenSets ==
  ASSUME SumFacts, tokenOf \in [Messages -> Nat]
  PROVE  /\ \A S \in SUBSET Messages : SumFunctionOnSet(tokenOf, S) \in Nat
         /\ \A S \in SUBSET Messages : \A m \in S :
               SumFunctionOnSet(tokenOf, S \ {m}) = SumFunctionOnSet(tokenOf, S) - tokenOf[m]
  BY DEF SumFacts

\* The tokens of messages are a natural amount.
LEMMA TokensType ==
  ASSUME SumFacts, FundTypes, NEW ms
  PROVE  TokensIn(ms) \in Nat
<1>1. tokenOf \in [Messages -> Nat] /\ WaitingIn(ms) \in SUBSET Messages
  BY DEF FundTypes, WaitingIn
<1> QED
  BY <1>1, TokenSets DEF TokensIn

\* What the invariants say of the list.
LEMMA ListFacts ==
  ASSUME SumFacts, PacketInv, FundTypes
  PROVE  \E n \in Nat :
            /\ DOMAIN transfers = 1..n /\ 1..n \subseteq IDs /\ DOMAIN status = IDs
            /\ \A i \in 1..n : transfers[i].amount \in Nat /\ transfers[i].to \in Recipients
            /\ queue \subseteq 1..n
            /\ \A i \in IDs : status[i] # "none" => i \in 1..n /\ transfers[i].state = "archived"
<1>1. PICK n \in 0..NonceBound : IsList(transfers, n)
  BY DEF PacketInv, ListInv
<1>2. n \in Nat /\ NonceBound \in Nat /\ IDs = 1..NonceBound
  BY Bounds
<1>3. DOMAIN transfers = 1..n
  BY <1>1 DEF IsList
<1>4. 1..n \subseteq IDs
  BY <1>2
<1>5. DOMAIN status = IDs /\ \A i \in IDs : status[i] # "none" => i \in 1..n /\ transfers[i].state = "archived"
  BY <1>3 DEF PacketInv, ListInv
<1>6. \A i \in queue : i \in IDs /\ status[i] = "pending"
  BY DEF PacketInv, FlightInv
<1>7. queue \subseteq 1..n
  BY <1>5, <1>6
<1> QED
  BY <1>2, <1>3, <1>4, <1>5, <1>7, Zenon DEF FundTypes

\* the list stays as it is but for the states of transfers
SameList ==
    /\ DOMAIN transfers' = DOMAIN transfers
    /\ \A i \in DOMAIN transfers :
          transfers'[i].amount = transfers[i].amount /\ transfers'[i].to = transfers[i].to

LEMMA SameAmounts ==
  ASSUME SumFacts, PacketInv, FundTypes, SameList, NEW S, S \subseteq DOMAIN transfers
  PROVE  AmountIn(transfers', S) = AmountIn(transfers, S)
<1>1. PICK n \in Nat : DOMAIN transfers = 1..n /\ \A i \in 1..n : transfers[i].amount \in Nat
  BY ListFacts
<1>2. IsAmounts(transfers, n) /\ S \subseteq 1..n
  BY <1>1 DEF IsAmounts
<1>3. S \subseteq DOMAIN transfers' /\ \A i \in S : transfers'[i].amount = transfers[i].amount
  BY DEF SameList
<1> QED
  BY <1>2, <1>3, AmountSame

\* Transfers stop or start to be claims, and the escrow changes by their amounts.
LEMMA EscrowMoved ==
  ASSUME SumFacts, PacketInv, FundsInv, SameList, NEW lost, NEW gained,
         lost \subseteq ClaimsIn(transfers, status), gained \subseteq DOMAIN transfers,
         gained \cap ClaimsIn(transfers, status) = {},
         ClaimsIn(transfers', status') = (ClaimsIn(transfers, status) \ lost) \cup gained,
         fees' \in Int, held' \in Int, TokensIn(message') \in Int, tokenOf' = tokenOf,
         escrow' = escrow - AmountIn(transfers, lost) + AmountIn(transfers, gained)
                   + (fees' - fees) + (held' - held) + (TokensIn(message') - TokensIn(message))
  PROVE  EscrowInv'
<1>1. PICK n \in Nat : DOMAIN transfers = 1..n /\ \A i \in 1..n : transfers[i].amount \in Nat
  BY ListFacts DEF FundsInv
<1>2. PICK C, end : C = ClaimsIn(transfers, status) /\ end = ClaimsIn(transfers', status')
  BY Zenon
<1>3. IsAmounts(transfers, n) /\ Moved(n, C, lost, gained, end) /\ end \subseteq DOMAIN transfers
  BY <1>1, <1>2 DEF IsAmounts, Moved, ClaimsIn
<1>4. /\ AmountIn(transfers, end) = AmountIn(transfers, C) - AmountIn(transfers, lost) + AmountIn(transfers, gained)
      /\ AmountIn(transfers, C) \in Nat /\ AmountIn(transfers, lost) \in Nat /\ AmountIn(transfers, gained) \in Nat
  BY <1>3, AmountMoved
<1>5. AmountIn(transfers', end) = AmountIn(transfers, end)
  BY <1>3, SameAmounts DEF FundsInv
<1>6. escrow = AmountIn(transfers, C) + fees + held + TokensIn(message)
  BY <1>2 DEF FundsInv, EscrowInv
<1>7. fees \in Nat /\ held \in Int /\ TokensIn(message) \in Nat
  BY TokensType DEF FundsInv, FundTypes
<1>8. escrow' = AmountIn(transfers, end) + fees' + held' + TokensIn(message')
  BY <1>4, <1>6, <1>7
<1> QED
  BY <1>2, <1>5, <1>8 DEF EscrowInv, TokensIn

\* Transfers leave or enter the queue.
LEMMA AccountMoved ==
  ASSUME SumFacts, PacketInv, FundsInv, SameList, NEW lost, NEW gained,
         lost \subseteq queue, gained \subseteq DOMAIN transfers, gained \cap queue = {},
         queue' = (queue \ lost) \cup gained, stray' \in Int,
         account' = account - AmountIn(transfers, lost) + AmountIn(transfers, gained) + (stray' - stray)
  PROVE  AccountInv'
<1>1. PICK n \in Nat : DOMAIN transfers = 1..n /\ queue \subseteq 1..n /\ \A i \in 1..n : transfers[i].amount \in Nat
  BY ListFacts DEF FundsInv
<1>2. IsAmounts(transfers, n) /\ Moved(n, queue, lost, gained, queue') /\ queue' \subseteq DOMAIN transfers
  BY <1>1, Zenon DEF IsAmounts, Moved
<1>3. /\ AmountIn(transfers, queue') = AmountIn(transfers, queue) - AmountIn(transfers, lost) + AmountIn(transfers, gained)
      /\ AmountIn(transfers, queue) \in Nat /\ AmountIn(transfers, lost) \in Nat /\ AmountIn(transfers, gained) \in Nat
  BY <1>2, AmountMoved
<1>4. AmountIn(transfers', queue') = AmountIn(transfers, queue')
  BY <1>2, SameAmounts DEF FundsInv
<1>5. account = AmountIn(transfers, queue) + stray /\ stray \in Int
  BY DEF FundsInv, AccountInv, FundTypes
<1>6. account' = AmountIn(transfers, queue') + stray'
  BY <1>3, <1>5
<1> QED
  BY <1>4, <1>6 DEF AccountInv

\* Recipients have received transfers.
LEMMA OwedMoved ==
  ASSUME SumFacts, PacketInv, FundsInv, SameList, NEW paid, DOMAIN owed' = Recipients,
         \A r \in Recipients :
            LET got == {i \in paid : transfers[i].to = r}
            IN  /\ got \subseteq OwedIn(transfers, status, r)
                /\ OwedIn(transfers', status', r) = OwedIn(transfers, status, r) \ got
                /\ owed'[r] = owed[r] - AmountIn(transfers, got)
  PROVE  OwedInv'
<1>1. PICK n \in Nat : DOMAIN transfers = 1..n /\ \A i \in 1..n : transfers[i].amount \in Nat
  BY ListFacts DEF FundsInv
<1>2. IsAmounts(transfers, n)
  BY <1>1 DEF IsAmounts
<1>3. ASSUME NEW r \in Recipients
      PROVE  owed'[r] = AmountIn(transfers', OwedIn(transfers', status', r))
  <2>1. PICK O, got, end : /\ O = OwedIn(transfers, status, r) /\ end = OwedIn(transfers', status', r)
                           /\ got \subseteq O /\ end = O \ got
                           /\ owed'[r] = owed[r] - AmountIn(transfers, got)
    BY Zenon
  <2>2. O \subseteq 1..n
    BY <1>1, <2>1 DEF OwedIn
  <2>3. Moved(n, O, got, {}, end) /\ end \subseteq DOMAIN transfers
    BY <1>1, <2>1, <2>2 DEF Moved
  <2>4. /\ AmountIn(transfers, end) = AmountIn(transfers, O) - AmountIn(transfers, got) + AmountIn(transfers, {})
        /\ AmountIn(transfers, O) \in Nat /\ AmountIn(transfers, got) \in Nat
    BY <1>2, <2>3, AmountMoved
  <2>5. AmountIn(transfers, end) = AmountIn(transfers, O) - AmountIn(transfers, got)
    BY <2>4, AmountNone
  <2>6. AmountIn(transfers', end) = AmountIn(transfers, end)
    BY <2>3, SameAmounts DEF FundsInv
  <2>7. owed[r] = AmountIn(transfers, O)
    BY <2>1 DEF FundsInv, OwedInv
  <2> QED
    BY <2>1, <2>5, <2>6, <2>7
<1> QED
  BY <1>3 DEF OwedInv

\* No transfer becomes pending or falls below the fee.
LEMMA MergedKept ==
  ASSUME MergedInv, SameList,
         \A i \in DOMAIN transfers : \/ transfers'[i].state = transfers[i].state
                                     \/ transfers'[i].state \in {"archived", "failed"}
  PROVE  MergedInv'
<1>1. \A i \in DOMAIN transfers' : \A state \in {"insufficient", "pending"} :
         transfers'[i].state = state => i \in DOMAIN transfers /\ transfers[i].state = state /\ transfers'[i].to = transfers[i].to
  BY DEF SameList
<1> QED
  BY <1>1 DEF MergedInv

-----------------------------------------------------------------------------
(* The funds in the actions.                                               *)

LEMMA TypesKept ==
  ASSUME SumFacts, FundTypes, SameList, fees' \in Nat, held' \in Int, stray' \in Int, feeInfo' \in FeeInfos,
         tokenOf' = tokenOf, DOMAIN message' = Messages,
         \A s \in DOMAIN packets' : packets'[s] \in Nat,
         \A s \in DOMAIN messageOf' : messageOf'[s] \in Messages
  PROVE  FundTypes'
<1>1. \A i \in DOMAIN transfers' : transfers'[i].amount \in Nat /\ transfers'[i].to \in Recipients
  BY DEF FundTypes, SameList
<1>2. tokenOf' \in [Messages -> Nat]
  BY DEF FundTypes
<1> QED
  BY <1>1, <1>2 DEF FundTypes

\* No transfer moves.
LEMMA OtherFunds ==
  ASSUME SumFacts, PacketInv, FundsInv, UNCHANGED <<transfers, status, queue, owed, tokenOf>>,
         fees' \in Int, held' \in Int, stray' \in Int,
         escrow' = escrow + (fees' - fees) + (held' - held) + (TokensIn(message') - TokensIn(message)),
         account' = account + (stray' - stray)
  PROVE  EscrowInv' /\ AccountInv' /\ OwedInv' /\ MergedInv'
<1>1. SameList
  BY DEF SameList
<1>2. TokensIn(message) \in Nat /\ TokensIn(message') \in Nat
  BY TokensType DEF FundsInv
<1>3. fees \in Nat /\ held \in Int /\ stray \in Int
  BY DEF FundsInv, FundTypes
<1>4. \A S : AmountIn(transfers', S) = AmountIn(transfers, S)
  OBVIOUS
<1>5. PICK a, q : /\ a = AmountIn(transfers, ClaimsIn(transfers, status)) /\ a \in Nat
                  /\ q = AmountIn(transfers, queue) /\ q \in Nat
  <2>1. PICK n \in Nat : DOMAIN transfers = 1..n /\ queue \subseteq 1..n /\ \A i \in 1..n : transfers[i].amount \in Nat
    BY ListFacts DEF FundsInv
  <2>2. IsAmounts(transfers, n) /\ ClaimsIn(transfers, status) \subseteq 1..n
    BY <2>1 DEF IsAmounts, ClaimsIn
  <2>3. AmountIn(transfers, ClaimsIn(transfers, status)) \in Nat /\ AmountIn(transfers, queue) \in Nat
    BY <2>1, <2>2, AmountType, Zenon
  <2> QED
    BY <2>3
<1>6. escrow = a + fees + held + TokensIn(message) /\ account = q + stray
  BY <1>5 DEF FundsInv, EscrowInv, AccountInv
<1>7. escrow' = a + fees' + held' + TokensIn(message') /\ account' = q + stray'
  BY <1>2, <1>3, <1>5, <1>6
<1>8. EscrowInv' /\ AccountInv'
  BY <1>5, <1>7 DEF EscrowInv, AccountInv, TokensIn
<1>9. OwedInv' /\ MergedInv'
  BY DEF FundsInv, OwedInv, MergedInv
<1> QED
  BY <1>8, <1>9

\* Fees, chains and the bounds.
LEMMA ParamsFunds ==
  ASSUME SumFacts, PacketInv, FundsInv, feeInfo' \in FeeInfos,
         UNCHANGED <<transfers, fees, status, queue, message, tokenOf, messageOf, escrow, account, owed, held, stray>>,
         \A s \in DOMAIN packets' : packets'[s] \in Nat
  PROVE  FundsInv'
<1>1. fees \in Nat /\ held \in Int /\ stray \in Int /\ DOMAIN message = Messages
      /\ \A s \in DOMAIN messageOf : messageOf[s] \in Messages
  BY DEF FundsInv, FundTypes
<1>2. SameList
  BY DEF SameList
<1>3. FundTypes'
  BY <1>1, <1>2, TypesKept DEF FundsInv
<1>4. EscrowInv' /\ AccountInv' /\ OwedInv' /\ MergedInv'
  BY DEF FundsInv, EscrowInv, AccountInv, OwedInv, MergedInv, TokensIn
<1> QED
  BY <1>3, <1>4 DEF FundsInv

\* One more packet.
LEMMA PacketAmounts ==
  ASSUME SumFacts, FundTypes, NEW s, NEW a \in Nat, packets' = Plus(packets, s, a)
  PROVE  \A t \in DOMAIN packets' : packets'[t] \in Nat
  BY DEF FundTypes, Plus

LEMMA SendOtherFunds ==
  ASSUME SumFacts, PacketInv, FundsInv, SendOther
  PROVE  FundsInv'
<1>1. \A t \in DOMAIN packets' : packets'[t] \in Nat
  BY PacketAmounts DEF SendOther, FundsInv
<1>2. /\ UNCHANGED <<transfers, fees, status, queue, message, tokenOf, messageOf, escrow, account, owed, held, stray>>
      /\ feeInfo' = feeInfo
  BY DEF SendOther, nexusVars, ibcVars, bankVars, historyVars
<1>3. feeInfo' \in FeeInfos
  BY <1>2 DEF FundsInv, FundTypes
<1> QED
  BY <1>1, <1>2, <1>3, ParamsFunds

\* A message takes its token along, or its token comes back.
LEMMA MessageTokens ==
  ASSUME SumFacts, FundTypes, NEW m \in Messages, NEW ms, DOMAIN ms = Messages, NEW x
  PROVE  /\ ms[m] \in {"approved", "failed"} /\ x \notin {"approved", "failed"}
               => TokensIn([ms EXCEPT ![m] = x]) = TokensIn(ms) - tokenOf[m]
         /\ ms[m] \notin {"approved", "failed"} /\ x \in {"approved", "failed"}
               => TokensIn([ms EXCEPT ![m] = x]) = TokensIn(ms) + tokenOf[m]
         /\ tokenOf[m] \in Nat
<1> DEFINE new == [ms EXCEPT ![m] = x]
<1>1. PICK W, V : /\ W = WaitingIn(ms) /\ V = WaitingIn(new)
                  /\ W \in SUBSET Messages /\ V \in SUBSET Messages
                  /\ SumFunctionOnSet(tokenOf, W) = TokensIn(ms)
                  /\ SumFunctionOnSet(tokenOf, V) = TokensIn(new)
  BY Zenon DEF WaitingIn, TokensIn
<1>2. \A k \in Messages : new[k] = IF k = m THEN x ELSE ms[k]
  OBVIOUS
<1>3. (m \in W <=> ms[m] \in {"approved", "failed"}) /\ (m \in V <=> x \in {"approved", "failed"})
  BY <1>1, <1>2 DEF WaitingIn
<1>4. \A k \in Messages : k # m => (k \in W <=> k \in V)
  BY <1>1, <1>2 DEF WaitingIn
<1>5. tokenOf \in [Messages -> Nat]
  BY DEF FundTypes
<1> HIDE DEF new
<1>6. CASE m \in W /\ m \notin V
  <2>1. V = W \ {m}
    BY <1>1, <1>4, <1>6
  <2>2. SumFunctionOnSet(tokenOf, W \ {m}) = SumFunctionOnSet(tokenOf, W) - tokenOf[m]
    BY <1>1, <1>5, <1>6, TokenSets
  <2> QED
    BY <1>1, <1>3, <1>5, <1>6, <2>1, <2>2, Zenon DEF new
<1>7. CASE m \notin W /\ m \in V
  <2>1. W = V \ {m}
    BY <1>1, <1>4, <1>7
  <2>2. SumFunctionOnSet(tokenOf, V \ {m}) = SumFunctionOnSet(tokenOf, V) - tokenOf[m]
    BY <1>1, <1>5, <1>7, TokenSets
  <2>3. SumFunctionOnSet(tokenOf, V) \in Nat /\ tokenOf[m] \in Nat
    BY <1>1, <1>5, TokenSets
  <2>4. SumFunctionOnSet(tokenOf, V) = SumFunctionOnSet(tokenOf, W) + tokenOf[m]
    BY <2>1, <2>2, <2>3
  <2> QED
    BY <1>1, <1>3, <1>5, <1>7, <2>4 DEF new
<1>8. CASE (m \in W) = (m \in V)
  BY <1>3, <1>5, <1>8
<1> QED
  BY <1>6, <1>7, <1>8

\* The balances are integers.
LEMMA FundsTypes ==
  ASSUME SumFacts, PacketInv, FundsInv
  PROVE  escrow \in Int /\ account \in Int
<1>1. PICK n \in Nat : DOMAIN transfers = 1..n /\ queue \subseteq 1..n /\ \A i \in 1..n : transfers[i].amount \in Nat
  BY ListFacts DEF FundsInv
<1>2. IsAmounts(transfers, n) /\ ClaimsIn(transfers, status) \subseteq 1..n
  BY <1>1 DEF IsAmounts, ClaimsIn
<1>3. AmountIn(transfers, ClaimsIn(transfers, status)) \in Nat /\ AmountIn(transfers, queue) \in Nat
  BY <1>1, <1>2, AmountType, Zenon
<1>4. TokensIn(message) \in Nat
  BY TokensType DEF FundsInv
<1> QED
  BY <1>3, <1>4 DEF FundsInv, FundTypes, EscrowInv, AccountInv

LEMMA AmountsType ==
  ASSUME SumFacts, PacketInv, FundTypes, NEW S, S \subseteq DOMAIN transfers
  PROVE  AmountIn(transfers, S) \in Nat
<1>1. PICK n \in Nat : DOMAIN transfers = 1..n /\ \A i \in 1..n : transfers[i].amount \in Nat
  BY ListFacts
<1>2. IsAmounts(transfers, n) /\ S \subseteq 1..n
  BY <1>1 DEF IsAmounts
<1> QED
  BY <1>2, AmountType

LEMMA OwedKept ==
  ASSUME SumFacts, PacketInv, FundsInv, SameList, owed' = owed,
         \A r : OwedIn(transfers', status', r) = OwedIn(transfers, status, r)
  PROVE  OwedInv'
<1>1. \A r : OwedIn(transfers, status, r) \subseteq DOMAIN transfers
  BY DEF OwedIn
<1>2. \A r : AmountIn(transfers', OwedIn(transfers, status, r)) = AmountIn(transfers, OwedIn(transfers, status, r))
  BY <1>1, SameAmounts DEF FundsInv
<1> QED
  BY <1>2 DEF FundsInv, OwedInv

\* Setting the state of transfers keeps the recipients.
LEMMA StatesTo ==
  ASSUME SumFacts, NEW n \in 0..NonceBound, IsList(transfers, n), NEW S, NEW state
  PROVE  \A i \in 1..n : SetStates(S, state)[i].to = transfers[i].to
<1>1. DOMAIN transfers = 1..n
  BY DEF IsList
<1>2. \A i \in 1..n : [transfers[i] EXCEPT !.state = state]
                         = [to |-> transfers[i].to, amount |-> transfers[i].amount, state |-> state]
  BY DEF IsList, IsRecord
<1> QED
  BY <1>1, <1>2 DEF SetStates

LEMMA SendMessageFunds ==
  ASSUME SumFacts, PacketInv, FundsInv, NEW m \in Messages, SendMessage(m)
  PROVE  FundsInv'
<1>1. /\ message[m] \in {"approved", "failed"}
      /\ escrow' = escrow - tokenOf[m]
      /\ message' = [message EXCEPT ![m] = "processing"]
      /\ messageOf' = Plus(messageOf, nextSeq, m)
      /\ packets' = Plus(packets, nextSeq, CoinOf(m))
      /\ UNCHANGED <<transfers, fees, feeInfo, status, queue, tokenOf, account, owed, held, stray>>
  BY DEF SendMessage, Unescrowed, nexusVars, historyVars
<1>2. FundTypes /\ DOMAIN message = Messages /\ tokenOf \in [Messages -> Nat] /\ fees \in Nat /\ held \in Int /\ stray \in Int
      /\ feeInfo \in FeeInfos
  BY DEF FundsInv, FundTypes
<1>3. TokensIn(message') = TokensIn(message) - tokenOf[m] /\ tokenOf[m] \in Nat
  BY <1>1, <1>2, MessageTokens, Zenon
<1>4. TokensIn(message) \in Nat
  BY <1>2, TokensType
<1>5. CoinOf(m) \in Nat
  BY <1>3 DEF CoinOf, Dust
<1>6. \A t \in DOMAIN packets' : packets'[t] \in Nat
  BY <1>1, <1>2, <1>5, PacketAmounts
<1>7. \A s \in DOMAIN messageOf' : messageOf'[s] \in Messages
  BY <1>1, <1>2 DEF FundTypes, Plus
<1>8. DOMAIN message' = Messages
  BY <1>1, <1>2
<1>9. SameList
  BY <1>1 DEF SameList
<1>10. FundTypes'
  BY <1>1, <1>2, <1>6, <1>7, <1>8, <1>9, TypesKept
<1>11. escrow \in Int /\ account \in Int
  BY FundsTypes
<1>12. /\ escrow' = escrow + (fees' - fees) + (held' - held) + (TokensIn(message') - TokensIn(message))
       /\ account' = account + (stray' - stray)
       /\ fees' \in Int /\ held' \in Int /\ stray' \in Int
  BY <1>1, <1>2, <1>3, <1>4, <1>11
<1>13. UNCHANGED <<transfers, status, queue, owed, tokenOf>>
  BY <1>1
<1> QED
  BY <1>10, <1>12, <1>13, OtherFunds DEF FundsInv

LEMMA OnRecvMessageFunds ==
  ASSUME SumFacts, PacketInv, FundsInv, NEW amount \in Nat, NEW fee \in Nat, NEW withToken \in BOOLEAN,
         OnRecvMessage(amount, fee, withToken)
  PROVE  FundsInv'
<1>1. /\ \/ /\ escrow' = escrow + (amount - fee) /\ held' = held + (amount - fee)
            /\ account' = account /\ stray' = stray
         \/ /\ account' = account + (amount - fee) /\ stray' = stray + (amount - fee)
            /\ escrow' = escrow /\ held' = held
      /\ UNCHANGED <<transfers, fees, feeInfo, status, queue, message, tokenOf, packets, messageOf, owed>>
  BY DEF OnRecvMessage, nexusVars, ibcVars, channelVars
<1>2. FundTypes /\ DOMAIN message = Messages /\ fees \in Nat /\ held \in Int /\ stray \in Int
      /\ feeInfo \in FeeInfos
  BY DEF FundsInv, FundTypes
<1>3. \A s \in DOMAIN packets : packets[s] \in Nat
  BY <1>2 DEF FundTypes
<1>4. \A s \in DOMAIN messageOf : messageOf[s] \in Messages
  BY <1>2 DEF FundTypes
<1>5. escrow \in Int /\ account \in Int /\ TokensIn(message) \in Nat
  BY <1>2, FundsTypes, TokensType
<1>6. held' \in Int /\ stray' \in Int
  BY <1>1, <1>2
<1>7. SameList
  BY <1>1 DEF SameList
<1>8. FundTypes'
  BY <1>1, <1>2, <1>3, <1>4, <1>6, <1>7, TypesKept
<1>9. TokensIn(message') = TokensIn(message)
  BY <1>1
<1>10. /\ escrow' = escrow + (fees' - fees) + (held' - held) + (TokensIn(message') - TokensIn(message))
       /\ account' = account + (stray' - stray)
  BY <1>1, <1>2, <1>5, <1>9
<1>11. fees' \in Int /\ UNCHANGED <<transfers, status, queue, owed, tokenOf>>
  BY <1>1, <1>2
<1> QED
  BY <1>6, <1>8, <1>10, <1>11, OtherFunds DEF FundsInv

\* Transfers that are in flight or queued are not claims.
LEMMA PendingNoClaim ==
  ASSUME SumFacts, PacketInv, FundTypes, NEW i \in IDs, status[i] = "pending"
  PROVE  i \in DOMAIN transfers /\ i \notin ClaimsIn(transfers, status)
  BY DEF PacketInv, ListInv, ClaimsIn

LEMMA RouteIBCTransfersFunds ==
  ASSUME SumFacts, PacketInv, FundsInv, RouteIBCTransfers
  PROVE  FundsInv'
<1>1. PICK routed \in SUBSET GetTransfersForChainPaginated("cosmos") :
         /\ \A i \in routed : status[i] = "none"
         /\ transfers' = SetStates(routed, "archived")
         /\ status' = [i \in IDs |-> IF i \in routed THEN "pending" ELSE status[i]]
         /\ queue' = queue \cup routed
         /\ escrow' = escrow - Amount(routed)
         /\ account' = account + Amount(routed)
         /\ UNCHANGED <<fees, feeInfo, message, tokenOf, packets, messageOf, owed, held, stray>>
  BY DEF RouteIBCTransfers, channelVars, historyVars
<1>2. \A i \in routed : i \in DOMAIN transfers /\ transfers[i].state = "pending"
  BY <1>1, Pages, Zenon
<1>3. PICK n \in 0..NonceBound : IsList(transfers, n)
  BY DEF PacketInv, ListInv
<1>4. /\ DOMAIN transfers = 1..n /\ DOMAIN transfers' = 1..n
      /\ \A i \in 1..n : /\ transfers'[i].amount = transfers[i].amount
                         /\ i \in routed => transfers'[i].state = "archived"
                         /\ i \notin routed => transfers'[i] = transfers[i]
                         /\ transfers'[i].to = transfers[i].to
  <2>1. /\ IsList(transfers', n)
        /\ \A i \in 1..n : /\ transfers'[i].amount = transfers[i].amount
                           /\ i \in routed => transfers'[i].state = "archived"
                           /\ i \notin routed => transfers'[i] = transfers[i]
    BY <1>1, <1>3, StatesSet
  <2>2. \A i \in 1..n : transfers'[i].to = transfers[i].to
    BY <1>1, <1>3, StatesTo
  <2>3. DOMAIN transfers = 1..n /\ DOMAIN transfers' = 1..n
    BY <1>3, <2>1 DEF IsList
  <2> QED
    BY <2>1, <2>2, <2>3
<1>5. SameList
  BY <1>4 DEF SameList
<1>6. 1..n \subseteq IDs /\ \A i \in 1..n : status'[i] = IF i \in routed THEN "pending" ELSE status[i]
  BY <1>1, <1>3, Bounds
<1>7. ClaimsIn(transfers', status') = (ClaimsIn(transfers, status) \ routed) \cup {}
  BY <1>4, <1>6 DEF ClaimsIn
<1>8. routed \subseteq ClaimsIn(transfers, status)
  BY <1>2 DEF ClaimsIn
<1>9. \A r : OwedIn(transfers', status', r) = OwedIn(transfers, status, r)
  BY <1>2, <1>4, <1>6 DEF OwedIn
<1>10. /\ FundTypes /\ fees \in Nat /\ held \in Int /\ stray \in Int /\ feeInfo \in FeeInfos /\ DOMAIN message = Messages
       /\ \A s \in DOMAIN packets : packets[s] \in Nat
       /\ \A s \in DOMAIN messageOf : messageOf[s] \in Messages
  BY DEF FundsInv, FundTypes
<1>11. FundTypes'
  BY <1>1, <1>5, <1>10, TypesKept
<1>12. TokensIn(message') = TokensIn(message) /\ TokensIn(message) \in Nat
  BY <1>1, <1>10, TokensType
<1>13. routed \subseteq DOMAIN transfers /\ routed \subseteq 1..n
  BY <1>2, <1>4
<1>14. /\ Amount(routed) = AmountIn(transfers, routed) /\ AmountIn(transfers, routed) \in Nat
       /\ AmountIn(transfers, {}) = 0
  BY <1>10, <1>13, AmountIs, AmountsType, AmountNone
<1>15. escrow \in Int /\ account \in Int
  BY FundsTypes
<1>16. EscrowInv'
  <2>1. escrow' = escrow - AmountIn(transfers, routed) + AmountIn(transfers, {})
                  + (fees' - fees) + (held' - held) + (TokensIn(message') - TokensIn(message))
    BY <1>1, <1>10, <1>12, <1>14, <1>15
  <2>2. fees' \in Int /\ held' \in Int /\ TokensIn(message') \in Int /\ tokenOf' = tokenOf
    BY <1>1, <1>10, <1>12
  <2>3. {} \subseteq DOMAIN transfers /\ {} \cap ClaimsIn(transfers, status) = {}
    OBVIOUS
  <2> QED
    BY <1>5, <1>7, <1>8, <2>1, <2>2, <2>3, EscrowMoved
<1>17. AccountInv'
  <2>1. account' = account - AmountIn(transfers, {}) + AmountIn(transfers, routed) + (stray' - stray)
    BY <1>1, <1>10, <1>14, <1>15
  <2>2. queue' = (queue \ {}) \cup routed /\ {} \subseteq queue /\ stray' \in Int
    BY <1>1, <1>10
  <2>3. \A i \in queue : status[i] = "pending"
    BY DEF PacketInv, FlightInv
  <2>4. routed \cap queue = {}
    BY <1>1, <2>3
  <2> QED
    BY <1>5, <1>13, <2>1, <2>2, <2>4, AccountMoved
<1>18. OwedInv'
  BY <1>1, <1>5, <1>9, OwedKept
<1>19. MergedInv'
  BY <1>4, <1>5, MergedKept DEF FundsInv
<1> QED
  BY <1>11, <1>16, <1>17, <1>18, <1>19 DEF FundsInv

LEMMA ExecutePendingTransfersFunds ==
  ASSUME SumFacts, PacketInv, FundsInv, ExecutePendingTransfers
  PROVE  FundsInv'
<1> DEFINE page == GetTransfersForChainPaginated("axelarnet")
<1>1. PICK paid \in SUBSET page :
         /\ transfers' = PayOut(paid, page)
         /\ escrow' = escrow - Amount(paid) - Collectable(Amount(paid))
         /\ fees' = fees - Collectable(Amount(paid))
         /\ owed' = [r \in Recipients |-> owed[r] - Amount({i \in paid : transfers[i].to = r})]
  BY DEF ExecutePendingTransfers
<1>2. UNCHANGED <<feeInfo, status, queue, message, tokenOf, packets, messageOf, account, held, stray>>
  BY DEF ExecutePendingTransfers, ibcVars, channelVars
<1>3. \A i \in page : i \in DOMAIN transfers /\ transfers[i].state = "pending"
  BY Pages
<1> HIDE DEF page
<1>4. PICK n \in 0..NonceBound : IsList(transfers, n)
  BY DEF PacketInv, ListInv
<1>5. DOMAIN transfers = 1..n /\ \A i \in 1..n : IsRecord(transfers[i])
  BY <1>4 DEF IsList
<1>6. \A i \in page : status[i] = "none"
  BY <1>3, <1>4, <1>5, Bounds DEF PacketInv, ListInv
<1> DEFINE end(i) == IF i \in paid THEN "archived" ELSE "failed"
<1>7. transfers' = [i \in 1..n |-> IF i \in page THEN [transfers[i] EXCEPT !.state = end(i)] ELSE transfers[i]]
  BY <1>1, <1>5 DEF PayOut
<1>8. \A i \in page : end(i) \in {"archived", "failed"} /\ (end(i) = "archived" <=> i \in paid)
  OBVIOUS
<1> HIDE DEF end
<1>9. \A i \in 1..n : [transfers[i] EXCEPT !.state = end(i)]
                         = [to |-> transfers[i].to, amount |-> transfers[i].amount, state |-> end(i)]
  BY <1>5 DEF IsRecord
<1>10. /\ DOMAIN transfers' = 1..n
       /\ \A i \in 1..n : /\ transfers'[i].amount = transfers[i].amount
                          /\ transfers'[i].to = transfers[i].to
                          /\ i \in page => transfers'[i].state = end(i)
                          /\ i \notin page => transfers'[i] = transfers[i]
  BY <1>7, <1>9
<1>11. SameList
  BY <1>5, <1>10 DEF SameList
<1>12. ClaimsIn(transfers', status') = (ClaimsIn(transfers, status) \ paid) \cup {} /\ paid \subseteq ClaimsIn(transfers, status)
  BY <1>2, <1>3, <1>5, <1>6, <1>8, <1>10 DEF ClaimsIn
<1>13. /\ FundTypes /\ fees \in Nat /\ held \in Int /\ stray \in Int /\ feeInfo \in FeeInfos /\ DOMAIN message = Messages
       /\ \A s \in DOMAIN packets : packets[s] \in Nat
       /\ \A s \in DOMAIN messageOf : messageOf[s] \in Messages
  BY DEF FundsInv, FundTypes
<1>14. paid \subseteq DOMAIN transfers
  BY <1>3, Zenon
<1>15. /\ Amount(paid) = AmountIn(transfers, paid) /\ AmountIn(transfers, paid) \in Nat
       /\ AmountIn(transfers, {}) = 0
  BY <1>13, <1>14, AmountIs, AmountsType, AmountNone
<1>16. Collectable(Amount(paid)) \in 0..fees
  BY <1>13 DEF Collectable
<1>17. fees' \in Nat
  BY <1>1, <1>13, <1>16
<1>18. FundTypes'
  BY <1>2, <1>11, <1>13, <1>17, TypesKept
<1>19. TokensIn(message') = TokensIn(message) /\ TokensIn(message) \in Nat /\ escrow \in Int /\ account \in Int
  BY <1>2, <1>13, TokensType, FundsTypes
<1>20. EscrowInv'
  <2>1. escrow' = escrow - AmountIn(transfers, paid) + AmountIn(transfers, {})
                  + (fees' - fees) + (held' - held) + (TokensIn(message') - TokensIn(message))
    BY <1>1, <1>2, <1>13, <1>15, <1>16, <1>19
  <2>2. fees' \in Int /\ held' \in Int /\ TokensIn(message') \in Int /\ tokenOf' = tokenOf
    BY <1>2, <1>13, <1>17, <1>19
  <2>3. {} \subseteq DOMAIN transfers /\ {} \cap ClaimsIn(transfers, status) = {}
    OBVIOUS
  <2> QED
    BY <1>11, <1>12, <2>1, <2>2, <2>3, EscrowMoved
<1>21. AccountInv'
  <2>1. queue \subseteq DOMAIN transfers
    BY <1>13, ListFacts
  <2>2. AmountIn(transfers', queue) = AmountIn(transfers, queue)
    BY <1>11, <1>13, <2>1, SameAmounts
  <2> QED
    BY <1>2, <2>2 DEF FundsInv, AccountInv
<1>22. OwedInv'
  <2>1. DOMAIN owed' = Recipients
    BY <1>1
  <2>2. ASSUME NEW r \in Recipients
        PROVE  LET got == {i \in paid : transfers[i].to = r}
               IN  /\ got \subseteq OwedIn(transfers, status, r)
                   /\ OwedIn(transfers', status', r) = OwedIn(transfers, status, r) \ got
                   /\ owed'[r] = owed[r] - AmountIn(transfers, got)
    <3> DEFINE got == {i \in paid : transfers[i].to = r}
    <3>1. got \subseteq OwedIn(transfers, status, r)
      BY <1>3 DEF OwedIn
    <3>2. OwedIn(transfers', status', r) = OwedIn(transfers, status, r) \ got
      BY <1>2, <1>3, <1>5, <1>6, <1>8, <1>10 DEF OwedIn
    <3>3. owed'[r] = owed[r] - Amount(got)
      BY <1>1
    <3> HIDE DEF got
    <3>4. owed'[r] = owed[r] - AmountIn(transfers, got)
      BY <3>3, AmountIs
    <3> QED
      BY <3>1, <3>2, <3>4 DEF got
  <2> QED
    BY <1>11, <2>1, <2>2, OwedMoved, Zenon
<1>23. MergedInv'
  BY <1>5, <1>8, <1>10, <1>11, MergedKept DEF FundsInv
<1> QED
  BY <1>18, <1>20, <1>21, <1>22, <1>23 DEF FundsInv

\* The packets of a batch carry the amounts of transfers.
LEMMA SentAmounts ==
  ASSUME SumFacts, FundTypes, NEW batch, batch \subseteq DOMAIN transfers, SendIBCTransfers(batch)
  PROVE  \A s \in DOMAIN packets' : packets'[s] \in Nat
<1> DEFINE seqs == {SequenceIn(i, batch) : i \in batch}
           At(s) == CHOOSE i \in batch : s = SequenceIn(i, batch)
<1>1. \A s \in seqs : At(s) \in batch
  OBVIOUS
<1>2. packets' = [s \in DOMAIN packets \cup seqs |-> IF s \in seqs THEN transfers[At(s)].amount ELSE packets[s]]
  BY DEF SendIBCTransfers
<1> HIDE DEF seqs, At
<1>3. \A s \in seqs : transfers[At(s)].amount \in Nat
  BY <1>1 DEF FundTypes
<1>4. \A s \in DOMAIN packets : packets[s] \in Nat
  BY DEF FundTypes
<1> QED
  BY <1>2, <1>3, <1>4

LEMMA EndBlockerFunds ==
  ASSUME SumFacts, PacketInv, FundsInv, EndBlocker
  PROVE  FundsInv'
<1> DEFINE taken == Lowest(EndBlockerLimit, queue)
<1>1. PICK failed \in SUBSET taken :
         /\ SendIBCTransfers(taken \ failed)
         /\ status' = [i \in IDs |-> IF i \in failed THEN "failed" ELSE status[i]]
         /\ escrow' = escrow + Amount(failed)
         /\ account' = account - Amount(taken \ failed) - Amount(failed)
  BY Zenon DEF EndBlocker, Relock
<1>2. queue' = queue \ taken /\ UNCHANGED <<transfers, fees, feeInfo, message, tokenOf, messageOf, owed, held, stray>>
  BY DEF EndBlocker, nexusVars, historyVars
<1>3. taken \subseteq queue
  BY LowestSubset
<1> HIDE DEF taken
<1>4. PICK n \in Nat : /\ DOMAIN transfers = 1..n /\ 1..n \subseteq IDs /\ queue \subseteq 1..n
                       /\ \A i \in 1..n : transfers[i].amount \in Nat
  BY ListFacts DEF FundsInv
<1>5. \A i \in taken : status[i] = "pending" /\ i \in DOMAIN transfers /\ i \notin ClaimsIn(transfers, status)
  <2>1. \A i \in queue : status[i] = "pending" /\ i \in IDs
    BY DEF PacketInv, FlightInv
  <2> QED
    BY <1>3, <2>1, PendingNoClaim DEF FundsInv
<1>6. \A i \in 1..n : status'[i] = IF i \in failed THEN "failed" ELSE status[i]
  BY <1>1, <1>4
<1>7. SameList
  BY <1>2 DEF SameList
<1>8. ClaimsIn(transfers', status') = (ClaimsIn(transfers, status) \ {}) \cup failed
  BY <1>2, <1>4, <1>5, <1>6 DEF ClaimsIn
<1>9. \A r : OwedIn(transfers', status', r) = OwedIn(transfers, status, r)
  BY <1>2, <1>4, <1>5, <1>6 DEF OwedIn
<1>10. /\ FundTypes /\ fees \in Nat /\ held \in Int /\ stray \in Int /\ feeInfo \in FeeInfos /\ DOMAIN message = Messages
       /\ \A s \in DOMAIN messageOf : messageOf[s] \in Messages
  BY DEF FundsInv, FundTypes
<1>11. FundTypes'
  <2>1. taken \ failed \subseteq DOMAIN transfers
    BY <1>5
  <2>2. \A s \in DOMAIN packets' : packets'[s] \in Nat
    BY <1>1, <1>10, <2>1, SentAmounts
  <2> QED
    BY <1>2, <1>7, <1>10, <2>2, TypesKept
<1>12. TokensIn(message') = TokensIn(message) /\ TokensIn(message) \in Nat /\ escrow \in Int /\ account \in Int
  BY <1>2, <1>10, TokensType, FundsTypes
<1>13. PICK sent : sent = taken \ failed
  BY Zenon
<1>14. /\ sent \subseteq DOMAIN transfers /\ failed \subseteq DOMAIN transfers /\ taken \subseteq DOMAIN transfers
       /\ Split(n, taken, sent, failed)
  BY <1>4, <1>5, <1>13 DEF Split
<1>15. IsAmounts(transfers, n)
  BY <1>4 DEF IsAmounts
<1>16. /\ AmountIn(transfers, taken) = AmountIn(transfers, sent) + AmountIn(transfers, failed)
       /\ AmountIn(transfers, sent) \in Nat /\ AmountIn(transfers, failed) \in Nat /\ AmountIn(transfers, {}) = 0
  BY <1>10, <1>14, <1>15, AmountParts, AmountsType, AmountNone
<1>17. /\ escrow' = escrow + AmountIn(transfers, failed)
       /\ account' = account - AmountIn(transfers, sent) - AmountIn(transfers, failed)
  BY <1>1, <1>13, AmountIs
<1>18. EscrowInv'
  <2>1. escrow' = escrow - AmountIn(transfers, {}) + AmountIn(transfers, failed)
                  + (fees' - fees) + (held' - held) + (TokensIn(message') - TokensIn(message))
    BY <1>2, <1>10, <1>12, <1>16, <1>17
  <2>2. fees' \in Int /\ held' \in Int /\ TokensIn(message') \in Int /\ tokenOf' = tokenOf
    BY <1>2, <1>10, <1>12
  <2>3. {} \subseteq ClaimsIn(transfers, status) /\ failed \cap ClaimsIn(transfers, status) = {}
    BY <1>5
  <2> QED
    BY <1>7, <1>8, <1>14, <2>1, <2>2, <2>3, EscrowMoved
<1>19. AccountInv'
  <2>1. account' = account - AmountIn(transfers, taken) + AmountIn(transfers, {}) + (stray' - stray)
    BY <1>2, <1>10, <1>12, <1>16, <1>17
  <2>2. queue' = (queue \ taken) \cup {} /\ {} \subseteq DOMAIN transfers /\ {} \cap queue = {} /\ stray' \in Int
    BY <1>2, <1>10
  <2> QED
    BY <1>3, <1>7, <2>1, <2>2, AccountMoved
<1>20. OwedInv'
  BY <1>2, <1>7, <1>9, OwedKept
<1>21. MergedInv'
  BY <1>2, <1>7, MergedKept DEF FundsInv
<1> QED
  BY <1>11, <1>18, <1>19, <1>20, <1>21 DEF FundsInv

LEMMA RetryIBCTransferFunds ==
  ASSUME SumFacts, PacketInv, FundsInv, NEW i \in IDs, RetryIBCTransfer(i)
  PROVE  FundsInv'
<1>1. /\ status[i] = "failed" /\ escrow' = escrow - transfers[i].amount
      /\ SendIBCTransfers({i}) /\ status' = [status EXCEPT ![i] = "pending"]
      /\ UNCHANGED <<transfers, fees, feeInfo, queue, message, tokenOf, messageOf, account, owed, held, stray>>
  BY DEF RetryIBCTransfer, nexusVars, historyVars
<1>2. PICK n \in Nat : /\ DOMAIN transfers = 1..n /\ 1..n \subseteq IDs /\ DOMAIN status = IDs /\ i \in 1..n
                       /\ \A j \in 1..n : transfers[j].amount \in Nat
                       /\ transfers[i].state = "archived"
  BY <1>1, ListFacts DEF FundsInv
<1>3. \A j \in 1..n : status'[j] = IF j = i THEN "pending" ELSE status[j]
  BY <1>1, <1>2
<1>4. SameList
  BY <1>1 DEF SameList
<1>5. ClaimsIn(transfers', status') = (ClaimsIn(transfers, status) \ {i}) \cup {} /\ {i} \subseteq ClaimsIn(transfers, status)
  BY <1>1, <1>2, <1>3 DEF ClaimsIn
<1>6. \A r : OwedIn(transfers', status', r) = OwedIn(transfers, status, r)
  BY <1>1, <1>2, <1>3 DEF OwedIn
<1>7. /\ FundTypes /\ fees \in Nat /\ held \in Int /\ stray \in Int /\ feeInfo \in FeeInfos /\ DOMAIN message = Messages
      /\ \A s \in DOMAIN messageOf : messageOf[s] \in Messages
  BY DEF FundsInv, FundTypes
<1>8. FundTypes'
  <2>1. {i} \subseteq DOMAIN transfers
    BY <1>2
  <2>2. \A s \in DOMAIN packets' : packets'[s] \in Nat
    BY <1>1, <1>7, <2>1, SentAmounts
  <2> QED
    BY <1>1, <1>4, <1>7, <2>2, TypesKept
<1>9. TokensIn(message') = TokensIn(message) /\ TokensIn(message) \in Nat /\ escrow \in Int
  BY <1>1, <1>7, TokensType, FundsTypes
<1>10. IsAmounts(transfers, n)
  BY <1>2 DEF IsAmounts
<1>11. AmountIn(transfers, {i}) = transfers[i].amount /\ transfers[i].amount \in Nat /\ AmountIn(transfers, {}) = 0
  BY <1>2, <1>10, AmountOne, AmountNone
<1>12. EscrowInv'
  <2>1. escrow' = escrow - AmountIn(transfers, {i}) + AmountIn(transfers, {})
                  + (fees' - fees) + (held' - held) + (TokensIn(message') - TokensIn(message))
    BY <1>1, <1>7, <1>9, <1>11
  <2>2. fees' \in Int /\ held' \in Int /\ TokensIn(message') \in Int /\ tokenOf' = tokenOf
    BY <1>1, <1>7, <1>9
  <2>3. {} \subseteq DOMAIN transfers /\ {} \cap ClaimsIn(transfers, status) = {}
    OBVIOUS
  <2> QED
    BY <1>4, <1>5, <2>1, <2>2, <2>3, EscrowMoved
<1>13. AccountInv'
  BY <1>1 DEF FundsInv, AccountInv
<1>14. OwedInv'
  BY <1>1, <1>4, <1>6, OwedKept, Zenon
<1>15. MergedInv'
  BY <1>1, <1>4, MergedKept DEF FundsInv
<1> QED
  BY <1>8, <1>12, <1>13, <1>14, <1>15 DEF FundsInv

\* A packet is removed.
LEMMA Removed ==
  ASSUME NEW f, NEW s
  PROVE  /\ DOMAIN Minus(f, s) = DOMAIN f \ {s}
         /\ \A t \in DOMAIN f \ {s} : Minus(f, s)[t] = f[t]
  BY DEF Minus, Restrict

\* What an acknowledgement and a timeout leave alone.
LEMMA SettledTypes ==
  ASSUME SumFacts, FundTypes, NEW s, packets' = Minus(packets, s),
         messageOf' = messageOf \/ messageOf' = Minus(messageOf, s),
         UNCHANGED <<transfers, fees, feeInfo, tokenOf, stray>>, held' \in Int, DOMAIN message' = Messages
  PROVE  FundTypes'
<1>1. \A t \in DOMAIN packets' : packets'[t] \in Nat
  <2>1. \A t \in DOMAIN packets' : t \in DOMAIN packets /\ packets'[t] = packets[t]
    BY Removed, Zenon
  <2> QED
    BY <2>1 DEF FundTypes
<1>2. \A t \in DOMAIN messageOf' : messageOf'[t] \in Messages
  <2>1. \A t \in DOMAIN Minus(messageOf, s) : t \in DOMAIN messageOf /\ Minus(messageOf, s)[t] = messageOf[t]
    BY Removed, Zenon
  <2> QED
    BY <2>1 DEF FundTypes
<1>3. SameList
  BY DEF SameList
<1>4. fees \in Nat /\ stray \in Int /\ feeInfo \in FeeInfos
  BY DEF FundTypes
<1> QED
  BY <1>1, <1>2, <1>3, <1>4, TypesKept

LEMMA CompletedFunds ==
  ASSUME SumFacts, PacketInv, FundsInv, NEW s, IsTransfer(s), SetTransferCompleted(s), packets' = Minus(packets, s),
         UNCHANGED <<transfers, fees, feeInfo, queue, tokenOf, escrow, account, held, stray>>
  PROVE  FundsInv'
<1>1. PICK i : i = transferOf[s]
  OBVIOUS
<1>2. /\ status[i] = "pending" /\ status' = [status EXCEPT ![i] = "completed"]
      /\ owed' = [owed EXCEPT ![transfers[i].to] = @ - packets[s]]
      /\ UNCHANGED <<message, messageOf>>
  BY <1>1, Zenon DEF SetTransferCompleted
<1>3. i \in IDs /\ packets[s] = transfers[i].amount
  BY <1>1 DEF PacketInv, FlightInv, IsTransfer
<1>4. PICK n \in Nat : /\ DOMAIN transfers = 1..n /\ 1..n \subseteq IDs /\ DOMAIN status = IDs /\ i \in 1..n
                       /\ \A j \in 1..n : transfers[j].amount \in Nat /\ transfers[j].to \in Recipients
                       /\ transfers[i].state = "archived"
  BY <1>2, <1>3, ListFacts, Zenon DEF FundsInv
<1>5. \A j \in 1..n : status'[j] = IF j = i THEN "completed" ELSE status[j]
  BY <1>2, <1>4, Zenon
<1>6. SameList
  BY DEF SameList
<1>7. ClaimsIn(transfers', status') = ClaimsIn(transfers, status)
  BY <1>2, <1>4, <1>5, Zenon DEF ClaimsIn
<1>8. FundTypes'
  BY <1>2, SettledTypes DEF FundsInv, FundTypes
<1>9. EscrowInv' /\ AccountInv'
  BY <1>2, <1>7 DEF FundsInv, EscrowInv, AccountInv, TokensIn
<1>10. DOMAIN owed = Recipients
  BY DEF FundsInv, OwedInv
<1>11. IsAmounts(transfers, n)
  BY <1>4 DEF IsAmounts
<1>12. AmountIn(transfers, {i}) = transfers[i].amount /\ AmountIn(transfers, {}) = 0
  BY <1>4, <1>11, AmountOne, AmountNone
<1>13. ASSUME NEW r \in Recipients
       PROVE  LET got == {j \in {i} : transfers[j].to = r}
              IN  /\ got \subseteq OwedIn(transfers, status, r)
                  /\ OwedIn(transfers', status', r) = OwedIn(transfers, status, r) \ got
                  /\ owed'[r] = owed[r] - AmountIn(transfers, got)
  <2> DEFINE got == {j \in {i} : transfers[j].to = r}
  <2>1. got \subseteq OwedIn(transfers, status, r)
    BY <1>2, <1>4 DEF OwedIn
  <2>2. OwedIn(transfers', status', r) = OwedIn(transfers, status, r) \ got
    BY <1>2, <1>4, <1>5 DEF OwedIn
  <2>3. owed[r] \in Int
    <3>1. OwedIn(transfers, status, r) \subseteq DOMAIN transfers
      BY DEF OwedIn
    <3> QED
      BY <3>1, AmountsType DEF FundsInv, OwedInv
  <2>4. CASE transfers[i].to = r
    <3>1. got = {i}
      BY <2>4, Zenon
    <3>2. owed'[r] = owed[r] - AmountIn(transfers, got)
      BY <1>2, <1>3, <1>10, <1>12, <2>4, <3>1, Zenon
    <3> QED
      BY <2>1, <2>2, <3>2
  <2>5. CASE transfers[i].to # r
    <3>1. got = {}
      BY <2>5, Zenon
    <3>2. owed'[r] = owed[r]
      BY <1>2, <1>10, <2>5
    <3>3. AmountIn(transfers, got) = 0
      BY <1>12, <3>1, Zenon
    <3>4. owed'[r] = owed[r] - AmountIn(transfers, got)
      BY <2>3, <3>2, <3>3
    <3> QED
      BY <2>1, <2>2, <3>4
  <2> QED
    BY <2>4, <2>5, Zenon
<1>14. OwedInv'
  BY <1>2, <1>6, <1>10, <1>13, OwedMoved, Zenon
<1>15. MergedInv'
  BY <1>6, MergedKept DEF FundsInv
<1> QED
  BY <1>8, <1>9, <1>14, <1>15 DEF FundsInv

LEMMA FailedFunds ==
  ASSUME SumFacts, PacketInv, FundsInv, NEW s, IsTransfer(s), SetTransferFailed(s), packets' = Minus(packets, s),
         UNCHANGED <<transfers, fees, feeInfo, queue, tokenOf, owed, stray>>
  PROVE  FundsInv'
<1>1. PICK i : i = transferOf[s]
  OBVIOUS
<1>2. /\ status[i] = "pending" /\ status' = [status EXCEPT ![i] = "failed"]
      /\ escrow' = escrow + transfers[i].amount
      /\ account' = account + packets[s] - transfers[i].amount
      /\ UNCHANGED <<message, messageOf, held>>
  BY <1>1, Zenon DEF SetTransferFailed
<1>3. i \in IDs /\ packets[s] = transfers[i].amount
  BY <1>1, Zenon DEF PacketInv, FlightInv, IsTransfer
<1>4. PICK n \in Nat : /\ DOMAIN transfers = 1..n /\ 1..n \subseteq IDs /\ DOMAIN status = IDs /\ i \in 1..n
                       /\ \A j \in 1..n : transfers[j].amount \in Nat
                       /\ transfers[i].state = "archived"
  BY <1>2, <1>3, ListFacts, Zenon DEF FundsInv
<1>5. \A j \in 1..n : status'[j] = IF j = i THEN "failed" ELSE status[j]
  BY <1>2, <1>4
<1>6. SameList
  BY DEF SameList
<1>7. ClaimsIn(transfers', status') = (ClaimsIn(transfers, status) \ {}) \cup {i} /\ {i} \cap ClaimsIn(transfers, status) = {}
  BY <1>2, <1>4, <1>5 DEF ClaimsIn
<1>8. \A r : OwedIn(transfers', status', r) = OwedIn(transfers, status, r)
  BY <1>2, <1>4, <1>5 DEF OwedIn
<1>9. FundTypes /\ fees \in Nat /\ held \in Int /\ DOMAIN message = Messages
  BY Zenon DEF FundsInv, FundTypes
<1>10. FundTypes'
  BY <1>2, <1>9, SettledTypes, Zenon
<1>11. TokensIn(message') = TokensIn(message) /\ TokensIn(message) \in Nat /\ escrow \in Int /\ account \in Int
  BY <1>2, <1>9, TokensType, FundsTypes, Zenon
<1>12. IsAmounts(transfers, n)
  BY <1>4, Zenon DEF IsAmounts
<1>13. AmountIn(transfers, {i}) = transfers[i].amount /\ transfers[i].amount \in Nat /\ AmountIn(transfers, {}) = 0
  BY <1>4, <1>12, AmountOne, AmountNone
<1>14. EscrowInv'
  <2>1. escrow' = escrow - AmountIn(transfers, {}) + AmountIn(transfers, {i})
                  + (fees' - fees) + (held' - held) + (TokensIn(message') - TokensIn(message))
    BY <1>2, <1>9, <1>11, <1>13
  <2>2. fees' \in Int /\ held' \in Int /\ TokensIn(message') \in Int /\ tokenOf' = tokenOf
    BY <1>2, <1>9, <1>11
  <2>3. {} \subseteq ClaimsIn(transfers, status) /\ {i} \subseteq DOMAIN transfers
    BY <1>4
  <2> QED
    BY <1>6, <1>7, <2>1, <2>2, <2>3, EscrowMoved, Zenon
<1>15. AccountInv'
  <2>1. account' = account
    BY <1>2, <1>3, <1>11, <1>13
  <2> QED
    BY <2>1 DEF FundsInv, AccountInv
<1>16. OwedInv'
  BY <1>6, <1>8, OwedKept
<1>17. MergedInv'
  BY <1>6, MergedKept DEF FundsInv
<1> QED
  BY <1>10, <1>14, <1>15, <1>16, <1>17 DEF FundsInv

\* A packet that carries no transfer is acknowledged or times out.
LEMMA OtherSettledFunds ==
  ASSUME SumFacts, PacketInv, FundsInv, NEW s, packets' = Minus(packets, s),
         UNCHANGED <<transfers, fees, feeInfo, status, queue, message, tokenOf, messageOf, escrow, account, owed, held, stray>>
  PROVE  FundsInv'
<1>1. FundTypes'
  <2>1. FundTypes /\ held \in Int /\ DOMAIN message = Messages
    BY Zenon DEF FundsInv, FundTypes
  <2> QED
    BY <2>1, SettledTypes
<1>2. EscrowInv'
  BY Zenon DEF FundsInv, EscrowInv, TokensIn
<1>3. AccountInv'
  BY Zenon DEF FundsInv, AccountInv
<1>4. OwedInv'
  BY Zenon DEF FundsInv, OwedInv
<1>5. MergedInv'
  <2>1. MergedInv /\ SameList
    BY Zenon DEF FundsInv, SameList
  <2>2. \A i \in DOMAIN transfers : transfers'[i].state = transfers[i].state
    BY Zenon
  <2> QED
    BY <2>1, <2>2, MergedKept, Zenon
<1> QED
  BY <1>1, <1>2, <1>3, <1>4, <1>5, Zenon DEF FundsInv

LEMMA MessageSettledFunds ==
  ASSUME SumFacts, PacketInv, FundsInv, NEW s \in DOMAIN messageOf, packets' = Minus(packets, s),
         messageOf' = Minus(messageOf, s), s \in DOMAIN packets,
         message[messageOf[s]] = "processing",
         UNCHANGED <<transfers, fees, feeInfo, status, queue, tokenOf, account, owed, stray>>,
         \/ /\ message' = [message EXCEPT ![messageOf[s]] = "executed"]
            /\ UNCHANGED <<escrow, held>>
         \/ /\ message' = [message EXCEPT ![messageOf[s]] = "failed"]
            /\ escrow' = escrow + packets[s]
            /\ held' = held + (packets[s] - tokenOf[messageOf[s]])
  PROVE  FundsInv'
<1>1. PICK m \in Messages : m = messageOf[s]
  BY DEF FundsInv, FundTypes
<1>2. FundTypes /\ fees \in Nat /\ held \in Int /\ stray \in Int /\ DOMAIN message = Messages /\ packets[s] \in Nat
      /\ tokenOf[m] \in Nat
  BY DEF FundsInv, FundTypes
<1>3. TokensIn(message) \in Nat /\ escrow \in Int /\ account \in Int
  BY <1>2, TokensType, FundsTypes
<1>4. DOMAIN message' = Messages /\ held' \in Int
  BY <1>1, <1>2
<1>5. FundTypes'
  BY <1>2, <1>4, SettledTypes
<1>6. /\ TokensIn([message EXCEPT ![m] = "executed"]) = TokensIn(message)
      /\ TokensIn([message EXCEPT ![m] = "failed"]) = TokensIn(message) + tokenOf[m]
  <2>1. message[m] \notin {"approved", "failed"}
    BY <1>1
  <2>2. TokensIn([message EXCEPT ![m] = "executed"]) = TokensIn(message)
    <3>1. \A k \in Messages : [message EXCEPT ![m] = "executed"][k] = IF k = m THEN "executed" ELSE message[k]
      BY <1>2
    <3>2. WaitingIn([message EXCEPT ![m] = "executed"]) = WaitingIn(message)
      BY <2>1, <3>1 DEF WaitingIn
    <3> QED
      BY <3>2 DEF TokensIn
  <2>3. TokensIn([message EXCEPT ![m] = "failed"]) = TokensIn(message) + tokenOf[m]
    BY <1>2, <2>1, MessageTokens, Zenon
  <2> QED
    BY <2>2, <2>3
<1>7. escrow' = escrow + (fees' - fees) + (held' - held) + (TokensIn(message') - TokensIn(message))
  <2>1. CASE message' = [message EXCEPT ![messageOf[s]] = "executed"] /\ UNCHANGED <<escrow, held>>
    <3>1. TokensIn(message') = TokensIn(message)
      BY <1>1, <1>6, <2>1
    <3> QED
      BY <1>2, <1>3, <2>1, <3>1
  <2>2. CASE /\ message' = [message EXCEPT ![messageOf[s]] = "failed"]
             /\ escrow' = escrow + packets[s]
             /\ held' = held + (packets[s] - tokenOf[messageOf[s]])
    <3>1. TokensIn(message') = TokensIn(message) + tokenOf[m]
      BY <1>1, <1>6, <2>2
    <3> QED
      BY <1>1, <1>2, <1>3, <2>2, <3>1
  <2> QED
    BY <2>1, <2>2
<1>8. account' = account + (stray' - stray) /\ fees' \in Int /\ stray' \in Int
  BY <1>2, <1>3
<1> QED
  BY <1>4, <1>5, <1>7, <1>8, OtherFunds, Zenon DEF FundsInv

LEMMA OnAcknowledgementPacketFunds ==
  ASSUME SumFacts, PacketInv, FundsInv, NEW s \in DOMAIN packets, OnAcknowledgementPacket(s)
  PROVE  FundsInv'
<1>1. /\ setRoutedPacketCompleted(s) /\ packets' = Minus(packets, s)
      /\ UNCHANGED <<transfers, fees, feeInfo, queue, tokenOf, escrow, account, held, stray>>
  BY DEF OnAcknowledgementPacket, nexusVars, bankVars
<1>2. CASE IsTransfer(s) /\ SetTransferCompleted(s)
  BY <1>1, <1>2, CompletedFunds
<1>3. CASE IsMessage(s) /\ SetMessageExecuted(s)
  <2>1. /\ s \in DOMAIN messageOf /\ message[messageOf[s]] = "processing"
        /\ message' = [message EXCEPT ![messageOf[s]] = "executed"]
        /\ messageOf' = Minus(messageOf, s)
        /\ UNCHANGED <<status, owed>>
    BY <1>3 DEF IsMessage, SetMessageExecuted
  <2> QED
    BY <1>1, <2>1, MessageSettledFunds, Zenon
<1>4. CASE UNCHANGED <<status, message, owed, transferOf, messageOf>>
  BY <1>1, <1>4, OtherSettledFunds
<1> QED
  BY <1>1, <1>2, <1>3, <1>4 DEF setRoutedPacketCompleted

LEMMA OnTimeoutPacketFunds ==
  ASSUME SumFacts, PacketInv, FundsInv, NEW s \in DOMAIN packets, OnTimeoutPacket(s)
  PROVE  FundsInv'
<1>1. /\ setRoutedPacketFailed(s) /\ packets' = Minus(packets, s)
      /\ UNCHANGED <<transfers, fees, feeInfo, queue, tokenOf, owed, stray>>
  BY DEF OnTimeoutPacket, nexusVars
<1>2. CASE IsTransfer(s) /\ SetTransferFailed(s)
  BY <1>1, <1>2, FailedFunds
<1>3. CASE IsMessage(s) /\ SetMessageFailed(s)
  <2>1. /\ s \in DOMAIN messageOf /\ message[messageOf[s]] = "processing"
        /\ message' = [message EXCEPT ![messageOf[s]] = "failed"]
        /\ escrow' = escrow + packets[s]
        /\ held' = held + (packets[s] - tokenOf[messageOf[s]])
        /\ messageOf' = Minus(messageOf, s)
        /\ UNCHANGED <<status, account>>
    BY <1>3 DEF IsMessage, SetMessageFailed
  <2> QED
    BY <1>1, <2>1, MessageSettledFunds, Zenon
<1>4. CASE UNCHANGED <<status, message, transferOf, messageOf, bankVars, held>>
  BY <1>1, <1>4, OtherSettledFunds DEF bankVars
<1> QED
  BY <1>1, <1>2, <1>3, <1>4 DEF setRoutedPacketFailed

\* The fee lies between the minimum and the maximum.
LEMMA FeeBounds ==
  ASSUME feeInfo \in FeeInfos, NEW amount \in Nat
  PROVE  /\ feeInfo.min \in Nat /\ feeInfo.max \in Nat
         /\ ComputeTransferFee(amount) \in feeInfo.min..feeInfo.max
<1>1. feeInfo.rate \in Nat /\ feeInfo.min \in Nat /\ feeInfo.max \in Nat /\ feeInfo.min <= feeInfo.max
  BY TransfersAssumption
<1>2. PICK x \in Int, lo \in Int, hi \in Int :
         x = (amount * feeInfo.rate) \div 100 /\ lo = feeInfo.min /\ hi = feeInfo.max
  BY <1>1
<1>3. Max({lo, x}) \in {lo, x} /\ Max({lo, x}) >= lo
  BY OfTwo, Zenon
<1>4. PICK y \in Int : y = Max({lo, x}) /\ y >= lo
  BY <1>3
<1>5. Min({hi, y}) \in {hi, y} /\ Min({hi, y}) <= hi
  BY OfTwo, Zenon
<1>6. ComputeTransferFee(amount) = Min({hi, y})
  BY <1>2, <1>4 DEF ComputeTransferFee
<1> QED
  BY <1>1, <1>2, <1>4, <1>5, <1>6

\* the list after a deposit: transfers are deleted and a new one is added
Listed(n, r, amount, state, merged) ==
    /\ DOMAIN transfers = 1..n /\ DOMAIN transfers' = 1..(n + 1)
    /\ 1..n \subseteq IDs /\ n + 1 \in IDs /\ queue \subseteq 1..n
    /\ \A i \in 1..n : transfers[i].amount \in Nat /\ transfers[i].to \in Recipients
    /\ \A i \in IDs : status[i] # "none" => i \in 1..n /\ transfers[i].state = "archived"
    /\ transfers'[n + 1].to = r /\ transfers'[n + 1].amount = amount /\ transfers'[n + 1].state = state
    /\ \A i \in 1..n :
          /\ transfers'[i].amount = transfers[i].amount /\ transfers'[i].to = transfers[i].to
          /\ transfers'[i].state = IF i \in merged THEN "deleted" ELSE transfers[i].state

\* the transfers that a new one replaces
Merges(r, state, merged) ==
    /\ state \in {"insufficient", "pending"}
    /\ \A i \in merged : /\ i \in DOMAIN transfers /\ transfers[i].to = r
                         /\ transfers[i].state \in {"insufficient", "pending"}
    /\ \A i \in DOMAIN transfers : transfers[i].to = r /\ transfers[i].state = state => i \in merged

LEMMA NewList ==
  ASSUME SumFacts, PacketInv, FundTypes, NEW r, NEW amount, NEW state, NEW merged,
         Len(transfers) < NonceBound, setNewTransfer(r, amount, state, merged)
  PROVE  \E n \in Nat : Listed(n, r, amount, state, merged)
<1> DEFINE kept == deleteTransfers(merged)
           new == [to |-> r, amount |-> amount, state |-> state]
<1>1. PICK n \in 0..NonceBound : IsList(transfers, n)
  BY DEF PacketInv, ListInv
<1>2. n \in Nat /\ NonceBound \in Nat /\ IDs = 1..NonceBound
  BY Bounds
<1>3. /\ IsList(kept, n)
      /\ \A i \in 1..n : /\ kept[i].amount = transfers[i].amount
                         /\ i \in merged => kept[i].state = "deleted"
                         /\ i \notin merged => kept[i] = transfers[i]
  BY <1>1, StatesSet DEF deleteTransfers
<1>4. \A i \in 1..n : kept[i].to = transfers[i].to
  BY <1>1, StatesTo DEF deleteTransfers
<1>5. transfers' = Append(kept, new)
  BY DEF setNewTransfer
<1>6. transfers = [i \in 1..n |-> transfers[i]] /\ kept = [i \in 1..n |-> kept[i]]
  BY <1>1, <1>3 DEF IsList
<1>7. new.to = r /\ new.amount = amount /\ new.state = state
  OBVIOUS
<1> HIDE DEF kept, new
<1>8. Len(transfers) = n /\ Append(kept, new) = [i \in 1..(n + 1) |-> IF i = n + 1 THEN new ELSE kept[i]]
  BY <1>2, <1>6, Appended
<1>9. /\ 1..n \subseteq IDs /\ n + 1 \in IDs /\ n + 1 \in 1..(n + 1)
      /\ \A i \in 1..n : i \in 1..(n + 1) /\ i # n + 1
  BY <1>2, <1>8
<1>10. transfers'[n + 1] = new /\ \A i \in 1..n : transfers'[i] = kept[i]
  BY <1>5, <1>8, <1>9
<1>11. DOMAIN transfers' = 1..(n + 1) /\ DOMAIN transfers = 1..n
  BY <1>5, <1>6, <1>8
<1>12. /\ queue \subseteq DOMAIN transfers
       /\ \A i \in DOMAIN transfers : transfers[i].amount \in Nat /\ transfers[i].to \in Recipients
       /\ \A i \in IDs : status[i] # "none" => i \in DOMAIN transfers /\ transfers[i].state = "archived"
  BY ListFacts
<1>13. \A i \in 1..n : transfers'[i].state = IF i \in merged THEN "deleted" ELSE transfers[i].state
  BY <1>3, <1>10
<1>14. /\ transfers'[n + 1].to = r /\ transfers'[n + 1].amount = amount /\ transfers'[n + 1].state = state
       /\ \A i \in 1..n : transfers'[i].amount = transfers[i].amount /\ transfers'[i].to = transfers[i].to
  BY <1>3, <1>4, <1>7, <1>10, Zenon
<1>15. Listed(n, r, amount, state, merged)
  BY <1>9, <1>11, <1>12, <1>13, <1>14 DEF Listed
<1> QED
  BY <1>2, <1>15

\* What happens to the amounts.
LEMMA NewAmounts ==
  ASSUME SumFacts, NEW n \in Nat, NEW r, NEW amount \in Nat, NEW state, NEW merged, Listed(n, r, amount, state, merged)
  PROVE  /\ \A S \in SUBSET (1..n) : AmountIn(transfers', S) = AmountIn(transfers, S)
         /\ \A S, end : Replaced(n, S, merged, end)
               => /\ AmountIn(transfers', end) = AmountIn(transfers, S) - AmountIn(transfers, merged) + amount
                  /\ AmountIn(transfers, S) \in Nat /\ AmountIn(transfers, merged) \in Nat
<1>1. \A i \in 1..(n + 1) : i = n + 1 \/ i \in 1..n
  OBVIOUS
<1>2. PICK u : u = transfers' /\ Extends(n, transfers, u) /\ u[n + 1].amount = amount
  BY <1>1, Zenon DEF Listed, IsAmounts, Extends
<1>3. \A S \in SUBSET (1..n) : AmountIn(u, S) = AmountIn(transfers, S)
  BY <1>2, AmountExtended
<1>4. \A S, end : Replaced(n, S, merged, end)
         => /\ AmountIn(u, end) = AmountIn(transfers, S) - AmountIn(transfers, merged) + u[n + 1].amount
            /\ AmountIn(transfers, S) \in Nat /\ AmountIn(transfers, merged) \in Nat
  <2> TAKE S, end
  <2> HAVE Replaced(n, S, merged, end)
  <2>1. ReplacedIn(n, transfers, u, S, merged, end)
    BY <1>2 DEF ReplacedIn
  <2> QED
    BY <2>1, AmountReplaced, Zenon
<1> QED
  BY <1>2, <1>3, <1>4, Zenon

\* What happens to claims and to what recipients wait for.
LEMMA NewSets ==
  ASSUME SumFacts, NEW n \in Nat, NEW r, NEW amount, NEW state, NEW merged,
         Listed(n, r, amount, state, merged), Merges(r, state, merged), status' = status
  PROVE  /\ Replaced(n, ClaimsIn(transfers, status), merged, ClaimsIn(transfers', status'))
         /\ Replaced(n, OwedIn(transfers, status, r), merged, OwedIn(transfers', status', r))
         /\ \A q : q # r => OwedIn(transfers', status', q) = OwedIn(transfers, status, q)
         /\ \A q : OwedIn(transfers, status, q) \in SUBSET (1..n)
<1>1. /\ \A i \in 1..(n + 1) : i = n + 1 \/ i \in 1..n
      /\ \A i \in 1..n : i \in 1..(n + 1) /\ i # n + 1
      /\ n + 1 \in 1..(n + 1) /\ n + 1 \notin 1..n
  OBVIOUS
<1>2. status[n + 1] = "none" /\ \A i \in merged : status[i] = "none" /\ i \in 1..n
  BY <1>1, Zenon DEF Listed, Merges
<1>3. DOMAIN transfers = 1..n /\ DOMAIN transfers' = 1..(n + 1)
  BY Zenon DEF Listed
<1>4. /\ transfers'[n + 1].to = r /\ transfers'[n + 1].state \in {"insufficient", "pending"}
      /\ \A i \in 1..n : /\ transfers'[i].to = transfers[i].to
                         /\ transfers'[i].state = IF i \in merged THEN "deleted" ELSE transfers[i].state
  BY DEF Listed, Merges
<1>5. \A i \in merged : i \in 1..n /\ transfers[i].to = r /\ transfers[i].state \in {"insufficient", "pending"}
  BY <1>3, Zenon DEF Merges
<1>6. Replaced(n, ClaimsIn(transfers, status), merged, ClaimsIn(transfers', status'))
  <2>1. ClaimsIn(transfers, status) \subseteq 1..n /\ merged \subseteq ClaimsIn(transfers, status)
    BY <1>3, <1>5, Zenon DEF ClaimsIn
  <2>2. ASSUME NEW i \in 1..n
        PROVE  i \in ClaimsIn(transfers', status') <=> i \in ClaimsIn(transfers, status) \ merged
    BY <1>1, <1>2, <1>3, <1>4, Zenon DEF ClaimsIn
  <2>3. n + 1 \in ClaimsIn(transfers', status') /\ ClaimsIn(transfers', status') \subseteq 1..(n + 1)
    BY <1>1, <1>3, <1>4 DEF ClaimsIn
  <2> QED
    BY <1>1, <2>1, <2>2, <2>3, Zenon DEF Replaced
<1>7. Replaced(n, OwedIn(transfers, status, r), merged, OwedIn(transfers', status', r))
  <2>1. OwedIn(transfers, status, r) \subseteq 1..n /\ merged \subseteq OwedIn(transfers, status, r)
    BY <1>3, <1>5, Zenon DEF OwedIn
  <2>2. ASSUME NEW i \in 1..n
        PROVE  i \in OwedIn(transfers', status', r) <=> i \in OwedIn(transfers, status, r) \ merged
    BY <1>1, <1>2, <1>3, <1>4, Zenon DEF OwedIn
  <2>3. n + 1 \in OwedIn(transfers', status', r) /\ OwedIn(transfers', status', r) \subseteq 1..(n + 1)
    BY <1>1, <1>3, <1>4, Zenon DEF OwedIn
  <2> QED
    BY <1>1, <2>1, <2>2, <2>3 DEF Replaced
<1>8. ASSUME NEW q
      PROVE  /\ q # r => OwedIn(transfers', status', q) = OwedIn(transfers, status, q)
             /\ OwedIn(transfers, status, q) \subseteq 1..n
  BY <1>1, <1>2, <1>3, <1>4, <1>5, Zenon DEF OwedIn
<1> QED
  BY <1>6, <1>7, <1>8, Zenon

\* The new transfer is the only one in its state.
LEMMA NewMerged ==
  ASSUME SumFacts, NEW n \in Nat, NEW r, NEW amount, NEW state, NEW merged,
         Listed(n, r, amount, state, merged), Merges(r, state, merged), MergedInv
  PROVE  MergedInv'
<1> SUFFICES ASSUME NEW q \in Recipients, NEW st \in {"insufficient", "pending"},
                    NEW i \in 1..(n + 1), NEW j \in 1..(n + 1),
                    transfers'[i].to = q, transfers'[i].state = st, transfers'[j].to = q, transfers'[j].state = st
             PROVE  i = j
  BY DEF MergedInv, Listed
<1>1. \A k \in 1..(n + 1) : k = n + 1 \/ k \in 1..n
  OBVIOUS
<1>2. \A k \in 1..n : transfers'[k].to = q /\ transfers'[k].state = st
                         => /\ k \notin merged /\ k \in DOMAIN transfers
                            /\ transfers[k].to = q /\ transfers[k].state = st
  BY DEF Listed
<1>3. CASE i = n + 1 \/ j = n + 1
  <2>1. q = r /\ st = state
    BY <1>3, Zenon DEF Listed
  <2>2. \A k \in 1..n : ~(transfers'[k].to = q /\ transfers'[k].state = st)
    BY <1>2, <2>1 DEF Merges
  <2> QED
    BY <1>1, <2>2, Zenon
<1>4. CASE i \in 1..n /\ j \in 1..n
  BY <1>2, <1>4 DEF MergedInv
<1> QED
  BY <1>1, <1>3, <1>4, Zenon

\* A deposit, of which extra goes to the recipient and the rest to the fees, is merged
\* with transfers to the recipient.
LEMMA NewTransferFunds ==
  ASSUME SumFacts, PacketInv, FundsInv, NEW r \in Recipients, NEW amount \in Nat, NEW extra \in Int,
         NEW state, NEW merged, Merges(r, state, merged),
         Len(transfers) < NonceBound, setNewTransfer(r, amount, state, merged),
         amount = AmountIn(transfers, merged) + extra,
         owed' = [owed EXCEPT ![r] = @ + extra], fees' \in Nat,
         escrow' = escrow + extra + (fees' - fees),
         UNCHANGED <<feeInfo, status, queue, message, tokenOf, packets, messageOf, account, held, stray>>
  PROVE  FundsInv'
<1>1. FundTypes /\ fees \in Nat /\ held \in Int /\ stray \in Int /\ DOMAIN owed = Recipients
  BY Zenon DEF FundsInv, FundTypes, OwedInv
<1>2. PICK n \in Nat : Listed(n, r, amount, state, merged)
  BY <1>1, NewList, Zenon
<1>3. FundTypes'
  <2>1. \A i \in DOMAIN transfers' : transfers'[i].amount \in Nat /\ transfers'[i].to \in Recipients
    <3>1. \A i \in 1..(n + 1) : i = n + 1 \/ i \in 1..n
      OBVIOUS
    <3> QED
      BY <1>2, <3>1, Zenon DEF Listed
  <2> QED
    BY <1>1, <2>1 DEF FundTypes
<1>4. PICK C, end : /\ C = ClaimsIn(transfers, status) /\ end = ClaimsIn(transfers', status')
                    /\ Replaced(n, C, merged, end)
  BY <1>2, NewSets
<1>5. EscrowInv'
  <2>1. /\ AmountIn(transfers', end) = AmountIn(transfers, C) - AmountIn(transfers, merged) + amount
        /\ AmountIn(transfers, C) \in Nat /\ AmountIn(transfers, merged) \in Nat
    BY <1>2, <1>4, NewAmounts
  <2>2. AmountIn(transfers', end) = AmountIn(transfers, C) + extra
    BY <2>1
  <2>3. escrow = AmountIn(transfers, C) + fees + held + TokensIn(message) /\ TokensIn(message) \in Nat
    BY <1>1, <1>4, TokensType DEF FundsInv, EscrowInv
  <2>4. escrow' = AmountIn(transfers', end) + fees' + held + TokensIn(message)
    <3>1. PICK a \in Nat, tokens \in Nat : a = AmountIn(transfers, C) /\ tokens = TokensIn(message)
      BY <2>1, <2>3
    <3>2. escrow = a + fees + held + tokens
      BY <2>3, <3>1
    <3>3. escrow' = (a + extra) + fees' + held + tokens
      BY <1>1, <3>2
    <3> QED
      BY <2>2, <3>1, <3>3
  <2> QED
    BY <1>4, <2>4, Zenon DEF EscrowInv, TokensIn
<1>6. AccountInv'
  <2>1. queue \in SUBSET (1..n)
    BY <1>2, Zenon DEF Listed
  <2>2. AmountIn(transfers', queue) = AmountIn(transfers, queue)
    BY <1>2, <2>1, NewAmounts, Zenon
  <2> QED
    BY <2>2, Zenon DEF FundsInv, AccountInv
<1>7. ASSUME NEW q \in Recipients
      PROVE  owed'[q] = AmountIn(transfers', OwedIn(transfers', status', q))
  <2>1. PICK O, rest :
           /\ O \in SUBSET (1..n) /\ O = OwedIn(transfers, status, q) /\ rest = OwedIn(transfers', status', q)
           /\ q = r => Replaced(n, O, merged, rest)
           /\ q # r => rest = O
    BY <1>2, NewSets
  <2>2. owed[q] = AmountIn(transfers, O)
    BY <2>1 DEF FundsInv, OwedInv
  <2>3. CASE q = r
    <3>1. /\ AmountIn(transfers', rest) = AmountIn(transfers, O) - AmountIn(transfers, merged) + amount
          /\ AmountIn(transfers, O) \in Nat /\ AmountIn(transfers, merged) \in Nat
      BY <1>2, <2>1, <2>3, NewAmounts
    <3>2. AmountIn(transfers', rest) = AmountIn(transfers, O) + extra
      BY <3>1
    <3>3. owed'[q] = owed[q] + extra
      BY <1>1, <2>3, Zenon
    <3> QED
      BY <2>1, <2>2, <3>2, <3>3, Zenon
  <2>4. CASE q # r
    <3>1. AmountIn(transfers', O) = AmountIn(transfers, O)
      BY <1>2, <2>1, NewAmounts, Zenon
    <3> QED
      BY <1>1, <2>1, <2>2, <2>4, <3>1
  <2> QED
    BY <2>3, <2>4, Zenon
<1>8. OwedInv'
  BY <1>1, <1>7 DEF OwedInv
<1>9. MergedInv'
  BY <1>2, NewMerged DEF FundsInv
<1> QED
  BY <1>3, <1>5, <1>6, <1>8, <1>9 DEF FundsInv

\* The transfer that is found first is the only one.
LEMMA FoundAll ==
  ASSUME SumFacts, PacketInv, FundsInv, NEW r \in Recipients, NEW state \in {"insufficient", "pending"}
  PROVE  getTransfer(r, state) = InState(r, state)
<1>1. PICK n \in Nat : DOMAIN transfers = 1..n
  BY ListFacts DEF FundsInv
<1>2. \A i, j \in InState(r, state) : i = j
  BY DEF FundsInv, MergedInv, InState
<1>3. \A i \in InState(r, state) : i \in Nat
  BY <1>1 DEF InState
<1>4. \A i \in InState(r, state) : {j \in InState(r, state) : j < i} = {}
  <2> TAKE i \in InState(r, state)
  <2>1. ~(i < i)
    BY <1>3
  <2> QED
    BY <1>2, <2>1
<1>5. Cardinality({}) = 0
  BY DEF SumFacts
<1>6. \A i \in InState(r, state) : Cardinality({j \in InState(r, state) : j < i}) < 1
  BY <1>4, <1>5
<1> QED
  BY <1>6 DEF getTransfer, Lowest

LEMMA EnqueueTransferFunds ==
  ASSUME SumFacts, PacketInv, FundsInv, NEW r \in Recipients, NEW deposit \in Deposits, EnqueueTransfer(r, deposit)
  PROVE  FundsInv' /\ (fees' = fees \/ fees' - fees \in feeInfo.min..feeInfo.max)
<1> DEFINE B == getTransfer(r, "insufficient")
           P == getTransfer(r, "pending")
<1>1. PICK below, previous : below = B /\ previous = P
  OBVIOUS
<1>2. PICK amount : amount = deposit + Amount(below)
  OBVIOUS
<1>3. PICK fee : fee = ComputeTransferFee(amount)
  BY Zenon
<1>4. /\ Len(transfers) < NonceBound
      /\ escrow' = escrow + deposit
      /\ \/ /\ setNewTransfer(r, amount, "insufficient", below)
            /\ owed' = [owed EXCEPT ![r] = @ + deposit]
            /\ fees' = fees
         \/ /\ ~(fee >= amount)
            /\ setNewTransfer(r, amount - fee + Amount(previous), "pending", below \cup previous)
            /\ owed' = [owed EXCEPT ![r] = @ + deposit - fee]
            /\ fees' = fees + fee
      /\ UNCHANGED <<feeInfo, status, queue, message, tokenOf, packets, messageOf, account, held, stray>>
  BY <1>1, <1>2, <1>3 DEF EnqueueTransfer, ibcVars, channelVars
<1>5. FundTypes /\ fees \in Nat /\ feeInfo \in FeeInfos /\ deposit \in Nat
  BY TransfersAssumption, Zenon DEF FundsInv, FundTypes
<1>6. below = InState(r, "insufficient") /\ previous = InState(r, "pending")
  BY <1>1, FoundAll
<1>7. /\ \A i \in below : i \in DOMAIN transfers /\ transfers[i].to = r /\ transfers[i].state = "insufficient"
      /\ \A i \in previous : i \in DOMAIN transfers /\ transfers[i].to = r /\ transfers[i].state = "pending"
      /\ \A i \in DOMAIN transfers : transfers[i].to = r /\ transfers[i].state = "insufficient" => i \in below
      /\ \A i \in DOMAIN transfers : transfers[i].to = r /\ transfers[i].state = "pending" => i \in previous
  BY <1>6, Zenon DEF InState
<1>8. below \subseteq DOMAIN transfers /\ previous \subseteq DOMAIN transfers
  BY <1>7, Zenon
<1>9. PICK a \in Nat, p \in Nat : /\ a = AmountIn(transfers, below) /\ p = AmountIn(transfers, previous)
                                  /\ a = Amount(below) /\ p = Amount(previous)
  BY <1>5, <1>8, AmountsType, AmountIs
<1>10. amount \in Nat /\ amount = a + deposit
  BY <1>2, <1>5, <1>9
<1>11. fee \in feeInfo.min..feeInfo.max /\ fee \in Nat
  BY <1>3, <1>5, <1>10, FeeBounds
<1>12. escrow \in Int
  BY FundsTypes
<1>13. CASE /\ setNewTransfer(r, amount, "insufficient", below)
            /\ owed' = [owed EXCEPT ![r] = @ + deposit]
            /\ fees' = fees
  <2>1. escrow' = escrow + deposit + (fees' - fees) /\ fees' \in Nat
    BY <1>4, <1>5, <1>12, <1>13
  <2>2. Merges(r, "insufficient", below)
    BY <1>7, Zenon DEF Merges
  <2>3. amount = AmountIn(transfers, below) + deposit
    BY <1>9, <1>10
  <2>6. deposit \in Int
    BY <1>5
  <2>4. FundsInv'
    BY <1>4, <1>10, <1>13, <2>1, <2>2, <2>3, <2>6, NewTransferFunds, Zenon
  <2> QED
    BY <1>13, <2>4
<1>14. CASE /\ ~(fee >= amount)
            /\ setNewTransfer(r, amount - fee + Amount(previous), "pending", below \cup previous)
            /\ owed' = [owed EXCEPT ![r] = @ + deposit - fee]
            /\ fees' = fees + fee
  <2>1. PICK both, total, extra : both = below \cup previous /\ total = amount - fee + p /\ extra = deposit - fee
    BY Zenon
  <2>2. total \in Nat /\ extra \in Int
    BY <1>5, <1>10, <1>11, <1>14, <2>1
  <2>3. escrow' = escrow + extra + (fees' - fees) /\ fees' \in Nat
    BY <1>4, <1>5, <1>11, <1>12, <1>14, <2>1
  <2>4. \A i \in both : /\ i \in DOMAIN transfers /\ transfers[i].to = r
                        /\ transfers[i].state \in {"insufficient", "pending"}
    BY <1>7, <2>1, Zenon
  <2>5. AmountIn(transfers, both) = a + p
    <3>1. PICK n \in Nat : DOMAIN transfers = 1..n /\ \A i \in 1..n : transfers[i].amount \in Nat
      BY <1>5, ListFacts, Zenon
    <3>2. IsAmounts(transfers, n) /\ Split(n, both, below, previous)
      BY <1>7, <2>1, <2>4, <3>1, Zenon DEF IsAmounts, Split
    <3>3. AmountIn(transfers, both) = AmountIn(transfers, below) + AmountIn(transfers, previous)
      BY <3>2, AmountParts
    <3> QED
      BY <1>9, <3>3, Zenon
  <2>6. total = AmountIn(transfers, both) + extra
    BY <1>5, <1>10, <1>11, <2>1, <2>5
  <2>7. setNewTransfer(r, total, "pending", both)
    BY <1>9, <1>14, <2>1
  <2>8. owed' = [owed EXCEPT ![r] = @ + extra]
    <3>1. owed[r] \in Int
      <4>1. OwedIn(transfers, status, r) \subseteq DOMAIN transfers
        BY DEF OwedIn
      <4> QED
        BY <1>5, <4>1, AmountsType DEF FundsInv, OwedInv
    <3>2. owed[r] + deposit - fee = owed[r] + extra
      BY <1>5, <1>11, <2>1, <3>1, Zenon
    <3> QED
      BY <1>14, <3>2, Zenon
  <2>9. Merges(r, "pending", both)
    BY <1>7, <2>1 DEF Merges
  <2>10. FundsInv'
    BY <1>4, <2>2, <2>3, <2>6, <2>7, <2>8, <2>9, NewTransferFunds, Zenon
  <2>11. fees' - fees = fee
    BY <1>5, <1>11, <1>14
  <2> QED
    BY <1>11, <2>10, <2>11
<1> QED
  BY <1>4, <1>13, <1>14

LEMMA InitFunds == SumFacts /\ Init => FundsInv
<1> SUFFICES ASSUME SumFacts, Init PROVE FundsInv
  OBVIOUS
<1>1. /\ transfers = <<>> /\ fees = 0 /\ feeInfo \in FeeInfos /\ queue = {}
      /\ message = [m \in Messages |-> "approved"] /\ tokenOf \in [Messages -> TokenAmounts]
      /\ packets = <<>> /\ messageOf = <<>>
      /\ escrow = SumFunctionOnSet(tokenOf, Messages) /\ account = 0
      /\ owed = [r \in Recipients |-> 0] /\ held = 0 /\ stray = 0
  BY DEF Init
<1>2. DOMAIN transfers = {} /\ DOMAIN packets = {} /\ DOMAIN messageOf = {}
  BY <1>1
<1>3. tokenOf \in [Messages -> Nat]
  BY <1>1, TransfersAssumption, Zenon
<1>4. FundTypes
  BY <1>1, <1>2, <1>3 DEF FundTypes
<1>5. ClaimsIn(transfers, status) = {} /\ \A r : OwedIn(transfers, status, r) = {}
  BY <1>2 DEF ClaimsIn, OwedIn
<1>6. AmountIn(transfers, {}) = 0
  BY AmountNone
<1>7. TokensIn(message) = SumFunctionOnSet(tokenOf, Messages) /\ TokensIn(message) \in Nat
  <2>1. WaitingIn(message) = Messages
    BY <1>1 DEF WaitingIn
  <2> QED
    BY <1>4, <2>1, TokensType DEF TokensIn
<1>8. EscrowInv /\ AccountInv /\ OwedInv
  <2>1. EscrowInv
    <3>1. AmountIn(transfers, ClaimsIn(transfers, status)) = 0
      BY <1>5, <1>6
    <3>2. PICK tokens \in Nat : tokens = TokensIn(message) /\ escrow = tokens /\ fees = 0 /\ held = 0
      BY <1>1, <1>7
    <3>3. tokens = 0 + 0 + 0 + tokens
      OBVIOUS
    <3> QED
      BY <3>1, <3>2, <3>3 DEF EscrowInv
  <2>2. AccountInv
    BY <1>1, <1>6 DEF AccountInv
  <2>3. OwedInv
    BY <1>1, <1>5, <1>6, Zenon DEF OwedInv
  <2> QED
    BY <2>1, <2>2, <2>3
<1>9. MergedInv
  BY <1>2, Zenon DEF MergedInv
<1> QED
  BY <1>4, <1>8, <1>9 DEF FundsInv

\* A step keeps the invariants, and adds to the fees no more and no less than a fee.
LEMMA NextFunds ==
  ASSUME SumFacts, PacketInv, FundsInv, [Next]_vars
  PROVE  FundsInv' /\ (fees' > fees => fees' - fees \in feeInfo.min..feeInfo.max)
<1>0. fees \in Nat /\ feeInfo \in FeeInfos /\ \A s \in DOMAIN packets : packets[s] \in Nat
  BY Zenon DEF FundsInv, FundTypes
<1> DEFINE funds == <<transfers, fees, status, queue, message, tokenOf, messageOf, escrow, account, owed, held, stray>>
<1>1. ASSUME NEW r \in Recipients, NEW deposit \in Deposits, EnqueueTransfer(r, deposit)
      PROVE  FundsInv' /\ (fees' = fees \/ fees' - fees \in feeInfo.min..feeInfo.max)
  BY <1>1, EnqueueTransferFunds
<1>2. ASSUME UNCHANGED funds, packets' = packets, feeInfo' \in FeeInfos
      PROVE  FundsInv' /\ fees' = fees
  BY <1>0, <1>2, ParamsFunds
<1> HIDE DEF funds
<1>3. ASSUME NEW info \in FeeInfos, RegisterAssetFee(info)
      PROVE  FundsInv' /\ fees' = fees
  <2>1. UNCHANGED funds /\ packets' = packets /\ feeInfo' \in FeeInfos
    BY <1>3 DEF RegisterAssetFee, funds, ibcVars, channelVars, bankVars, historyVars
  <2> QED
    BY <1>2, <2>1
<1>4. CASE RegisterFeeCollector
  <2>1. UNCHANGED funds /\ packets' = packets /\ feeInfo' = feeInfo
    BY <1>4 DEF RegisterFeeCollector, funds, ibcVars, channelVars, bankVars, historyVars
  <2> QED
    BY <1>0, <1>2, <2>1
<1>5. CASE ActivateChain("cosmos") \/ DeactivateChain("cosmos")
  <2>1. UNCHANGED funds /\ packets' = packets /\ feeInfo' = feeInfo
    BY <1>5 DEF ActivateChain, DeactivateChain, funds, ibcVars, channelVars, bankVars, historyVars
  <2> QED
    BY <1>0, <1>2, <2>1
<1>6. CASE ExecutePendingTransfers
  <2>1. FundsInv'
    BY <1>6, ExecutePendingTransfersFunds
  <2>2. \E x : fees' = fees - Collectable(x)
    BY <1>6, Zenon DEF ExecutePendingTransfers
  <2>3. ~(fees' > fees)
    BY <1>0, <2>2 DEF Collectable
  <2> QED
    BY <2>1, <2>3
<1>7. CASE RouteIBCTransfers
  <2>1. fees' = fees
    BY <1>7, Zenon DEF RouteIBCTransfers
  <2> QED
    BY <1>0, <1>7, <2>1, RouteIBCTransfersFunds
<1>8. CASE EndBlocker
  <2>1. fees' = fees
    BY <1>8 DEF EndBlocker, nexusVars
  <2> QED
    BY <1>0, <1>8, <2>1, EndBlockerFunds
<1>9. ASSUME NEW i \in IDs, RetryIBCTransfer(i)
      PROVE  FundsInv' /\ fees' = fees
  <2>1. fees' = fees
    BY <1>9 DEF RetryIBCTransfer, nexusVars
  <2> QED
    BY <1>9, <2>1, RetryIBCTransferFunds, Zenon
<1>10. ASSUME NEW m \in Messages, SendMessage(m)
       PROVE  FundsInv' /\ fees' = fees
  <2>1. fees' = fees
    BY <1>10 DEF SendMessage, nexusVars
  <2> QED
    BY <1>10, <2>1, SendMessageFunds
<1>11. CASE SendOther
  <2>1. fees' = fees
    BY <1>11 DEF SendOther, nexusVars
  <2> QED
    BY <1>0, <1>11, <2>1, SendOtherFunds
<1>12. ASSUME NEW p \in Receipts, NEW withToken \in BOOLEAN, OnRecvMessage(p.amount, p.fee, withToken)
       PROVE  FundsInv' /\ fees' = fees
  <2>1. fees' = fees
    BY <1>12 DEF OnRecvMessage, nexusVars
  <2>2. p.amount \in Nat /\ p.fee \in Nat
    BY TransfersAssumption
  <2> QED
    BY <1>12, <2>1, <2>2, OnRecvMessageFunds
<1>13. ASSUME NEW s \in DOMAIN packets, OnAcknowledgementPacket(s) \/ OnTimeoutPacket(s)
       PROVE  FundsInv' /\ fees' = fees
  <2>1. fees' = fees
    BY <1>13 DEF OnAcknowledgementPacket, OnTimeoutPacket, nexusVars
  <2> QED
    BY <1>13, <2>1, OnAcknowledgementPacketFunds, OnTimeoutPacketFunds
<1>14. CASE UNCHANGED vars
  <2>1. UNCHANGED funds /\ packets' = packets /\ feeInfo' = feeInfo
    BY <1>14 DEF vars, nexusVars, funds, ibcVars, channelVars, bankVars, historyVars
  <2> QED
    BY <1>0, <1>2, <2>1
<1>15. fees' = fees => ~(fees' > fees)
  BY <1>0
<1> QED
  BY <1>1, <1>3, <1>4, <1>5, <1>6, <1>7, <1>8, <1>9, <1>10, <1>11, <1>12, <1>13, <1>14, <1>15 DEF Next

=============================================================================
