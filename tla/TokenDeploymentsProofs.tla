----------------------- MODULE TokenDeploymentsProofs -----------------------
(* Proofs about TokenDeployments, for any assets, symbols, addresses,      *)
(* transactions and polls, and any limit of the end blocker.               *)
EXTENDS TokenDeployments, WellFoundedInduction, TLAPS

USE SMTT(20), ZenonT(10)

-----------------------------------------------------------------------------
(* Tokens: both lookups show the same tokens, and exactly the deployed     *)
(* ones are confirmed.                                                     *)

Statuses == {Initialized, Initialized \cup Pending, Confirmed}

(* A token is found by its asset and by its symbol, and has an address of  *)
(* its own: one that the gateway gives it or one that is on the chain.     *)
TokensInv(ba, bs) ==
    /\ gateway # None => gateway \in Gateways
    /\ ba \in [Assets -> TokenMetadata \cup {None}]
    /\ bs \in [Symbols -> TokenMetadata \cup {None}]
    /\ \A a \in Assets : ba[a] # None =>
          /\ ba[a].asset = a /\ bs[ba[a].symbol] = ba[a]
          /\ ba[a].status \in Statuses
          /\ ba[a].address \in Addresses \/ (gateway # None /\ ba[a].address = <<gateway, ba[a].symbol>>)
    /\ \A s \in Symbols : bs[s] # None => bs[s].symbol = s /\ ba[bs[s].asset] = bs[s]
    /\ \A a, b \in Assets : ba[a] # None /\ ba[b] # None /\ a # b => ba[a].address # ba[b].address

(* A command is executed once, so that a token has one log, which comes    *)
(* from its own command; a poll runs on a token only after a confirmation  *)
(* of it was started.                                                      *)
LogsInv(ba) ==
    /\ \A a \in commands : a \in Assets /\ ba[a] # None
    /\ \A log \in logs : \E a \in Assets \ commands :
          ba[a] # None /\ log.symbol = ba[a].symbol /\ log.address = ba[a].address
    /\ \A l, m \in logs : l.symbol = m.symbol => l = m
    /\ polls \in [Assets \X Txs -> Nat]
    /\ \A a \in Assets, tx \in Txs : polls[<<a, tx>>] > 0 => ba[a] # None /\ ba[a].status # Initialized

(* The events in P wait for the end blocker, and their tokens for them;    *)
(* the other events are completed, and their tokens are confirmed.         *)
EventsInv(ba, bs, ev, P) ==
    /\ P \subseteq DOMAIN ev /\ DOMAIN ev \subseteq logs
    /\ ev \in [DOMAIN ev -> {"confirmed", "completed"}]
    /\ \A l \in DOMAIN ev : ev[l] = "confirmed" <=> l \in P
    /\ \A l \in P : bs[l.symbol].status = Initialized \cup Pending
    /\ \A a \in Assets : ba[a] # None =>
          (ba[a].status = Confirmed <=> \E l \in DOMAIN ev : l.symbol = ba[a].symbol /\ l \notin P)

TokenState(ba, bs, ev, P) == TokensInv(ba, bs) /\ LogsInv(ba) /\ EventsInv(ba, bs, ev, P)

Waiting == {queue[i] : i \in 1..Len(queue)}

DeploymentInv ==
    /\ TokenState(byAsset, bySymbol, events, Waiting)
    /\ queue \in Seq(logs)
    /\ \A i, j \in 1..Len(queue) : queue[i] = queue[j] => i = j

\* The bits of the status tell the statuses apart.
LEMMA StatusFacts ==
  /\ Initialized # Initialized \cup Pending /\ Initialized # Confirmed /\ Initialized \cup Pending # Confirmed
  /\ Initialized # NonExistent /\ Initialized \cup Pending # NonExistent /\ Confirmed # NonExistent /\ Pending # NonExistent
  /\ Pending \subseteq Initialized \cup Pending /\ ~(Confirmed \subseteq Initialized) /\ ~(Confirmed \subseteq Initialized \cup Pending)
  /\ Statuses \subseteq SUBSET (Initialized \cup Pending \cup Confirmed)
BY DEF Initialized, Pending, Confirmed, NonExistent, Statuses

\* What is stored is what the properties say of it.
LEMMA DeploymentHolds ==
  ASSUME DeploymentInv
  PROVE  LookupsAgree /\ ConfirmedByDeployment
<1> USE DEF DeploymentInv, TokenState
<1>1. /\ \A a \in Assets : byAsset[a] # None =>
            byAsset[a].asset = a /\ bySymbol[byAsset[a].symbol] = byAsset[a] /\ byAsset[a].symbol \in Symbols
      /\ \A s \in Symbols : bySymbol[s] # None =>
            bySymbol[s].symbol = s /\ byAsset[bySymbol[s].asset] = bySymbol[s] /\ bySymbol[s].asset \in Assets
  BY DEF TokensInv, TokenMetadata
<1>2. Tokens = {bySymbol[s] : s \in {t \in Symbols : bySymbol[t] # None}}
  <2>1. \A a \in Assets : byAsset[a] # None => \E s \in Symbols : bySymbol[s] # None /\ byAsset[a] = bySymbol[s]
    BY <1>1
  <2>2. \A s \in Symbols : bySymbol[s] # None => \E a \in Assets : byAsset[a] # None /\ byAsset[a] = bySymbol[s]
    BY <1>1
  <2> QED
    BY <2>1, <2>2 DEF Tokens
<1>3. ASSUME NEW t \in Tokens, NEW u \in Tokens, t # u
      PROVE  t.symbol # u.symbol /\ t.address # u.address
  <2>1. PICK a \in Assets : byAsset[a] # None /\ t = byAsset[a]
    BY DEF Tokens
  <2>2. PICK b \in Assets : byAsset[b] # None /\ u = byAsset[b]
    BY DEF Tokens
  <2> QED
    BY <1>1, <1>3, <2>1, <2>2 DEF TokensInv
<1>4. ASSUME NEW t \in Tokens
      PROVE  Is(t, Confirmed) <=>
                \E log \in DOMAIN events : log.symbol = t.symbol /\ log.address = t.address /\ events[log] = "completed"
  <2>1. PICK a \in Assets : byAsset[a] # None /\ t = byAsset[a]
    BY DEF Tokens
  <2>2. Is(t, Confirmed) <=> t.status = Confirmed
    BY <2>1, StatusFacts DEF Is, TokensInv, Statuses
  <2>3. \A log \in DOMAIN events : log.symbol = t.symbol => log.address = t.address
    BY <1>1, <2>1 DEF LogsInv, EventsInv
  <2>4. \A log \in DOMAIN events : events[log] = "completed" <=> log \notin Waiting
    BY DEF EventsInv
  <2> QED
    BY <2>1, <2>2, <2>3, <2>4 DEF EventsInv
<1>5. \A log \in DOMAIN events : events[log] # "failed"
  BY DEF EventsInv
<1> QED
  BY <1>2, <1>3, <1>4, <1>5 DEF LookupsAgree, ConfirmedByDeployment

\* A stored token that changes only its status and its transaction.
LEMMA TokenReplaced ==
  ASSUME NEW ba, NEW bs, TokensInv(ba, bs), NEW a \in Assets, ba[a] # None,
         NEW new \in TokenMetadata, new.asset = a, new.symbol = ba[a].symbol, new.address = ba[a].address,
         new.status \in Statuses
  PROVE  TokensInv([ba EXCEPT ![a] = new], [bs EXCEPT ![new.symbol] = new])
<1>1. PICK s \in Symbols : s = new.symbol
  BY DEF TokenMetadata
<1>2. PICK ba2, bs2 : ba2 = [ba EXCEPT ![a] = new] /\ bs2 = [bs EXCEPT ![s] = new]
  BY Zenon
<1>3. /\ ba2 \in [Assets -> TokenMetadata \cup {None}] /\ bs2 \in [Symbols -> TokenMetadata \cup {None}]
      /\ ba2[a] = new /\ \A b \in Assets : b # a => ba2[b] = ba[b]
      /\ bs2[s] = new /\ \A t \in Symbols : t # s => bs2[t] = bs[t]
  BY <1>2 DEF TokensInv
<1>4. new # None /\ \A b \in Assets : ba[b] # None => ba[b].symbol \in Symbols /\ (b # a => ba[b].symbol # s)
  <2>1. new # None
    BY NoneAssumption
  <2>2. ASSUME NEW b \in Assets, ba[b] # None
        PROVE  ba[b].symbol \in Symbols /\ ba[b].asset = b /\ bs[ba[b].symbol] = ba[b]
    BY <2>2 DEF TokensInv, TokenMetadata
  <2> QED
    BY <1>1, <2>1, <2>2
<1>5. ASSUME NEW b \in Assets, ba2[b] # None
      PROVE  /\ ba2[b].asset = b /\ bs2[ba2[b].symbol] = ba2[b]
             /\ ba2[b].status \in Statuses
             /\ ba2[b].address \in Addresses \/ (gateway # None /\ ba2[b].address = <<gateway, ba2[b].symbol>>)
  <2>1. CASE b = a
    BY <1>1, <1>3, <2>1 DEF TokensInv
  <2>2. CASE b # a
    BY <1>3, <1>4, <1>5, <2>2 DEF TokensInv
  <2> QED
    BY <2>1, <2>2
<1>6. ASSUME NEW t \in Symbols, bs2[t] # None
      PROVE  bs2[t].symbol = t /\ ba2[bs2[t].asset] = bs2[t]
  <2>1. CASE t = s
    BY <1>1, <1>3, <2>1
  <2>2. CASE t # s
    <3>1. bs2[t] = bs[t] /\ bs[t].symbol = t /\ ba[bs[t].asset] = bs[t] /\ bs[t].asset \in Assets
      BY <1>3, <1>6, <2>2 DEF TokensInv, TokenMetadata
    <3>2. bs[t].asset # a
      BY <1>1, <2>2, <3>1
    <3> QED
      BY <1>3, <3>1, <3>2
  <2> QED
    BY <2>1, <2>2
<1>7. \A b, c \in Assets : ba2[b] # None /\ ba2[c] # None /\ b # c => ba2[b].address # ba2[c].address
  <2>1. \A b \in Assets : ba2[b] # None => ba[b] # None /\ ba2[b].address = ba[b].address
    BY <1>3
  <2>2. \A b, c \in Assets : ba[b] # None /\ ba[c] # None /\ b # c => ba[b].address # ba[c].address
    BY DEF TokensInv
  <2> QED
    BY <2>1, <2>2
<1>8. gateway # None => gateway \in Gateways
  BY DEF TokensInv
<1>9. TokensInv(ba2, bs2)
  BY <1>3, <1>5, <1>6, <1>7, <1>8 DEF TokensInv
<1> QED
  BY <1>1, <1>2, <1>9

\* Logs and polls do not depend on the rest of the token.
LEMMA LogsKept ==
  ASSUME NEW ba, LogsInv(ba), NEW a \in Assets, ba[a] # None, NEW new \in TokenMetadata,
         ba \in [Assets -> TokenMetadata \cup {None}],
         new.symbol = ba[a].symbol, new.address = ba[a].address, new.status # Initialized
  PROVE  LogsInv([ba EXCEPT ![a] = new])
<1>1. PICK ba2 : ba2 = [ba EXCEPT ![a] = new]
  BY Zenon
<1>2. new # None /\ ba2[a] = new /\ \A b \in Assets : b # a => ba2[b] = ba[b]
  BY <1>1, NoneAssumption
<1>3. \A b \in Assets : ba[b] # None =>
         ba2[b] # None /\ ba2[b].symbol = ba[b].symbol /\ ba2[b].address = ba[b].address
  BY <1>2
<1>4. \A b \in Assets : ba[b] # None /\ ba[b].status # Initialized => ba2[b].status # Initialized
  BY <1>2
<1>5. LogsInv(ba2)
  BY <1>3, <1>4 DEF LogsInv
<1> QED
  BY <1>1, <1>5

\* The token of a log.
LEMMA TokenOfLog ==
  ASSUME NEW ba, NEW bs, TokensInv(ba, bs), LogsInv(ba), NEW log \in logs
  PROVE  \E a \in Assets \ commands : /\ ba[a] # None /\ ba[a] \in TokenMetadata /\ bs[log.symbol] = ba[a]
                                      /\ log.symbol \in Symbols /\ log.symbol = ba[a].symbol /\ log.address = ba[a].address
<1>1. PICK a \in Assets \ commands : ba[a] # None /\ log.symbol = ba[a].symbol /\ log.address = ba[a].address
  BY DEF LogsInv
<1> QED
  BY <1>1 DEF TokensInv, TokenMetadata

\* an event is applied, and those of P still wait
AppliedTo(ba, bs, ev, log, P) ==
    \E ba2, bs2, ev2 :
       /\ processConfirmedEvent([stores |-> [byAsset |-> ba, bySymbol |-> bs], events |-> ev], log)
             = [stores |-> [byAsset |-> ba2, bySymbol |-> bs2], events |-> ev2]
       /\ TokenState(ba2, bs2, ev2, P)

\* The event of a deployment that waits is completed, and its token is confirmed.
LEMMA Applied ==
  ASSUME NEW ba, NEW bs, NEW ev, NEW P, TokenState(ba, bs, ev, P), NEW log \in P
  PROVE  AppliedTo(ba, bs, ev, log, P \ {log})
<1>0. TokensInv(ba, bs) /\ LogsInv(ba) /\ EventsInv(ba, bs, ev, P)
  BY DEF TokenState
<1>1. log \in logs /\ log \in DOMAIN ev
  BY <1>0 DEF EventsInv
<1>2. PICK a \in Assets \ commands :
            /\ ba[a] # None /\ ba[a] \in TokenMetadata /\ bs[log.symbol] = ba[a]
            /\ log.symbol \in Symbols /\ log.symbol = ba[a].symbol /\ log.address = ba[a].address
  BY <1>0, <1>1, TokenOfLog
<1>3. PICK token : token = ba[a] /\ token # None /\ token \in TokenMetadata /\ token.asset = a
  BY <1>0, <1>2 DEF TokensInv
<1>4. token.status = Initialized \cup Pending
  BY <1>0, <1>2, <1>3 DEF EventsInv
<1>5. CanApply(token, log) /\ Token(token) = token
  BY <1>2, <1>3, <1>4, StatusFacts DEF CanApply, Is, Token
<1>6. PICK new : new = ConfirmDeployment(token)
  OBVIOUS
<1>7. new \in TokenMetadata /\ new.asset = a /\ new.symbol = token.symbol /\ new.address = token.address /\ new.status = Confirmed
  BY <1>3, <1>6, StatusFacts DEF ConfirmDeployment, TokenMetadata, Statuses
<1>8. PICK s \in Symbols : s = log.symbol /\ new.symbol = s
  BY <1>2, <1>3, <1>7
<1>9. PICK ba2, bs2, ev2 : /\ ba2 = [ba EXCEPT ![a] = new] /\ bs2 = [bs EXCEPT ![s] = new]
                           /\ ev2 = [ev EXCEPT ![log] = "completed"]
  BY Zenon
<1>10. processConfirmedEvent([stores |-> [byAsset |-> ba, bySymbol |-> bs], events |-> ev], log)
          = [stores |-> [byAsset |-> ba2, bySymbol |-> bs2], events |-> ev2]
  <2>1. bs[log.symbol] = token
    BY <1>2, <1>3
  <2> QED
    BY <1>5, <1>6, <1>7, <1>8, <1>9, <2>1 DEF processConfirmedEvent, setTokenMetadata
<1>11. TokensInv(ba2, bs2)
  BY <1>0, <1>2, <1>3, <1>7, <1>8, <1>9, TokenReplaced, Zenon DEF Statuses
<1>12. LogsInv(ba2)
  <2>1. ba \in [Assets -> TokenMetadata \cup {None}]
    BY <1>0 DEF TokensInv
  <2> QED
    BY <1>0, <1>2, <1>3, <1>7, <1>9, <2>1, LogsKept, StatusFacts, Zenon
<1>13. EventsInv(ba2, bs2, ev2, P \ {log})
  <2>0. PICK Q : Q = P \ {log}
    BY Zenon
  <2>1. /\ DOMAIN ev2 = DOMAIN ev /\ ev2 \in [DOMAIN ev2 -> {"confirmed", "completed"}]
        /\ ev2[log] = "completed" /\ \A l \in DOMAIN ev : l # log => ev2[l] = ev[l]
    BY <1>0, <1>1, <1>9 DEF EventsInv
  <2>2. Q \subseteq DOMAIN ev2 /\ DOMAIN ev2 \subseteq logs /\ \A l \in DOMAIN ev2 : ev2[l] = "confirmed" <=> l \in Q
    BY <1>0, <2>0, <2>1 DEF EventsInv
  <2>3. \A l, m \in logs : l.symbol = m.symbol => l = m
    BY <1>0 DEF LogsInv
  <2>4. ASSUME NEW l \in Q
        PROVE  bs2[l.symbol].status = Initialized \cup Pending
    <3>1. l \in logs /\ l.symbol # s /\ l \in P
      BY <1>1, <1>8, <2>0, <2>1, <2>2, <2>3
    <3>2. l.symbol \in Symbols
      BY <1>0, <3>1, TokenOfLog
    <3>3. bs2[l.symbol] = bs[l.symbol]
      BY <1>0, <1>9, <3>1, <3>2 DEF TokensInv
    <3> QED
      BY <1>0, <3>1, <3>3 DEF EventsInv
  <2>5. ASSUME NEW b \in Assets, ba2[b] # None
        PROVE  ba2[b].status = Confirmed <=> \E l \in DOMAIN ev2 : l.symbol = ba2[b].symbol /\ l \notin Q
    <3>1. CASE b = a
      <4>1. ba2[b] = new
        BY <1>0, <1>9, <3>1 DEF TokensInv
      <4> QED
        BY <1>1, <1>7, <1>8, <2>0, <2>1, <4>1
    <3>2. CASE b # a
      <4>1. ba2[b] = ba[b] /\ ba[b] # None
        BY <1>0, <1>9, <2>5, <3>2 DEF TokensInv
      <4>2. ba[b].symbol # s
        BY <1>0, <1>2, <1>8, <3>2, <4>1 DEF TokensInv
      <4>3. \A l \in DOMAIN ev : l.symbol = ba[b].symbol => (l \in P <=> l \in Q)
        BY <1>8, <2>0, <4>2
      <4>4. ba[b].status = Confirmed <=> \E l \in DOMAIN ev : l.symbol = ba[b].symbol /\ l \notin P
        BY <1>0, <4>1 DEF EventsInv
      <4> QED
        BY <2>1, <4>1, <4>3, <4>4
    <3> QED
      BY <3>1, <3>2
  <2>6. EventsInv(ba2, bs2, ev2, Q)
    BY <2>1, <2>2, <2>4, <2>5 DEF EventsInv
  <2> QED
    BY <2>0, <2>6
<1>14. TokenState(ba2, bs2, ev2, P \ {log})
  BY <1>11, <1>12, <1>13 DEF TokenState
<1> QED
  BY <1>10, <1>14 DEF AppliedTo

-----------------------------------------------------------------------------
(* The end blocker applies several events in one step.                     *)

LessThan == {p \in Nat \X Nat : p[1] < p[2]}

\* A non-empty set of naturals has a least element.
LEMMA LeastElement ==
  ASSUME NEW S, S \subseteq Nat, S # {}
  PROVE  \E n \in S : \A m \in S : n <= m
<1>1. IsWellFoundedOn(LessThan, Nat)
  BY NatLessThanWellFounded DEF OpToRel, LessThan
<1>2. PICK n \in S : \A m \in S : ~(<<m, n>> \in LessThan)
  BY <1>1, WFMin, Zenon
<1>3. \A m, k \in Nat : m < k => <<m, k>> \in LessThan
  BY Zenon DEF LessThan
<1>4. \A m \in S : ~(m < n) /\ m \in Nat /\ n \in Nat
  BY <1>2, <1>3, Zenon
<1> QED
  BY <1>4

\* f has the states after each of the first n events of q
Applies(start, q, n, f) ==
    f = [k \in 0..n |-> IF k = 0 THEN start ELSE processConfirmedEvent(f[k - 1], q[k])]

LEMMA AppliesExist ==
  ASSUME NEW start, NEW q
  PROVE  \A n \in Nat : \E f : Applies(start, q, n, f)
<1> DEFINE none == {n \in Nat : ~ \E f : Applies(start, q, n, f)}
<1> SUFFICES ASSUME none # {} PROVE FALSE
  OBVIOUS
<1>1. PICK n \in none : \A m \in none : n <= m
  BY LeastElement, Zenon
<1>2. n \in Nat /\ ~ \E f : Applies(start, q, n, f)
  OBVIOUS
<1>3. CASE n = 0
  <2> DEFINE f == [k \in 0..0 |-> start]
  <2>1. f = [k \in 0..0 |-> IF k = 0 THEN start ELSE processConfirmedEvent(f[k - 1], q[k])]
    OBVIOUS
  <2> QED
    BY <1>2, <1>3, <2>1, Zenon DEF Applies
<1>4. CASE n # 0
  <2>1. n - 1 \in Nat /\ n - 1 \notin none
    BY <1>1, <1>2, <1>4
  <2>2. PICK g : Applies(start, q, n - 1, g)
    BY <2>1
  <2> DEFINE f == [k \in 0..n |-> IF k = n THEN processConfirmedEvent(g[n - 1], q[n]) ELSE g[k]]
  <2>3. ASSUME NEW k \in 0..n
        PROVE  f[k] = IF k = 0 THEN start ELSE processConfirmedEvent(f[k - 1], q[k])
    <3>1. CASE k = n
      BY <1>2, <1>4, <3>1
    <3>2. CASE k # n
      <4>1. k \in 0..(n - 1)
        BY <1>2, <3>2
      <4>2. g[k] = IF k = 0 THEN start ELSE processConfirmedEvent(g[k - 1], q[k])
        BY <2>2, <4>1, Zenon DEF Applies
      <4>3. k # 0 => k - 1 \in 0..n /\ k - 1 # n
        BY <1>2, <4>1
      <4> QED
        BY <3>2, <4>2, <4>3
    <3> QED
      BY <3>1, <3>2
  <2>4. f = [k \in 0..n |-> f[k]]
    OBVIOUS
  <2> HIDE DEF f
  <2>5. Applies(start, q, n, f)
    BY <2>3, <2>4, Zenon DEF Applies
  <2> QED
    BY <1>2, <2>5
<1> QED
  BY <1>3, <1>4

Rest(k) == {queue[i] : i \in (k + 1)..Len(queue)}

Before == [stores |-> stored, events |-> events]

\* After each event the tokens are as they should be with the rest of the queue.
LEMMA AppliedAll ==
  ASSUME DeploymentInv, NEW n \in 0..Len(queue), NEW f,
         Applies(Before, queue, n, f)
  PROVE  \A k \in 0..n : \E ba, bs, ev :
            f[k] = [stores |-> [byAsset |-> ba, bySymbol |-> bs], events |-> ev] /\ TokenState(ba, bs, ev, Rest(k))
<1> DEFINE Good(k) == \E ba, bs, ev :
              f[k] = [stores |-> [byAsset |-> ba, bySymbol |-> bs], events |-> ev] /\ TokenState(ba, bs, ev, Rest(k))
           wrong == {k \in 0..n : ~Good(k)}
<1> SUFFICES ASSUME wrong # {} PROVE FALSE
  BY Zenon
<1>0. Len(queue) \in Nat /\ n \in Nat
  BY DEF DeploymentInv
<1>1. wrong \subseteq Nat
  BY <1>0
<1>2. PICK k \in wrong : \A l \in wrong : k <= l
  BY <1>1, LeastElement, Zenon
<1>3. k \in 0..n /\ ~Good(k)
  BY Zenon
<1> HIDE DEF Good, wrong
<1>4. \A l \in 0..n : f[l] = IF l = 0 THEN Before ELSE processConfirmedEvent(f[l - 1], queue[l])
  BY Zenon DEF Applies
<1>5. k # 0
  <2>1. f[0] = [stores |-> [byAsset |-> byAsset, bySymbol |-> bySymbol], events |-> events]
    BY <1>0, <1>4 DEF stored, Before
  <2>2. Rest(0) = Waiting
    BY DEF Rest, Waiting
  <2>3. TokenState(byAsset, bySymbol, events, Rest(0))
    BY <2>2 DEF DeploymentInv
  <2>4. Good(0)
    BY <2>1, <2>3 DEF Good
  <2> QED
    BY <1>3, <2>4
<1>6. k - 1 \in 0..n /\ k - 1 \notin wrong /\ k \in 1..Len(queue)
  BY <1>0, <1>2, <1>3, <1>5
<1>7. PICK ba, bs, ev : /\ f[k - 1] = [stores |-> [byAsset |-> ba, bySymbol |-> bs], events |-> ev]
                        /\ TokenState(ba, bs, ev, Rest(k - 1))
  <2>1. Good(k - 1)
    BY <1>6 DEF wrong
  <2> QED
    BY <2>1 DEF Good
<1>8. PICK log : log = queue[k]
  OBVIOUS
<1>9. log \in Rest(k - 1) /\ Rest(k - 1) \ {log} = Rest(k)
  <2>1. \A i, j \in 1..Len(queue) : queue[i] = queue[j] => i = j
    BY DEF DeploymentInv
  <2>2. (k - 1) + 1 = k /\ \A i \in k..Len(queue) : i \in 1..Len(queue) /\ (i = k \/ i \in (k + 1)..Len(queue))
    BY <1>0, <1>6
  <2>3. \A i \in (k + 1)..Len(queue) : i \in k..Len(queue) /\ i \in 1..Len(queue) /\ i # k
    BY <1>0, <1>6
  <2>4. k \in k..Len(queue)
    BY <1>0, <1>6
  <2> QED
    BY <1>6, <1>8, <2>1, <2>2, <2>3, <2>4 DEF Rest
<1>10. PICK ba2, bs2, ev2 :
            /\ processConfirmedEvent([stores |-> [byAsset |-> ba, bySymbol |-> bs], events |-> ev], log)
                  = [stores |-> [byAsset |-> ba2, bySymbol |-> bs2], events |-> ev2]
            /\ TokenState(ba2, bs2, ev2, Rest(k - 1) \ {log})
  <2>1. PICK P : P = Rest(k - 1)
    OBVIOUS
  <2>2. TokenState(ba, bs, ev, P) /\ log \in P
    BY <1>7, <1>9, <2>1
  <2>3. AppliedTo(ba, bs, ev, log, P \ {log})
    BY <2>2, Applied
  <2> QED
    BY <2>1, <2>3 DEF AppliedTo
<1>11. f[k] = [stores |-> [byAsset |-> ba2, bySymbol |-> bs2], events |-> ev2]
  BY <1>3, <1>4, <1>5, <1>7, <1>8, <1>10
<1>12. Good(k)
  BY <1>9, <1>10, <1>11, Zenon DEF Good
<1> QED
  BY <1>3, <1>12

LEMMA MinOfTwo ==
  ASSUME NEW m \in Nat, NEW n \in Nat
  PROVE  Min({m, n}) \in {m, n} /\ Min({m, n}) <= n
<1>1. \E x \in {m, n} : \A y \in {m, n} : x <= y
  OBVIOUS
<1> QED
  BY <1>1 DEF Min

LEMMA ProcessStep ==
  ASSUME DeploymentInv, processConfirmedEvents
  PROVE  DeploymentInv'
<1>0. Len(queue) \in Nat /\ queue \in Seq(logs)
  BY DEF DeploymentInv
<1>1. PICK n \in 0..Len(queue) : n = Min({EndBlockerLimit, Len(queue)})
  <2>1. Min({EndBlockerLimit, Len(queue)}) \in Nat /\ Min({EndBlockerLimit, Len(queue)}) <= Len(queue)
    BY <1>0, MinOfTwo, TokensAssumption
  <2> QED
    BY <1>0, <2>1
<1> DEFINE f == CHOOSE g : Applies(Before, queue, n, g)
<1>2. /\ Store(f[n].stores) /\ events' = f[n].events
      /\ queue' = SubSeq(queue, n + 1, Len(queue))
      /\ UNCHANGED <<activated, registered, gateway, commands, logs, polls>>
  BY <1>1 DEF processConfirmedEvents, Applies, Before
<1>3. Applies(Before, queue, n, f)
  <2>0. n \in Nat
    BY <1>0
  <2>1. \E g : Applies(Before, queue, n, g)
    BY <2>0, AppliesExist, Zenon
  <2> QED
    BY <2>1, Zenon
<1> HIDE DEF f
<1>4. PICK ba, bs, ev : f[n] = [stores |-> [byAsset |-> ba, bySymbol |-> bs], events |-> ev] /\ TokenState(ba, bs, ev, Rest(n))
  <2>1. n \in 0..n
    BY <1>0
  <2> QED
    BY <1>3, <2>1, AppliedAll, Zenon
<1>5. byAsset' = ba /\ bySymbol' = bs /\ events' = ev
  BY <1>2, <1>4 DEF Store
<1>6. /\ queue' \in Seq(logs) /\ Len(queue') = Len(queue) - n
      /\ \A i \in 1..Len(queue') : queue'[i] = queue[n + i] /\ n + i \in 1..Len(queue)
  BY <1>0, <1>2
<1>7. Waiting' = Rest(n)
  <2>1. \A i \in 1..Len(queue') : n + i \in (n + 1)..Len(queue)
    BY <1>0, <1>6
  <2>2. \A i \in (n + 1)..Len(queue) : i - n \in 1..Len(queue') /\ n + (i - n) = i
    BY <1>0, <1>6
  <2>3. \A l \in Waiting' : l \in Rest(n)
    BY <1>6, <2>1 DEF Waiting, Rest
  <2>4. \A l \in Rest(n) : l \in Waiting'
    <3> SUFFICES ASSUME NEW i \in (n + 1)..Len(queue)
                 PROVE  queue[i] \in Waiting'
      BY DEF Rest
    <3>1. queue'[i - n] = queue[i]
      BY <1>6, <2>2
    <3> QED
      BY <2>2, <3>1 DEF Waiting
  <2> QED
    BY <2>3, <2>4, Zenon
<1>8. \A i, j \in 1..Len(queue') : queue'[i] = queue'[j] => i = j
  BY <1>0, <1>6 DEF DeploymentInv
<1>9. TokenState(byAsset, bySymbol, events, Waiting)'
  BY <1>2, <1>4, <1>5, <1>7 DEF TokenState, TokensInv, LogsInv, EventsInv
<1> QED
  BY <1>2, <1>6, <1>8, <1>9, Zenon DEF DeploymentInv

-----------------------------------------------------------------------------
(* The other steps.                                                        *)

\* What is not read by a step stays as it is.
LEMMA DeploymentKept ==
  ASSUME DeploymentInv, UNCHANGED <<gateway, byAsset, bySymbol, commands, logs, polls, events, queue>>
  PROVE  DeploymentInv'
<1> USE DEF DeploymentInv, TokenState
<1>1. TokensInv(byAsset, bySymbol)'
  BY Zenon DEF TokensInv
<1>2. LogsInv(byAsset)'
  BY DEF LogsInv
<1>3. EventsInv(byAsset, bySymbol, events, Waiting)'
  BY DEF EventsInv, Waiting
<1> QED
  BY <1>1, <1>2, <1>3

\* No token has an address of the gateway before it is set.
LEMMA GatewayStep ==
  ASSUME DeploymentInv, NEW g \in Gateways, SetGateway(g)
  PROVE  DeploymentInv'
<1>1. UNCHANGED <<byAsset, bySymbol, commands, logs, polls, events, queue>> /\ gateway = None /\ gateway' = g
  BY DEF SetGateway
<1>2. TokensInv(byAsset, bySymbol)'
  BY <1>1 DEF DeploymentInv, TokenState, TokensInv
<1> QED
  BY <1>1, <1>2 DEF DeploymentInv, TokenState, LogsInv, EventsInv, Waiting

\* initTokenMetadata refuses an asset or a symbol that has a token.
LEMMA NotStored ==
  ASSUME DeploymentInv, NEW asset \in Assets, NEW symbol \in Symbols, NEW address,
         initTokenMetadata(asset, symbol, address)
  PROVE  byAsset[asset] = None /\ bySymbol[symbol] = None
<1>1. /\ \A a \in Assets : byAsset[a] # None => byAsset[a].status \in Statuses
      /\ \A s \in Symbols : bySymbol[s] # None => bySymbol[s].status \in Statuses
  BY DEF DeploymentInv, TokenState, TokensInv, TokenMetadata
<1>2. NonExistent \notin Statuses
  BY StatusFacts DEF Statuses
<1>3. Is(Token(byAsset[asset]), NonExistent) /\ Is(Token(bySymbol[symbol]), NonExistent)
  BY DEF initTokenMetadata
<1> QED
  BY <1>1, <1>2, <1>3 DEF Is, Token

LEMMA CreateStep ==
  ASSUME DeploymentInv, NEW asset \in Assets, NEW symbol \in Symbols, NEW address \in Addresses \cup {Zero},
         CreateDeployToken(asset, symbol, address)
  PROVE  DeploymentInv'
<1>0. TokensInv(byAsset, bySymbol) /\ LogsInv(byAsset) /\ EventsInv(byAsset, bySymbol, events, Waiting)
  BY DEF DeploymentInv, TokenState
<1>1. PICK new : new = [asset |-> asset, symbol |-> symbol, status |-> Initialized, txHash |-> None,
                        address |-> IF address = Zero THEN getTokenAddress(symbol) ELSE address]
  BY Zenon
<1>2. /\ new.asset = asset /\ new.symbol = symbol /\ new.status = Initialized
      /\ new.address = IF address = Zero THEN <<gateway, symbol>> ELSE address
  BY <1>1 DEF getTokenAddress
<1>3. initTokenMetadata(asset, symbol, address) /\ CanDeploy(asset, address)
  BY DEF CreateDeployToken
<1>4. byAsset[asset] = None /\ bySymbol[symbol] = None
  BY <1>3, NotStored
<1>5. /\ byAsset' = [byAsset EXCEPT ![asset] = new] /\ bySymbol' = [bySymbol EXCEPT ![symbol] = new]
      /\ commands' = commands \cup {asset} /\ UNCHANGED <<gateway, logs, polls, events, queue>>
  BY <1>1, <1>2, <1>3 DEF initTokenMetadata, setTokenMetadata, Store, stored, CreateDeployToken
<1>6. new.address \in Addresses \/ (gateway # None /\ gateway \in Gateways /\ address = Zero /\ new.address = <<gateway, symbol>>)
  BY <1>0, <1>2, <1>3, Zenon DEF TokensInv, initTokenMetadata
<1>7. new \in TokenMetadata /\ new # None
  <2>1. new.address \in Addresses \cup (Gateways \X Symbols)
    BY <1>6
  <2>2. Initialized \in SUBSET (Initialized \cup Pending \cup Confirmed)
    OBVIOUS
  <2>3. PICK where : where = new.address
    OBVIOUS
  <2>4. new = [asset |-> asset, symbol |-> symbol, status |-> Initialized, txHash |-> None, address |-> where]
    BY <1>1, <2>3
  <2>5. new \in TokenMetadata
    BY <2>1, <2>2, <2>3, <2>4 DEF TokenMetadata
  <2> QED
    BY <2>5, NoneAssumption
<1>8. /\ byAsset'[asset] = new /\ \A b \in Assets : b # asset => byAsset'[b] = byAsset[b]
      /\ bySymbol'[symbol] = new /\ \A t \in Symbols : t # symbol => bySymbol'[t] = bySymbol[t]
      /\ byAsset' \in [Assets -> TokenMetadata \cup {None}] /\ bySymbol' \in [Symbols -> TokenMetadata \cup {None}]
  BY <1>0, <1>5, <1>7 DEF TokensInv
<1>9. \A b \in Assets : byAsset[b] # None => /\ b # asset /\ byAsset[b].symbol \in Symbols
                                             /\ byAsset[b].symbol # symbol /\ byAsset[b].address # new.address
  <2> SUFFICES ASSUME NEW b \in Assets, byAsset[b] # None
               PROVE  /\ b # asset /\ byAsset[b].symbol \in Symbols
                      /\ byAsset[b].symbol # symbol /\ byAsset[b].address # new.address
    OBVIOUS
  <2>1. b # asset
    BY <1>4
  <2>2. byAsset[b].symbol \in Symbols /\ byAsset[b].symbol # symbol
    BY <1>0, <1>4 DEF TokensInv, TokenMetadata
  <2>3. byAsset[b].address \in Addresses \/ (gateway # None /\ byAsset[b].address = <<gateway, byAsset[b].symbol>>)
    BY <1>0 DEF TokensInv
  <2>4. CASE address = Zero
    <3>1. new.address = <<gateway, symbol>> /\ <<gateway, symbol>> \in Gateways \X Symbols
      BY <1>0, <1>2, <1>3, <2>4 DEF TokensInv, initTokenMetadata
    <3>2. <<gateway, symbol>> \notin Addresses /\ <<gateway, symbol>> # <<gateway, byAsset[b].symbol>>
      BY <2>2, <3>1, TokensAssumption
    <3> QED
      BY <2>1, <2>2, <2>3, <3>1, <3>2, Zenon
  <2>5. CASE address # Zero
    BY <1>2, <1>3, <2>1, <2>2, <2>5 DEF CanDeploy
  <2> QED
    BY <2>4, <2>5
<1>10. TokensInv(byAsset, bySymbol)'
  <2>1. ASSUME NEW b \in Assets, byAsset'[b] # None
        PROVE  /\ byAsset'[b].asset = b /\ bySymbol'[byAsset'[b].symbol] = byAsset'[b]
               /\ byAsset'[b].status \in Statuses
               /\ \/ byAsset'[b].address \in Addresses
                  \/ gateway # None /\ byAsset'[b].address = <<gateway, byAsset'[b].symbol>>
    <3>1. CASE b = asset
      BY <1>2, <1>6, <1>8, <3>1 DEF Statuses
    <3>2. CASE b # asset
      BY <1>0, <1>8, <1>9, <2>1, <3>2 DEF TokensInv
    <3> QED
      BY <3>1, <3>2
  <2>2. ASSUME NEW t \in Symbols, bySymbol'[t] # None
        PROVE  bySymbol'[t].symbol = t /\ byAsset'[bySymbol'[t].asset] = bySymbol'[t]
    <3>1. CASE t = symbol
      BY <1>2, <1>8, <3>1
    <3>2. CASE t # symbol
      <4>1. /\ bySymbol'[t] = bySymbol[t] /\ bySymbol[t].symbol = t /\ bySymbol[t].asset \in Assets
            /\ byAsset[bySymbol[t].asset] = bySymbol[t] /\ bySymbol[t] # None
        BY <1>0, <1>8, <2>2, <3>2 DEF TokensInv, TokenMetadata
      <4>2. bySymbol[t].asset # asset
        BY <1>4, <4>1
      <4> QED
        BY <1>8, <4>1, <4>2
    <3> QED
      BY <3>1, <3>2
  <2>3. ASSUME NEW b \in Assets, NEW c \in Assets, byAsset'[b] # None, byAsset'[c] # None, b # c
        PROVE  byAsset'[b].address # byAsset'[c].address
    BY <1>0, <1>8, <1>9, <2>3 DEF TokensInv
  <2>4. gateway' = gateway /\ (gateway # None => gateway \in Gateways)
    BY <1>0, <1>5 DEF TokensInv
  <2> QED
    BY <1>8, <2>1, <2>2, <2>3, <2>4 DEF TokensInv
<1>11. LogsInv(byAsset)'
  <2>1. \A a \in commands' : a \in Assets /\ byAsset'[a] # None
    BY <1>0, <1>5, <1>7, <1>8 DEF LogsInv
  <2>2. ASSUME NEW log \in logs
        PROVE  \E a \in Assets \ commands' :
                  byAsset'[a] # None /\ log.symbol = byAsset'[a].symbol /\ log.address = byAsset'[a].address
    BY <1>0, <1>4, <1>5, <1>8 DEF LogsInv
  <2>3. \A a \in Assets, tx \in Txs : polls[<<a, tx>>] > 0 => byAsset'[a] # None /\ byAsset'[a].status # Initialized
    BY <1>0, <1>4, <1>8 DEF LogsInv
  <2> QED
    BY <1>0, <1>5, <2>1, <2>2, <2>3 DEF LogsInv
<1>12. EventsInv(byAsset, bySymbol, events, Waiting)'
  <2>1. events' = events /\ Waiting' = Waiting /\ logs' = logs
    BY <1>5, Zenon DEF Waiting
  <2>2. \A l \in logs : l.symbol \in Symbols /\ l.symbol # symbol
    BY <1>0, <1>9 DEF LogsInv
  <2>3. Waiting \subseteq DOMAIN events /\ DOMAIN events \subseteq logs
    BY <1>0 DEF EventsInv
  <2>4. \A l \in Waiting : bySymbol'[l.symbol].status = Initialized \cup Pending
    BY <1>0, <1>8, <2>2, <2>3 DEF EventsInv
  <2>5. ASSUME NEW a \in Assets, byAsset'[a] # None
        PROVE  byAsset'[a].status = Confirmed <=> \E l \in DOMAIN events : l.symbol = byAsset'[a].symbol /\ l \notin Waiting
    <3>1. CASE a = asset
      BY <1>2, <1>8, <2>2, <2>3, <3>1, StatusFacts
    <3>2. CASE a # asset
      BY <1>0, <1>8, <2>5, <3>2 DEF EventsInv
    <3> QED
      BY <3>1, <3>2
  <2> QED
    BY <1>0, <2>1, <2>4, <2>5, Zenon DEF EventsInv
<1>13. UNCHANGED <<queue, logs>>
  BY <1>5
<1> QED
  BY <1>10, <1>11, <1>12, <1>13 DEF DeploymentInv, TokenState

LEMMA ConfirmStep ==
  ASSUME DeploymentInv, NEW asset \in Assets, NEW tx \in Txs, ConfirmToken(asset, tx)
  PROVE  DeploymentInv'
<1>0. TokensInv(byAsset, bySymbol) /\ LogsInv(byAsset) /\ EventsInv(byAsset, bySymbol, events, Waiting)
  BY DEF DeploymentInv, TokenState
<1>1. byAsset[asset] # None
  BY Zenon DEF ConfirmToken, CanRecord, Token, Is
<1>2. PICK token \in TokenMetadata : token = byAsset[asset] /\ token.asset = asset /\ token.status \in Statuses
  BY <1>0, <1>1 DEF TokensInv
<1>3. Token(byAsset[asset]) = token
  BY <1>1, <1>2 DEF Token
<1>4. CanRecord(token)
  BY <1>3 DEF ConfirmToken
<1>5. token.status = Initialized \/ token.status = Initialized \cup Pending
  BY <1>2, <1>4, StatusFacts DEF CanRecord, Is, Statuses
<1>6. PICK new : new = RecordDeployment(token, tx)
  OBVIOUS
<1>7. /\ new \in TokenMetadata /\ new.asset = asset /\ new.symbol = token.symbol /\ new.address = token.address
      /\ new.status = Initialized \cup Pending
  <2>1. Initialized \cup Pending \in SUBSET (Initialized \cup Pending \cup Confirmed)
    OBVIOUS
  <2>2. token.status \cup Pending = Initialized \cup Pending
    BY <1>5
  <2>3. PICK status : status = Initialized \cup Pending
    BY Zenon
  <2>4. new = [token EXCEPT !.txHash = tx, !.status = status]
    BY <1>6, <2>2, <2>3, Zenon DEF RecordDeployment
  <2> QED
    BY <1>2, <2>1, <2>3, <2>4, Zenon DEF TokenMetadata
<1>8. PICK s \in Symbols : s = new.symbol /\ s = token.symbol
  BY <1>7 DEF TokenMetadata
<1>9. /\ byAsset' = [byAsset EXCEPT ![asset] = new] /\ bySymbol' = [bySymbol EXCEPT ![s] = new]
      /\ polls' = [polls EXCEPT ![<<asset, tx>>] = @ + 1] /\ UNCHANGED <<gateway, commands, logs, events, queue>>
  BY <1>3, <1>6, <1>7, <1>8 DEF ConfirmToken, Store, setTokenMetadata, stored
<1>10. TokensInv([byAsset EXCEPT ![asset] = new], [bySymbol EXCEPT ![new.symbol] = new])
  BY <1>0, <1>1, <1>2, <1>7, TokenReplaced DEF Statuses
<1>11. TokensInv(byAsset', bySymbol')
  BY <1>8, <1>9, <1>10
<1>12. LogsInv([byAsset EXCEPT ![asset] = new])
  <2>1. byAsset \in [Assets -> TokenMetadata \cup {None}]
    BY <1>0 DEF TokensInv
  <2> QED
    BY <1>0, <1>1, <1>2, <1>7, <2>1, LogsKept, StatusFacts, Zenon
<1>13. LogsInv(byAsset')
  BY <1>9, <1>12
<1>14. new # None
  BY <1>7, NoneAssumption, Zenon
<1>15. /\ byAsset'[asset] = new /\ \A b \in Assets : b # asset => byAsset'[b] = byAsset[b]
       /\ bySymbol'[s] = new /\ \A t \in Symbols : t # s => bySymbol'[t] = bySymbol[t]
  BY <1>0, <1>9 DEF TokensInv
<1>16. LogsInv(byAsset)'
  <2>1. polls' \in [Assets \X Txs -> Nat]
    BY <1>0, <1>9 DEF LogsInv
  <2>2. ASSUME NEW a \in Assets, NEW t \in Txs, polls'[<<a, t>>] > 0
        PROVE  byAsset'[a] # None /\ byAsset'[a].status # Initialized
    <3>1. CASE a = asset
      BY <1>7, <1>14, <1>15, <3>1, StatusFacts
    <3>2. CASE a # asset
      <4>1. polls'[<<a, t>>] = polls[<<a, t>>]
        BY <1>0, <1>9, <3>2 DEF LogsInv
      <4> QED
        BY <1>0, <1>15, <2>2, <3>2, <4>1 DEF LogsInv
    <3> QED
      BY <3>1, <3>2
  <2> QED
    BY <1>9, <1>13, <2>1, <2>2, Zenon DEF LogsInv
<1>17. EventsInv(byAsset, bySymbol, events, Waiting)'
  <2>1. events' = events /\ Waiting' = Waiting /\ logs' = logs
    BY <1>9 DEF Waiting
  <2>2. Waiting \subseteq DOMAIN events /\ DOMAIN events \subseteq logs
    BY <1>0 DEF EventsInv
  <2>3. \A l \in logs : l.symbol \in Symbols
    BY <1>0, TokenOfLog
  <2>4. \A l \in Waiting : bySymbol'[l.symbol].status = Initialized \cup Pending
    BY <1>0, <1>7, <1>15, <2>2, <2>3 DEF EventsInv
  <2>5. ASSUME NEW a \in Assets, byAsset'[a] # None
        PROVE  byAsset'[a].status = Confirmed <=> \E l \in DOMAIN events : l.symbol = byAsset'[a].symbol /\ l \notin Waiting
    <3>1. CASE a = asset
      <4>1. byAsset'[a].status # Confirmed /\ byAsset[a].status # Confirmed /\ byAsset'[a].symbol = byAsset[a].symbol
        BY <1>2, <1>5, <1>7, <1>15, <3>1, StatusFacts
      <4> QED
        BY <1>0, <1>1, <3>1, <4>1 DEF EventsInv
    <3>2. CASE a # asset
      BY <1>0, <1>15, <2>5, <3>2 DEF EventsInv
    <3> QED
      BY <3>1, <3>2
  <2> QED
    BY <1>0, <2>1, <2>4, <2>5 DEF EventsInv
<1>18. TokensInv(byAsset, bySymbol)'
  BY <1>9, <1>11 DEF TokensInv
<1> QED
  BY <1>9, <1>16, <1>17, <1>18 DEF DeploymentInv, TokenState

LEMMA ExecuteStep ==
  ASSUME DeploymentInv, NEW assets \in SUBSET commands, NEW tx \in Txs, Execute(assets, tx)
  PROVE  DeploymentInv'
<1>0. TokensInv(byAsset, bySymbol) /\ LogsInv(byAsset) /\ EventsInv(byAsset, bySymbol, events, Waiting)
  BY DEF DeploymentInv, TokenState
<1> DEFINE LogOf(a) == [tx |-> tx, symbol |-> byAsset[a].symbol, address |-> byAsset[a].address]
<1>1. /\ commands' = commands \ assets
      /\ logs' = logs \cup {LogOf(a) : a \in assets}
      /\ UNCHANGED <<gateway, byAsset, bySymbol, polls, events, queue>>
  BY DEF Execute
<1>2. \A a \in commands : a \in Assets /\ byAsset[a] # None
  BY <1>0 DEF LogsInv
<1>3. \A a, b \in Assets : byAsset[a] # None /\ byAsset[b] # None /\ byAsset[a].symbol = byAsset[b].symbol => a = b
  <2>1. \A a \in Assets : byAsset[a] # None => byAsset[a].asset = a /\ bySymbol[byAsset[a].symbol] = byAsset[a]
    BY <1>0 DEF TokensInv
  <2> QED
    BY <2>1
<1>4. \A a \in assets : LogOf(a).symbol = byAsset[a].symbol /\ LogOf(a).address = byAsset[a].address
  OBVIOUS
<1> HIDE DEF LogOf
<1>5. ASSUME NEW log \in logs'
      PROVE  \E a \in Assets \ commands' :
                byAsset[a] # None /\ log.symbol = byAsset[a].symbol /\ log.address = byAsset[a].address
  <2>1. CASE log \in logs
    BY <1>0, <1>1, <2>1 DEF LogsInv
  <2>2. CASE log \notin logs
    BY <1>1, <1>2, <1>4, <2>2
  <2> QED
    BY <2>1, <2>2
<1>6. ASSUME NEW l \in logs', NEW m \in logs', l.symbol = m.symbol
      PROVE  l = m
  <2>1. ASSUME NEW a \in assets, NEW k \in logs
        PROVE  k.symbol # LogOf(a).symbol
    <3>1. PICK b \in Assets \ commands : byAsset[b] # None /\ k.symbol = byAsset[b].symbol
      BY <1>0 DEF LogsInv
    <3>2. a \in commands /\ a \in Assets /\ byAsset[a] # None
      BY <1>2
    <3> QED
      BY <1>3, <1>4, <3>1, <3>2
  <2>2. CASE l \in logs /\ m \in logs
    BY <1>0, <1>6, <2>2 DEF LogsInv
  <2>3. ASSUME NEW a \in assets, NEW b \in assets, l = LogOf(a), m = LogOf(b)
        PROVE  l = m
    BY <1>2, <1>3, <1>4, <1>6, <2>3
  <2> QED
    BY <1>1, <1>6, <2>1, <2>2, <2>3
<1>7. LogsInv(byAsset)'
  BY <1>0, <1>1, <1>2, <1>5, <1>6 DEF LogsInv
<1>8. TokensInv(byAsset, bySymbol)'
  BY <1>0, <1>1 DEF TokensInv
<1>9. EventsInv(byAsset, bySymbol, events, Waiting)'
  BY <1>0, <1>1 DEF EventsInv, Waiting
<1>10. queue' \in Seq(logs') /\ queue' = queue
  <2>1. queue \in Seq(logs) /\ logs \subseteq logs'
    BY <1>1 DEF DeploymentInv
  <2> QED
    BY <1>1, <2>1
<1> QED
  BY <1>7, <1>8, <1>9, <1>10 DEF DeploymentInv, TokenState

\* A new event is that of a token whose confirmation was started, and which no event
\* has confirmed: a token has only one log.
LEMMA ResultStep ==
  ASSUME DeploymentInv, NEW asset \in Assets, NEW tx \in Txs, polls[<<asset, tx>>] > 0,
         NEW log \in processTokenConfirmationLogs(asset, tx), log \notin DOMAIN events
  PROVE  /\ log \in logs /\ log \notin Waiting
         /\ \A ev : ev = [l \in DOMAIN events \cup {log} |-> IF l = log THEN "confirmed" ELSE events[l]]
               => EventsInv(byAsset, bySymbol, ev, Waiting \cup {log})
<1>0. TokensInv(byAsset, bySymbol) /\ LogsInv(byAsset) /\ EventsInv(byAsset, bySymbol, events, Waiting)
  BY DEF DeploymentInv, TokenState
<1>1. log \in logs /\ log \notin Waiting /\ log.symbol = byAsset[asset].symbol
  BY <1>0 DEF EventsInv, processTokenConfirmationLogs
<1>2. byAsset[asset] # None /\ byAsset[asset].status # Initialized /\ byAsset[asset].status \in Statuses
  BY <1>0 DEF LogsInv, TokensInv
<1>3. bySymbol[log.symbol] = byAsset[asset]
  BY <1>0, <1>1, <1>2 DEF TokensInv
<1>4. \A l \in DOMAIN events : l.symbol # log.symbol
  <2>1. \A l, m \in logs : l.symbol = m.symbol => l = m
    BY <1>0 DEF LogsInv
  <2>2. DOMAIN events \subseteq logs
    BY <1>0 DEF EventsInv
  <2> QED
    BY <1>1, <2>1, <2>2
<1>5. byAsset[asset].status = Initialized \cup Pending
  <2>1. byAsset[asset].status # Confirmed
    BY <1>0, <1>1, <1>2, <1>4 DEF EventsInv
  <2> QED
    BY <1>2, <2>1 DEF Statuses
<1>6. ASSUME NEW ev, ev = [l \in DOMAIN events \cup {log} |-> IF l = log THEN "confirmed" ELSE events[l]]
      PROVE  EventsInv(byAsset, bySymbol, ev, Waiting \cup {log})
  <2>1. PICK P : P = Waiting \cup {log}
    BY Zenon
  <2>2. /\ DOMAIN ev = DOMAIN events \cup {log} /\ ev[log] = "confirmed" /\ \A l \in DOMAIN events : ev[l] = events[l]
        /\ ev \in [DOMAIN ev -> {"confirmed", "completed"}]
    BY <1>0, <1>6 DEF EventsInv
  <2>3. P \subseteq DOMAIN ev /\ DOMAIN ev \subseteq logs /\ \A l \in DOMAIN ev : ev[l] = "confirmed" <=> l \in P
    BY <1>0, <1>1, <2>1, <2>2 DEF EventsInv
  <2>4. \A l \in P : bySymbol[l.symbol].status = Initialized \cup Pending
    BY <1>0, <1>3, <1>5, <2>1 DEF EventsInv
  <2>5. ASSUME NEW a \in Assets, byAsset[a] # None
        PROVE  byAsset[a].status = Confirmed <=> \E l \in DOMAIN ev : l.symbol = byAsset[a].symbol /\ l \notin P
    <3>1. byAsset[a].status = Confirmed <=> \E l \in DOMAIN events : l.symbol = byAsset[a].symbol /\ l \notin Waiting
      BY <1>0, <2>5 DEF EventsInv
    <3>2. \A l : l \in DOMAIN ev /\ l \notin P <=> l \in DOMAIN events /\ l \notin Waiting
      BY <2>1, <2>2
    <3> QED
      BY <3>1, <3>2
  <2>6. EventsInv(byAsset, bySymbol, ev, P)
    BY <2>2, <2>3, <2>4, <2>5 DEF EventsInv
  <2> QED
    BY <2>1, <2>6
<1> QED
  BY <1>1, <1>6

LEMMA PollStep ==
  ASSUME DeploymentInv, NEW asset \in Assets, NEW tx \in Txs, EndPoll(asset, tx)
  PROVE  DeploymentInv'
<1>0. TokensInv(byAsset, bySymbol) /\ LogsInv(byAsset) /\ EventsInv(byAsset, bySymbol, events, Waiting)
  BY DEF DeploymentInv, TokenState
<1>1. /\ polls[<<asset, tx>>] > 0 /\ polls' = [polls EXCEPT ![<<asset, tx>>] = @ - 1]
      /\ UNCHANGED <<gateway, byAsset, bySymbol, commands, logs>>
  BY DEF EndPoll
<1>2. TokensInv(byAsset, bySymbol)'
  BY <1>0, <1>1, Zenon DEF TokensInv
<1>3. LogsInv(byAsset)'
  <2>1. polls \in [Assets \X Txs -> Nat] /\ <<asset, tx>> \in Assets \X Txs
    BY <1>0, Zenon DEF LogsInv
  <2>2. polls' \in [Assets \X Txs -> Nat]
    BY <1>1, <2>1
  <2>3. \A a \in Assets, t \in Txs : polls'[<<a, t>>] > 0 => polls[<<a, t>>] > 0
    BY <1>1, <2>1
  <2> QED
    BY <1>0, <1>1, <2>2, <2>3, Zenon DEF LogsInv
<1>4. CASE UNCHANGED <<events, queue>>
  <2>1. EventsInv(byAsset, bySymbol, events, Waiting)'
    BY <1>0, <1>1, <1>4 DEF EventsInv, Waiting
  <2> QED
    BY <1>1, <1>2, <1>3, <1>4, <2>1 DEF DeploymentInv, TokenState
<1>5. ASSUME NEW log \in processTokenConfirmationLogs(asset, tx), log \notin DOMAIN events,
             events' = [l \in DOMAIN events \cup {log} |-> IF l = log THEN "confirmed" ELSE events[l]],
             queue' = Append(queue, log)
      PROVE  DeploymentInv'
  <2>1. log \in logs /\ log \notin Waiting /\ EventsInv(byAsset, bySymbol, events', Waiting \cup {log})
    BY <1>1, <1>5, ResultStep, Zenon
  <2>2. queue \in Seq(logs) /\ \A i, j \in 1..Len(queue) : queue[i] = queue[j] => i = j
    BY DEF DeploymentInv
  <2>3. /\ queue' \in Seq(logs) /\ Len(queue') = Len(queue) + 1 /\ Len(queue) \in Nat
        /\ queue'[Len(queue) + 1] = log /\ \A i \in 1..Len(queue) : queue'[i] = queue[i]
    BY <1>5, <2>1, <2>2
  <2>4. \A i \in 1..Len(queue') : i \in 1..Len(queue) \/ i = Len(queue) + 1
    BY <2>3
  <2>5. 1..Len(queue) \subseteq 1..Len(queue') /\ Len(queue) + 1 \in 1..Len(queue')
    BY <2>3
  <2>6. Waiting' = Waiting \cup {log}
    BY <2>3, <2>4, <2>5 DEF Waiting
  <2>7. \A i \in 1..Len(queue) : queue[i] \in Waiting
    BY DEF Waiting
  <2>8. \A i, j \in 1..Len(queue') : queue'[i] = queue'[j] => i = j
    BY <2>1, <2>2, <2>3, <2>4, <2>7
  <2>9. EventsInv(byAsset, bySymbol, events, Waiting)'
    BY <1>1, <2>1, <2>6 DEF EventsInv
  <2> QED
    BY <1>1, <1>2, <1>3, <2>3, <2>8, <2>9, Zenon DEF DeploymentInv, TokenState
<1> QED
  BY <1>4, <1>5, Zenon DEF EndPoll, HandleResult

LEMMA DeploymentStep ==
  ASSUME DeploymentInv, [Next]_vars
  PROVE  DeploymentInv'
<1>1. ASSUME ActivateChain \/ DeactivateChain \/ UNCHANGED vars
      PROVE  DeploymentInv'
  BY <1>1, DeploymentKept DEF ActivateChain, DeactivateChain, vars
<1> QED
  BY <1>1, GatewayStep, CreateStep, ConfirmStep, PollStep, ExecuteStep, ProcessStep DEF Next

LEMMA DeploymentStart == Init => DeploymentInv
<1> SUFFICES ASSUME Init PROVE DeploymentInv
  OBVIOUS
<1> USE DEF Init
<1>1. Waiting = {} /\ queue \in Seq(logs) /\ \A i, j \in 1..Len(queue) : queue[i] = queue[j] => i = j
  BY DEF Waiting
<1>2. TokensInv(byAsset, bySymbol)
  BY DEF TokensInv
<1>3. LogsInv(byAsset)
  BY DEF LogsInv
<1>4. EventsInv(byAsset, bySymbol, events, {})
  BY DEF EventsInv
<1> QED
  BY <1>1, <1>2, <1>3, <1>4 DEF DeploymentInv, TokenState

(* LookupsAgree, for every instance: setTokenMetadata keeps the lookup by  *)
(* asset and the lookup by symbol equal, and CreateDeployToken gives no    *)
(* two tokens the same symbol or address.                                  *)
THEOREM OneTokenPerLookup == Spec => []LookupsAgree
<1>1. DeploymentInv => LookupsAgree
  BY DeploymentHolds
<1> QED
  BY <1>1, DeploymentStart, DeploymentStep, PTL DEF Spec

(* ConfirmedByDeployment, for every instance: whatever polls run and       *)
(* whatever ConfirmToken starts again, applyTokenDeployment confirms a     *)
(* token once, with the event of the token's own deployment, and no such   *)
(* event fails.                                                            *)
THEOREM DeployedAreConfirmed == Spec => []ConfirmedByDeployment
<1>1. DeploymentInv => ConfirmedByDeployment
  BY DeploymentHolds
<1> QED
  BY <1>1, DeploymentStart, DeploymentStep, PTL DEF Spec
=============================================================================
