--------------------------- MODULE ChainMaintainers ---------------------------
(***************************************************************************)
(* The validators of an EVM chain: proxies (x/snapshot), the registration  *)
(* of chain maintainers, the activation of the chain and the removal of    *)
(* maintainers who miss votes or vote incorrectly (x/nexus), the rewards   *)
(* that maintainers collect and lose (x/reward), and the handling of       *)
(* closed polls that marks the votes (x/evm).                              *)
(*                                                                         *)
(* One chain, one open poll at a time.  The end blockers of x/nexus and    *)
(* x/reward are one step, the closing of a poll by the end blocker of      *)
(* x/vote is another.  A validator who is not bonded stands for one who is *)
(* jailed or tombstoned as well.                                           *)
(***************************************************************************)
EXTENDS Integers, Sequences, FiniteSetsExt, Functions, Snapshot, CircularBuffer

CONSTANTS
    Validators, Proxies,
    Weight,                    \* weight of every validator while it is bonded
    OtherWeight,               \* weight of further maintainers who are always in good standing
    ActivationThreshold,       \* parameters of x/nexus
    MissingThreshold, IncorrectThreshold,
    Window,
    VotingThreshold,           \* parameter of the EVM chain
    OldMaxSize, MaxSize,       \* size of the bitmaps before and after the migration
    MarkBound                  \* bound on the votes marked in a registration

ASSUME MaintainersAssumption ==
    /\ Weight \in [Validators -> Nat] /\ OtherWeight \in Nat \ {0}
    /\ \A t \in {ActivationThreshold, VotingThreshold, MissingThreshold, IncorrectThreshold} : IsThreshold(t)
    /\ OldMaxSize \in Nat /\ MaxSize \in 1..OldMaxSize /\ InitialSize \in 1..MaxSize
    /\ Window \in 1..(MaxSize - 1)
    /\ MarkBound \in Nat

VARIABLES
    byOperator,    \* record of every operator that has registered a proxy
    byProxy,       \* record of every proxy that was registered
    bonded,        \* bonded validators
    maintainers,   \* bitmaps of the maintainers
    chainActivated, \* the chain is activated
    rewards,       \* validators with rewards in the pool of the chain
    voters,        \* voters of the open poll among the validators
    migrated,      \* Migrate8to9 has run
    open,          \* a poll is open
    missed, wrong  \* history: the marks of every maintainer since the registration

proxyVars == <<byOperator, byProxy>>
pollVars == <<open, voters>>
markVars == <<maintainers, missed, wrong>>
maintainersVars == <<proxyVars, bonded, markVars, chainActivated, rewards, pollVars, migrated>>

-----------------------------------------------------------------------------
(* Proxies.                                                                *)

\* mutant: only the records of the operator are looked at
CanActivateProxy_OneWay(v, p) == v \in DOMAIN byOperator => byOperator[v].proxy = p

CanActivateProxy(v, p) ==
    /\ v \in DOMAIN byOperator => byOperator[v].proxy = p
    /\ p \in DOMAIN byProxy => byProxy[p].validator = v

setProxiedValidator(v, p, active) ==
    LET record == [validator |-> v, proxy |-> p, active |-> active]
    IN  /\ byOperator' = [w \in DOMAIN byOperator \cup {v} |-> IF w = v THEN record ELSE byOperator[w]]
        /\ byProxy' = [q \in DOMAIN byProxy \cup {p} |-> IF q = p THEN record ELSE byProxy[q]]

\* the proxy has the minimal balance
RegisterProxy(v, p) ==
    /\ CanActivateProxy(v, p)
    /\ setProxiedValidator(v, p, TRUE)
    /\ UNCHANGED <<bonded, markVars, chainActivated, rewards, pollVars, migrated>>

DeactivateProxy(v) ==
    /\ v \in DOMAIN byOperator
    /\ setProxiedValidator(v, byOperator[v].proxy, FALSE)
    /\ UNCHANGED <<bonded, markVars, chainActivated, rewards, pollVars, migrated>>

\* GetProxy and GetOperator
HasProxyActive(v) == v \in DOMAIN byOperator /\ byOperator[v].active
IsActiveProxy(p) == p \in DOMAIN byProxy /\ byProxy[p].active

\* staking and slashing
Unbond(v) ==
    /\ v \in bonded
    /\ bonded' = bonded \ {v}
    /\ UNCHANGED <<proxyVars, markVars, chainActivated, rewards, pollVars, migrated>>

Bond(v) ==
    /\ v \notin bonded
    /\ bonded' = bonded \cup {v}
    /\ UNCHANGED <<proxyVars, markVars, chainActivated, rewards, pollVars, migrated>>

-----------------------------------------------------------------------------
(* Snapshots of maintainers.                                               *)

WeightOf(S) == MapThenSumSet(LAMBDA v : Weight[v], S)

\* CreateSnapshot with the filter of x/nexus and x/evm
Participants == {v \in DOMAIN maintainers \cap bonded : HasProxyActive(v) /\ Weight[v] > 0}

CanMeet(threshold) ==
    OtherWeight + WeightOf(Participants)
        >= CalculateMinPassingWeight(OtherWeight + WeightOf(bonded), threshold)

-----------------------------------------------------------------------------
(* Registration and activation.                                            *)

NewMaintainerState ==
    LET empty == NewCircularBuffer(IF migrated THEN MaxSize ELSE OldMaxSize)
    IN  [missing |-> empty, incorrect |-> empty]

\* the maintainers that are left, and the history of those
RemoveChainMaintainers(S) ==
    /\ maintainers' = Restrict(maintainers, DOMAIN maintainers \ S)
    /\ missed' = [v \in Validators |-> IF v \in S THEN <<>> ELSE missed[v]]
    /\ wrong' = [v \in Validators |-> IF v \in S THEN <<>> ELSE wrong[v]]

RegisterChainMaintainer(p) ==
    /\ IsActiveProxy(p)
    /\ LET v == byProxy[p].validator
       IN  /\ v \in bonded \ DOMAIN maintainers
           /\ maintainers' = [w \in DOMAIN maintainers \cup {v} |->
                                 IF w = v THEN NewMaintainerState ELSE maintainers[w]]
    /\ UNCHANGED <<proxyVars, bonded, missed, wrong, chainActivated, rewards, pollVars, migrated>>

\* mutant: the rewards stay in the pool
ClearRewards_Kept(S) == rewards

\* the rewards left when those of some validators are cleared
ClearRewards(S) == rewards \ S

DeregisterChainMaintainer(p) ==
    /\ IsActiveProxy(p)
    /\ LET v == byProxy[p].validator
       IN  /\ v \in DOMAIN maintainers
           /\ rewards' = ClearRewards({v})
           /\ RemoveChainMaintainers({v})
    /\ UNCHANGED <<proxyVars, bonded, chainActivated, pollVars, migrated>>

activateChain ==
    /\ ~chainActivated
    /\ CanMeet(ActivationThreshold)
    /\ chainActivated' = TRUE
    /\ UNCHANGED <<proxyVars, bonded, markVars, rewards, pollVars, migrated>>

deactivateChain ==
    /\ chainActivated
    /\ chainActivated' = FALSE
    /\ UNCHANGED <<proxyVars, bonded, markVars, rewards, pollVars, migrated>>

-----------------------------------------------------------------------------
(* Polls.                                                                  *)

\* ConfirmGatewayTxs and the other requests for a confirmation
StartPoll ==
    /\ ~open
    /\ chainActivated
    /\ CanMeet(VotingThreshold)
    /\ open' = TRUE
    /\ voters' = Participants
    /\ UNCHANGED <<proxyVars, bonded, markVars, chainActivated, rewards, migrated>>

Bit(b) == IF b THEN 1 ELSE 0

\* every voter who still is a maintainer is marked
Marked == voters \cap DOMAIN maintainers

CanMark == \A v \in Marked : Len(missed[v]) < MarkBound

MarkMissingVote(absent) ==
    missed' = [v \in Validators |-> IF v \in Marked THEN Append(missed[v], Bit(v \in absent)) ELSE missed[v]]

MarkIncorrectVote(incorrect) ==
    wrong' = [v \in Validators |-> IF v \in Marked THEN Append(wrong[v], Bit(v \in incorrect)) ELSE wrong[v]]

HandleExpiredPoll(absent) ==
    /\ maintainers' = [v \in DOMAIN maintainers |->
                          IF v \in Marked
                          THEN [maintainers[v] EXCEPT !.missing = Add(@, Bit(v \in absent))]
                          ELSE maintainers[v]]
    /\ MarkMissingVote(absent)
    /\ UNCHANGED wrong
    /\ rewards' = ClearRewards(absent)

\* mutant: a vote is marked as incorrect when it is missing
MarkedState_Swapped(v, absent, incorrect) ==
    [missing |-> Add(maintainers[v].missing, Bit(v \in incorrect)),
     incorrect |-> Add(maintainers[v].incorrect, Bit(v \in absent))]

MarkedState(v, absent, incorrect) ==
    [missing |-> Add(maintainers[v].missing, Bit(v \in absent)),
     incorrect |-> Add(maintainers[v].incorrect, Bit(v \in incorrect))]

\* voters who voted for the result have their rewards released, the others lose them
HandleCompletedPoll(absent, incorrect) ==
    /\ maintainers' = [v \in DOMAIN maintainers |->
                          IF v \in Marked THEN MarkedState(v, absent, incorrect) ELSE maintainers[v]]
    /\ MarkMissingVote(absent)
    /\ MarkIncorrectVote(incorrect)
    /\ rewards' = ClearRewards(Marked)

ClosePoll ==
    /\ open
    /\ CanMark
    /\ \E absent \in SUBSET voters :
          \/ HandleExpiredPoll(absent)
          \/ \E incorrect \in SUBSET (voters \ absent) : HandleCompletedPoll(absent, incorrect)
    /\ open' = FALSE
    /\ voters' = {}
    /\ UNCHANGED <<proxyVars, bonded, chainActivated, migrated>>

-----------------------------------------------------------------------------
(* End of a block.                                                         *)

\* count / window <= threshold
IsWithin(count, threshold) == count * threshold.den <= threshold.num * Window

Keeps(v) ==
    /\ HasProxyActive(v)
    /\ IsWithin(Count(maintainers[v].missing, Window), MissingThreshold)
    /\ IsWithin(Count(maintainers[v].incorrect, Window), IncorrectThreshold)

\* checkChainMaintainers, then handleExternalChainVotingInflation
EndBlock ==
    LET kept == {v \in DOMAIN maintainers : Keeps(v)}
    IN  /\ chainActivated
        /\ RemoveChainMaintainers(DOMAIN maintainers \ kept)
        /\ rewards' = ClearRewards(DOMAIN maintainers \ kept)
                      \cup {v \in kept \cap bonded : HasProxyActive(v) /\ Weight[v] > 0}
        /\ UNCHANGED <<proxyVars, bonded, chainActivated, pollVars, migrated>>

shrinkMaintainerStateBitmaps ==
    [v \in DOMAIN maintainers |->
        [missing |-> SetMaxSize(maintainers[v].missing, MaxSize),
         incorrect |-> SetMaxSize(maintainers[v].incorrect, MaxSize)]]

Migrate8to9 ==
    /\ ~migrated
    /\ migrated' = TRUE
    /\ maintainers' = shrinkMaintainerStateBitmaps
    /\ UNCHANGED <<proxyVars, bonded, missed, wrong, chainActivated, rewards, pollVars>>

-----------------------------------------------------------------------------
MaintainersInit ==
    /\ byOperator = <<>> /\ byProxy = <<>>
    /\ bonded = Validators
    /\ maintainers = <<>> /\ missed = [v \in Validators |-> <<>>] /\ wrong = [v \in Validators |-> <<>>]
    /\ chainActivated = FALSE /\ rewards = {} /\ open = FALSE /\ voters = {} /\ migrated = FALSE

MaintainersNext ==
    \/ \E v \in Validators, p \in Proxies : RegisterProxy(v, p)
    \/ \E v \in Validators : DeactivateProxy(v) \/ Unbond(v) \/ Bond(v)
    \/ \E p \in Proxies : RegisterChainMaintainer(p) \/ DeregisterChainMaintainer(p)
    \/ activateChain \/ deactivateChain
    \/ StartPoll \/ ClosePoll
    \/ EndBlock
    \/ Migrate8to9

MaintainersSpec == MaintainersInit /\ [][MaintainersNext]_maintainersVars

-----------------------------------------------------------------------------
(* Properties.                                                             *)

\* Operators and proxies that register, deactivate and register again stay in a
\* one-to-one relation: both indexes of x/snapshot hold the same records.
ProxiesOneToOne ==
    /\ \A v \in DOMAIN byOperator : LET r == byOperator[v] IN r.validator = v /\ r.proxy \in DOMAIN byProxy /\ byProxy[r.proxy] = r
    /\ \A p \in DOMAIN byProxy : LET r == byProxy[p] IN r.proxy = p /\ r.validator \in DOMAIN byOperator /\ byOperator[r.validator] = r

\* the sum of the first n marks
SumTo(seq, n) == LET sum[i \in 0..n] == IF i = 0 THEN 0 ELSE sum[i - 1] + seq[i] IN sum[n]
Sum(seq) == SumTo(seq, Len(seq))
LastMarks(seq, n) == IF n >= Len(seq) THEN seq ELSE SubSeq(seq, Len(seq) - n + 1, Len(seq))

\* Growing, wrapping around and shrinking, the bitmaps count over every window what
\* was marked in the last polls since the registration, and nothing from before it.
CountsMatchVotes ==
    \A v \in DOMAIN maintainers, window \in 1..(MaxSize - 1) :
        /\ Count(maintainers[v].missing, window) = Sum(LastMarks(missed[v], window))
        /\ Count(maintainers[v].incorrect, window) = Sum(LastMarks(wrong[v], window))

\* Whoever leaves, by request or at the end of a block, loses the rewards in the pool
\* of the chain: only maintainers have some.
RewardsOfMaintainers == rewards \subseteq DOMAIN maintainers

\* The end blocker of an activated chain removes exactly the maintainers without an
\* active proxy and those who missed or were wrong in more than the allowed share of
\* the last polls, whatever happened between the polls and the end of the block.
RemovedForCause ==
    [][EndBlock => \A v \in DOMAIN maintainers :
          v \in DOMAIN maintainers' <=>
              /\ v \in DOMAIN byOperator /\ byOperator[v].active
              /\ Sum(LastMarks(missed[v], Window)) * MissingThreshold.den <= MissingThreshold.num * Window
              /\ Sum(LastMarks(wrong[v], Window)) * IncorrectThreshold.den <= IncorrectThreshold.num * Window]_maintainersVars
=============================================================================
