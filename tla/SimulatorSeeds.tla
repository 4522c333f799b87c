---------------------------- MODULE SimulatorSeeds ----------------------------
(***************************************************************************)
(* The world an author seeds and a contract reads: the setters of the      *)
(* simulator (toolkit/simulator/world_state_setters.js), its warnings      *)
(* about scope (gate_warnings.js), and the accessors that answer from the  *)
(* snapshots (src/readonly-accessors.js) behind the gateway's reads        *)
(* (gateway/accessors.js, gateway/contract_stake.js).                      *)
(*                                                                         *)
(* A stake is a number, a public key a number too (they are compared).     *)
(* A response is the scope it was seeded for.  A key in Inherited is  *)
(* one that names a member of Object.prototype, such as "constructor".     *)
(***************************************************************************)
EXTENDS Activations, Sequences, SequencesExt, FiniteSets, FiniteSetsExt, Functions

CONSTANTS
    ReadNetworks,       \* networks: the own-key rule is armed or not
    Topics,             \* what a behaviour seeds
    Pubkeys, Stakes, Ticks, Pairs, RoundNumbers, Requests, Polls, CallIds,
    Inherited,          \* keys that name an inherited member
    Callers, SimIndexes,
    AddressOf,          \* the address of each contract index
    MAX_STAKERS_PER_TICK,
    MaxWorldSeeds

VARIABLES
    readNetwork, topic,
    balances, oracle, pollData, calls,
    stakeData, stakeByIndex,            \* the shared bucket and the scoped ones
    attestData, attestByIndex,
    deployedAt,
    scopeWarned,                        \* _balanceScopeWarned, _stakeScopeWarned
    lastCall,
    worldSeeds

seedVars == <<readNetwork, topic, balances, oracle, pollData, calls, stakeData, stakeByIndex,
              attestData, attestByIndex, deployedAt, scopeWarned, lastCall, worldSeeds>>

\* Indexes of deploys count from 0; a round is a number.
ASSUME SeedsAssumption == SimIndexes \subseteq Nat /\ RoundNumbers \subseteq Nat

NoCall == [made |-> FALSE]
EmptyMap == [k \in {} |-> 0]
Shared == -1                            \* a seed without a contractIndex
BadAmount == -1                         \* an amount that is no decimal number

EmptyBucket == [stakes |-> EmptyMap, total |-> EmptyMap, stakers |-> EmptyMap]

SeedsInit ==
    /\ readNetwork \in ReadNetworks /\ topic \in Topics
    /\ balances = EmptyMap /\ pollData = EmptyMap /\ calls = EmptyMap
    /\ oracle = [prices |-> EmptyMap, rounds |-> EmptyMap, roundFloor |-> 0]
    /\ stakeData = EmptyBucket /\ stakeByIndex = EmptyMap
    /\ attestData = EmptyMap /\ attestByIndex = EmptyMap
    /\ deployedAt = {} /\ scopeWarned = {} /\ lastCall = NoCall /\ worldSeeds = 0

With(map, key, value) == [k \in DOMAIN map \cup {key} |-> IF k = key THEN value ELSE map[k]]

\* Every setter; what a call saw is no longer looked at.
Seed(t) == topic = t /\ worldSeeds < MaxWorldSeeds /\ worldSeeds' = worldSeeds + 1 /\ lastCall' = NoCall
-------------------------------------------------------------------------------
setBalance(address, tick) ==
    /\ Seed("ledger")
    /\ balances' = With(balances, address,
                       With(IF address \in DOMAIN balances THEN balances[address] ELSE EmptyMap,
                           tick, "amount"))
    /\ UNCHANGED <<readNetwork, topic, oracle, pollData, calls, stakeData, stakeByIndex, attestData,
                   attestByIndex, deployedAt, scopeWarned>>

\* A scalar price is of round 0.
setPrice(pair, round) ==
    /\ Seed("oracle")
    /\ oracle' = [oracle EXCEPT
         !.prices = With(@, pair, round),
         !.rounds = With(@, pair, (IF pair \in DOMAIN @ THEN @[pair] ELSE {}) \cup {round})]
    /\ UNCHANGED <<readNetwork, topic, balances, pollData, calls, stakeData, stakeByIndex, attestData,
                   attestByIndex, deployedAt, scopeWarned>>

setOracleRoundFloor(floor) ==
    /\ Seed("oracle")
    /\ oracle' = [oracle EXCEPT !.roundFloor = floor]
    /\ UNCHANGED <<readNetwork, topic, balances, pollData, calls, stakeData, stakeByIndex, attestData,
                   attestByIndex, deployedAt, scopeWarned>>

setPollResult(poll) ==
    /\ Seed("ledger")
    /\ pollData' = With(pollData, poll, "result")
    /\ UNCHANGED <<readNetwork, topic, balances, oracle, calls, stakeData, stakeByIndex, attestData,
                   attestByIndex, deployedAt, scopeWarned>>

setCallResult(callId) ==
    /\ Seed("ledger")
    /\ calls' = With(calls, callId, "outcome")
    /\ UNCHANGED <<readNetwork, topic, balances, oracle, pollData, stakeData, stakeByIndex, attestData,
                   attestByIndex, deployedAt, scopeWarned>>

attestationBucket(index) ==
    IF index = Shared THEN attestData
    ELSE IF index \in DOMAIN attestByIndex THEN attestByIndex[index] ELSE EmptyMap

setAttestationResponse(request, index) ==
    LET bucket == With(attestationBucket(index), request, index)
    IN  /\ Seed("scoped")
        /\ IF index = Shared
           THEN attestData' = bucket /\ UNCHANGED attestByIndex
           ELSE attestByIndex' = With(attestByIndex, index, bucket) /\ UNCHANGED attestData
        /\ UNCHANGED <<readNetwork, topic, balances, oracle, pollData, calls, stakeData, stakeByIndex,
                       deployedAt, scopeWarned>>
-------------------------------------------------------------------------------
(***************************************************************************)
(* setStake: one stake and the views derived from all of the tick.         *)
(***************************************************************************)
\* Descending amount, ascending public key.
Before(a, b) == a.amount > b.amount \/ (a.amount = b.amount /\ a.pubkey < b.pubkey)

\* The stakers of the tick that are left, in the order of the roster.
Roster(stakes, tick) ==
    SetToSortSeq({[pubkey |-> k[1], amount |-> stakes[k]] :
                     k \in {key \in DOMAIN stakes : key[2] = tick /\ stakes[key] # 0}}, Before)

SumOf(roster) == FoldFunctionOnSet(LAMBDA s, sum : s.amount + sum, 0, roster, DOMAIN roster)

\* Mutant: the capped roster is brought up to date instead of rebuilt.
StakedInto(bucket, pubkey, tick, amount) ==
    LET stakes == With(bucket.stakes, <<pubkey, tick>>, amount)
        kept   == IF tick \in DOMAIN bucket.stakers THEN bucket.stakers[tick] ELSE <<>>
        others == {kept[i] : i \in DOMAIN kept} \ {s \in Range(kept) : s.pubkey = pubkey}
        roster == SetToSortSeq(others \cup (IF amount = 0 THEN {}
                                            ELSE {[pubkey |-> pubkey, amount |-> amount]}), Before)
    IN  [stakes |-> stakes, total |-> With(bucket.total, tick, SumOf(Roster(stakes, tick))),
         stakers |-> With(bucket.stakers, tick,
                         SubSeq(roster, 1, Min({Len(roster), MAX_STAKERS_PER_TICK})))]

Staked(bucket, pubkey, tick, amount) ==
    LET stakes == With(bucket.stakes, <<pubkey, tick>>, amount)
        roster == Roster(stakes, tick)
    IN  [stakes  |-> stakes,
         total   |-> With(bucket.total, tick, SumOf(roster)),
         stakers |-> With(bucket.stakers, tick,
                         SubSeq(roster, 1, Min({Len(roster), MAX_STAKERS_PER_TICK})))]

\* The bucket is made before the amount is parsed: a refused amount leaves it.
stakeBucket(index) ==
    IF index = Shared THEN stakeData
    ELSE IF index \in DOMAIN stakeByIndex THEN stakeByIndex[index] ELSE EmptyBucket

setStake(pubkey, tick, amount, index) ==
    LET bucket == IF amount = BadAmount THEN stakeBucket(index)
                  ELSE Staked(stakeBucket(index), pubkey, tick, amount)
    IN  /\ Seed("scoped")
        /\ IF index = Shared
           THEN stakeData' = bucket /\ UNCHANGED stakeByIndex
           ELSE stakeByIndex' = With(stakeByIndex, index, bucket) /\ UNCHANGED stakeData
        /\ UNCHANGED <<readNetwork, topic, balances, oracle, pollData, calls, attestData,
                       attestByIndex, deployedAt, scopeWarned>>
-------------------------------------------------------------------------------
(***************************************************************************)
(* Runs: a call, a guard or a constructor.                                 *)
(***************************************************************************)
\* What a run is given in place of a snapshot.
NoData == [none |-> TRUE]

StakeDataOf(index, runMode) ==
    IF runMode = "init" THEN NoData
    ELSE IF index \in DOMAIN stakeByIndex THEN stakeByIndex[index] ELSE stakeData

AttestDataOf(index, runMode) ==
    IF runMode \in {"init", "guard"} THEN NoData
    ELSE IF index \in DOMAIN attestByIndex THEN attestByIndex[index] ELSE attestData

\* warnIfBalanceOutOfScope
BalanceOutOfScope(caller, address) == DOMAIN balances \ {caller, address} # {}

\* warnIfStakeOutOfScope: the very object of the shared snapshot, and not empty.
StakeOutOfScope(index, runMode) ==
    /\ Cardinality(deployedAt) >= 2
    /\ \/ runMode # "init" /\ index \notin DOMAIN stakeByIndex /\ stakeData.stakes # EmptyMap
       \/ runMode = "call" /\ index \notin DOMAIN attestByIndex /\ attestData # EmptyMap

DeployAt(index) ==
    /\ index \notin deployedAt
    /\ deployedAt' = deployedAt \cup {index}
    /\ lastCall' = NoCall
    /\ UNCHANGED <<readNetwork, topic, balances, oracle, pollData, calls, stakeData, stakeByIndex,
                   attestData, attestByIndex, scopeWarned, worldSeeds>>

\* execute() up to its await, and the run: lastCall stands for every read it makes.
Run(index, runMode, caller) ==
    /\ index \in deployedAt
    /\ scopeWarned' = scopeWarned
         \cup (IF BalanceOutOfScope(caller, AddressOf[index]) THEN {"balance"} ELSE {})
         \cup (IF StakeOutOfScope(index, runMode) THEN {"stake"} ELSE {})
    /\ lastCall' = [made |-> TRUE, index |-> index, mode |-> runMode, caller |-> caller]
    /\ UNCHANGED <<readNetwork, topic, balances, oracle, pollData, calls, stakeData, stakeByIndex,
                   attestData, attestByIndex, deployedAt, worldSeeds>>

Scopes == SimIndexes \cup {Shared}

SeedsNext ==
    \/ \E address \in Callers \cup Range(AddressOf), tick \in Ticks : setBalance(address, tick)
    \/ \E pair \in Pairs, round \in RoundNumbers : setPrice(pair, round)
    \/ \E floor \in RoundNumbers : setOracleRoundFloor(floor)
    \/ \E poll \in Polls : setPollResult(poll)
    \/ \E callId \in CallIds : setCallResult(callId)
    \/ \E request \in Requests, index \in Scopes : setAttestationResponse(request, index)
    \/ \E pubkey \in Pubkeys, tick \in Ticks, amount \in Stakes \cup {BadAmount}, index \in Scopes :
          setStake(pubkey, tick, amount, index)
    \/ \E index \in SimIndexes : DeployAt(index)
    \/ \E index \in SimIndexes, runMode \in {"call", "guard", "init"}, caller \in Callers :
          Run(index, runMode, caller)

SeedsSpec == SeedsInit /\ [][SeedsNext]_seedVars
-------------------------------------------------------------------------------
(***************************************************************************)
(* The reads of the last run.  An answer is a value or a reason why there  *)
(* is none.                                                                *)
(***************************************************************************)
Value(v)      == [is |-> "value", value |-> v]
Absent        == [is |-> "absent"]
Builtin       == [is |-> "builtin"]         \* a member of Object.prototype
OutsideWindow == [is |-> "outsideWindow"]

ACCESSOR_OWN_KEY_ACTIVATION == [mainnet |-> Unarmed, testnet |-> 0, regtest |-> 0]

\* The gate is never or from genesis on; an unknown network is mainnet.
isAccessorOwnKeyActive == GateTime(ACCESSOR_OWN_KEY_ACTIVATION, readNetwork) = 0

lookup(map, key) ==
    IF key \in DOMAIN map THEN Value(map[key])
    ELSE IF ~isAccessorOwnKeyActive /\ key \in Inherited THEN Builtin ELSE Absent

getPrice(pair) == lookup(oracle.prices, pair)

\* Mutant: a round below the floor reads as one that never was.
PriceOrNull(pair, round) ==
    IF pair \in DOMAIN oracle.rounds /\ round \in oracle.rounds[pair] THEN Value(round) ELSE Absent

\* A round is a number, which is no inherited key; nor has an inherited member one.
getPriceAtRound(pair, round) ==
    IF pair \in DOMAIN oracle.rounds /\ round \in oracle.rounds[pair] THEN Value(round)
    ELSE IF oracle.roundFloor > 0 /\ round < oracle.roundFloor THEN OutsideWindow
    ELSE Absent

\* A key of the stakes holds a bar: it is never inherited.
getStake(data, pubkey, tick) ==
    IF data # NoData /\ <<pubkey, tick>> \in DOMAIN data.stakes
    THEN Value(data.stakes[<<pubkey, tick>>]) ELSE Value(0)

getTotalStaked(data, tick) ==
    IF data = NoData \/ lookup(data.total, tick) = Absent THEN Value(0) ELSE lookup(data.total, tick)

\* Only an array is taken.
getStakers(data, tick) ==
    IF data # NoData /\ tick \in DOMAIN data.stakers THEN data.stakers[tick] ELSE <<>>

getResponse(data, request) == IF data = NoData THEN Absent ELSE lookup(data, request)
getPollResult(poll)        == lookup(pollData, poll)
getCallResult(callId)      == lookup(calls, callId)

\* The ledger's snapshot has no accessor; an inherited member has no tick.
getBalance(address, tick) ==
    IF address \in DOMAIN balances THEN
        IF tick \in DOMAIN balances[address] THEN Value(balances[address][tick])
        ELSE IF tick \in Inherited THEN Builtin ELSE Absent
    ELSE Absent
-------------------------------------------------------------------------------
(***************************************************************************)
(* Properties.                                                             *)
(***************************************************************************)
\* The stakers a run is not shown, whose stakes its total counts all the same.
Unlisted(data, tick) ==
    {pubkey \in Pubkeys : /\ getStake(data, pubkey, tick) # Value(0)
                          /\ \A i \in DOMAIN getStakers(data, tick) :
                                getStakers(data, tick)[i].pubkey # pubkey}

Amount(data, pubkey, tick) == getStake(data, pubkey, tick).value

\* "Keeping the three derived views the accessor reads in agreement": whatever was
\* staked, replaced and removed before, the roster is the largest stakes in order,
\* without those that are zero, and the total counts the ones past the cap.
StakeViewsAgree(data, tick) ==
    LET roster == getStakers(data, tick)
    IN  /\ \A i \in DOMAIN roster :
             /\ Value(roster[i].amount) = getStake(data, roster[i].pubkey, tick)
             /\ roster[i].amount # 0
             /\ \A j \in 1..(i - 1) : Before(roster[j], roster[i])
        /\ \A pubkey \in Unlisted(data, tick) :
             /\ Len(roster) = MAX_STAKERS_PER_TICK
             /\ \A i \in DOMAIN roster :
                  Before(roster[i], [pubkey |-> pubkey, amount |-> Amount(data, pubkey, tick)])
        /\ getTotalStaked(data, tick) \in
             {Value(SumOf(roster) + SumOf([pubkey \in Unlisted(data, tick) |->
                                              [amount |-> Amount(data, pubkey, tick)]]))}
               \cup (IF ~isAccessorOwnKeyActive /\ tick \in Inherited THEN {Builtin} ELSE {})

\* "'Not in the snapshot' carries two very different meanings that must not collapse
\* into one null": a round reads as one that never was only when it is at or above
\* the floor, and a seeded round is answered even below it.
NullMeansNever(pair, round) ==
    /\ getPriceAtRound(pair, round) = Absent => round >= oracle.roundFloor
    /\ getPrice(pair).is = "value" => getPriceAtRound(pair, getPrice(pair).value).is = "value"

\* The kinds of answer to the keys a contract may name.
Answers(index, runMode) ==
    {getPrice(k).is : k \in Pairs \cup Inherited} \cup {getPollResult(k).is : k \in Polls \cup Inherited}
      \cup {getCallResult(k).is : k \in CallIds \cup Inherited}
      \cup {getResponse(AttestDataOf(index, runMode), k).is : k \in Requests \cup Inherited}
      \cup {getTotalStaked(StakeDataOf(index, runMode), k).is : k \in Ticks \cup Inherited}

\* What the chain keeps from this run: balances of others, and stakes and responses
\* that were seeded for no contract in particular when there are two.
BeyondTheChain(index, runMode, caller) ==
    LET unscoped == \/ \E request \in Requests :
                          getResponse(AttestDataOf(index, runMode), request) = Value(Shared)
                    \/ /\ index \notin DOMAIN stakeByIndex
                       /\ \E pubkey \in Pubkeys, tick \in Ticks :
                            getStake(StakeDataOf(index, runMode), pubkey, tick) # Value(0)
        others   == \E a \in (Callers \cup Range(AddressOf)) \ {caller, AddressOf[index]}, tick \in Ticks :
                       getBalance(a, tick) # Absent
    IN  (IF others THEN {"balance"} ELSE {})
          \cup (IF unscoped /\ Cardinality(deployedAt) > 1 THEN {"stake"} ELSE {})

\* A null of the oracle hides no evicted round.
NullsMeanNever == \A pair \in Pairs, round \in RoundNumbers : NullMeansNever(pair, round)

\* Of the accessors under the own-key rule (prices, poll and call results, responses,
\* staked totals), none reaches an inherited member once the rule is armed; getBalance
\* and getTokenInfo have no such rule.
OwnKeysOnly ==
    lastCall.made /\ isAccessorOwnKeyActive => "builtin" \notin Answers(lastCall.index, lastCall.mode)

\* An author whose contract could read what the chain would not show it was told.
ScopeIsTold ==
    lastCall.made => BeyondTheChain(lastCall.index, lastCall.mode, lastCall.caller) \subseteq scopeWarned

\* Every read of a run answers as the chain's snapshot would (world_state_setters.js,
\* readonly-accessors.js): the views of the stakes agree, and the three above.
ReadsAreSeeded ==
    /\ NullsMeanNever /\ OwnKeysOnly /\ ScopeIsTold
    /\ lastCall.made =>
         \A tick \in Ticks \cup Inherited :
            StakeViewsAgree(StakeDataOf(lastCall.index, lastCall.mode), tick)
===============================================================================
