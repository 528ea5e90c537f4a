----------------------------- MODULE PYDStaking -----------------------------
(***************************************************************************)
(* Time-based rewards for PYD stakers (contracts/PYDStaking.sol).          *)
(*                                                                         *)
(* One action is one transaction at the block time now; Tick moves time.   *)
(* A failed require, an underflow or a transfer the contract's balance     *)
(* cannot pay reverts, so it is a guard.  rewardPerTokenStored and the     *)
(* users' marks are in units of 1/SCALE PYD per staked PYD.                *)
(***************************************************************************)
EXTENDS Integers, FiniteSets, Functions

CONSTANTS
    Users,
    SCALE,          \* 1e18 in the code
    Amounts,        \* amounts a user stakes or withdraws
    Funding,        \* amounts the owner streams in
    Durations,      \* and the windows the owner streams them over
    MaxTime,        \* bound: block times
    MaxBalance      \* bound: PYD in the contract

ASSUME StakingAssumption ==
    /\ IsFiniteSet(Users)
    /\ SCALE \in Nat \ {0}
    /\ {Amounts, Funding, Durations} \subseteq SUBSET (Nat \ {0})
    /\ MaxTime \in Nat /\ MaxBalance \in Nat

VARIABLES
    stakeAmount, userRewardPerTokenPaid, rewards,   \* per user
    totalSupply, rewardRate, periodFinish, lastUpdateTime, rewardPerTokenStored,
    balance,        \* pyd.balanceOf(this)
    now             \* block.timestamp

accounts == <<stakeAmount, userRewardPerTokenPaid, rewards>>
period   == <<rewardRate, periodFinish, lastUpdateTime, rewardPerTokenStored>>
vars     == <<accounts, totalSupply, period, balance, now>>

-----------------------------------------------------------------------------
\* Mutant of LastT: the end of the window, reached or not.
LastTAhead == periodFinish

\* lastT(): rewards accrue up to here
LastT == IF now < periodFinish THEN now ELSE periodFinish

\* _rewardPerToken()
RewardPerToken ==
    IF totalSupply = 0 \/ LastT <= lastUpdateTime THEN rewardPerTokenStored
    ELSE rewardPerTokenStored + ((LastT - lastUpdateTime) * rewardRate * SCALE) \div totalSupply

\* earned(account), the view
Earned(u) ==
    rewards[u] + (stakeAmount[u] * (RewardPerToken - userRewardPerTokenPaid[u])) \div SCALE

Lapsed == periodFinish > 0 /\ now >= periodFinish

\* _updatePeriod() and then the window's part of _updateReward(): a lapsed
\* window is banked up to its end and its rate cleared, after which the
\* second _rewardPerToken() returns the stored value.
Bank ==
    /\ rewardPerTokenStored' = RewardPerToken
    /\ lastUpdateTime' = LastT
    /\ rewardRate' = IF Lapsed THEN 0 ELSE rewardRate

\* The reward u is left with by _updateReward(u): what has accrued since his
\* mark, at the value just stored.
Banked(u) ==
    rewards[u] + (stakeAmount[u] * (rewardPerTokenStored' - userRewardPerTokenPaid[u])) \div SCALE

\* The user's part of _updateReward(u), with paid of his reward claimed at once.
Settle(u, paid) ==
    /\ rewards' = [rewards EXCEPT ![u] = Banked(u) - paid]
    /\ userRewardPerTokenPaid' = [userRewardPerTokenPaid EXCEPT ![u] = rewardPerTokenStored']

Interact(u, paid) == Bank /\ Settle(u, paid) /\ UNCHANGED <<periodFinish, now>>

-----------------------------------------------------------------------------
\* Mutants of FundRewards: without banking first, and banking in the order
\* _rewardPerToken, _updatePeriod, which banks a lapsed window's tail twice.
FundRewardsUnbanked(amount, duration) ==
    /\ balance + amount <= MaxBalance
    /\ rewardRate' = IF now >= periodFinish THEN amount \div duration
                     ELSE (amount + (periodFinish - now) * rewardRate) \div duration
    /\ periodFinish' = now + duration
    /\ lastUpdateTime' = now
    /\ balance' = balance + amount
    /\ UNCHANGED <<accounts, totalSupply, rewardPerTokenStored, now>>

FundRewardsReversed(amount, duration) ==
    /\ balance + amount <= MaxBalance
    /\ rewardPerTokenStored' =
          IF Lapsed THEN RewardPerToken + (RewardPerToken - rewardPerTokenStored)
                    ELSE RewardPerToken
    /\ rewardRate' = IF now >= periodFinish THEN amount \div duration
                     ELSE (amount + (periodFinish - now) * rewardRate) \div duration
    /\ periodFinish' = now + duration
    /\ lastUpdateTime' = now
    /\ balance' = balance + amount
    /\ UNCHANGED <<accounts, totalSupply, now>>

\* Bank what has accrued at the old rate, then open a new window that what
\* is left of a running one rolls into.
FundRewards(amount, duration) ==
    /\ balance + amount <= MaxBalance
    /\ rewardPerTokenStored' = RewardPerToken
    /\ rewardRate' = IF now >= periodFinish THEN amount \div duration
                     ELSE (amount + (periodFinish - now) * rewardRate) \div duration
    /\ periodFinish' = now + duration
    /\ lastUpdateTime' = now
    /\ balance' = balance + amount
    /\ UNCHANGED <<accounts, totalSupply, now>>

\* Mutant of Stake: the new stake is credited before the reward is settled,
\* and earns what was emitted before it came.
StakeBeforeSettling(u, amount) ==
    /\ balance + amount <= MaxBalance
    /\ Bank
    /\ rewards' = [rewards EXCEPT ![u] = @ +
          ((stakeAmount[u] + amount) * (rewardPerTokenStored' - userRewardPerTokenPaid[u])) \div SCALE]
    /\ userRewardPerTokenPaid' = [userRewardPerTokenPaid EXCEPT ![u] = rewardPerTokenStored']
    /\ stakeAmount' = [stakeAmount EXCEPT ![u] = @ + amount]
    /\ totalSupply' = totalSupply + amount
    /\ balance' = balance + amount
    /\ UNCHANGED <<periodFinish, now>>

Stake(u, amount) ==
    /\ balance + amount <= MaxBalance
    /\ Interact(u, 0)
    /\ stakeAmount' = [stakeAmount EXCEPT ![u] = @ + amount]
    /\ totalSupply' = totalSupply + amount
    /\ balance' = balance + amount

Withdraw(u, amount) ==
    /\ amount <= stakeAmount[u] /\ amount <= totalSupply /\ amount <= balance
    /\ Interact(u, 0)
    /\ stakeAmount' = [stakeAmount EXCEPT ![u] = @ - amount]
    /\ totalSupply' = totalSupply - amount
    /\ balance' = balance - amount

GetReward(u) ==
    /\ Interact(u, Banked(u))
    /\ Banked(u) <= balance
    /\ balance' = balance - Banked(u)
    /\ UNCHANGED <<stakeAmount, totalSupply>>

Exit(u) ==
    /\ Interact(u, Banked(u))
    /\ stakeAmount[u] <= totalSupply
    /\ stakeAmount[u] + Banked(u) <= balance
    /\ stakeAmount' = [stakeAmount EXCEPT ![u] = 0]
    /\ totalSupply' = totalSupply - stakeAmount[u]
    /\ balance' = balance - stakeAmount[u] - Banked(u)

Tick ==
    /\ now < MaxTime
    /\ now' = now + 1
    /\ UNCHANGED <<accounts, totalSupply, period, balance>>

-----------------------------------------------------------------------------
Init ==
    /\ stakeAmount = [u \in Users |-> 0]
    /\ userRewardPerTokenPaid = [u \in Users |-> 0]
    /\ rewards = [u \in Users |-> 0]
    /\ totalSupply = 0 /\ rewardRate = 0 /\ periodFinish = 0 /\ rewardPerTokenStored = 0
    /\ now = 1 /\ lastUpdateTime = now
    /\ balance = 0

Next ==
    \/ \E u \in Users, amount \in Amounts : Stake(u, amount) \/ Withdraw(u, amount)
    \/ \E u \in Users : GetReward(u) \/ Exit(u)
    \/ \E amount \in Funding, duration \in Durations : FundRewards(amount, duration)
    \/ Tick

Spec == Init /\ [][Next]_vars

-----------------------------------------------------------------------------
TypeOK ==
    /\ {stakeAmount, userRewardPerTokenPaid, rewards} \subseteq [Users -> Nat]
    /\ {totalSupply, rewardRate, periodFinish, lastUpdateTime, rewardPerTokenStored,
        balance, now} \subseteq Nat
    /\ lastUpdateTime <= now

\* What the current window has still to emit.
Stream == rewardRate * (IF now < periodFinish THEN periodFinish - now ELSE 0)

\* The contract holds every user's stake, every reward earned so far and the
\* rest of the running stream: claims never eat principal, in any order of
\* fundings (also after a lapse), stakes, claims and exits.
Backed ==
    balance >= SumFunction([u \in Users |-> stakeAmount[u] + Earned(u)]) + Stream

\* No top-up, no lapse and nobody else's transaction erases what a user has
\* earned: only his own claim (getReward, exit) lowers earned().
EarnedNeverFalls ==
    [][\A u \in Users : Earned(u)' >= Earned(u) \/ GetReward(u) \/ Exit(u)]_vars

\* Rewards are earned by time alone: no transaction raises what anybody has
\* earned.  A stake earns nothing from before it came, others' exits and the
\* smaller divisor they leave pay nothing backwards, a top-up's new rate
\* counts from the top-up on, and a lapsed window is banked once.
EarnedOnlyByTime ==
    [][Tick \/ \A u \in Users : Earned(u)' <= Earned(u)]_vars
=============================================================================
