------------------------- MODULE PYDStaking_proofs -------------------------
(***************************************************************************)
(* Proofs about PYDStaking for every number of users, every amount and     *)
(* every schedule of fundings: types, the order of marks and accumulator,  *)
(* that nobody's earned reward is erased by anyone else, and, from sums    *)
(* over the users, that what all have earned is backed by what was funded. *)
(***************************************************************************)
EXTENDS PYDStaking, Arithmetic, TLAPS

\* Each user's mark is a value the accumulator has had.
MarksBehindStored == \A u \in Users : userRewardPerTokenPaid[u] <= rewardPerTokenStored

\* The inductive invariant: the marks must stay behind the accumulator for
\* the rewards to be natural numbers at all.
Inv == TypeOK /\ MarksBehindStored

(* Types of the state, one by one.                                         *)
LEMMA Types ==
    ASSUME Inv
    PROVE  /\ stakeAmount \in [Users -> Nat] /\ rewards \in [Users -> Nat]
           /\ userRewardPerTokenPaid \in [Users -> Nat]
           /\ totalSupply \in Nat /\ rewardRate \in Nat /\ periodFinish \in Nat
           /\ lastUpdateTime \in Nat /\ rewardPerTokenStored \in Nat
           /\ balance \in Nat /\ now \in Nat /\ lastUpdateTime <= now
           /\ SCALE \in Nat \ {0}
           /\ \A a \in Amounts \cup Funding \cup Durations : a \in Nat \ {0}
  BY StakingAssumption DEF Inv, TypeOK

LEMMA LastTType == ASSUME Inv PROVE LastT \in Nat /\ LastT <= now /\ LastT <= periodFinish
  BY Types DEF LastT

(* The accumulator only grows.                                             *)
LEMMA RewardPerTokenType ==
    ASSUME Inv
    PROVE  RewardPerToken \in Nat /\ rewardPerTokenStored <= RewardPerToken
<1>1. CASE totalSupply = 0 \/ LastT <= lastUpdateTime
  BY <1>1, Types DEF RewardPerToken
<1>2. CASE totalSupply # 0 /\ ~(LastT <= lastUpdateTime)
  <2>1. LastT - lastUpdateTime \in Nat /\ totalSupply \in Nat \ {0}
    BY <1>2, Types, LastTType
  <2>2. (LastT - lastUpdateTime) * rewardRate * SCALE \in Nat
    BY <2>1, Types, ProductType
  <2>3. ((LastT - lastUpdateTime) * rewardRate * SCALE) \div totalSupply \in Nat
    BY <2>1, <2>2, FloorDivision
  <2> QED
    BY <1>2, <2>3, Types DEF RewardPerToken
<1> QED
  BY <1>1, <1>2

LEMMA EarnedType ==
    ASSUME Inv, NEW u \in Users
    PROVE  Earned(u) \in Nat /\ rewards[u] <= Earned(u)
<1>1. RewardPerToken - userRewardPerTokenPaid[u] \in Nat
  BY Types, RewardPerTokenType DEF Inv, MarksBehindStored
<1>2. stakeAmount[u] * (RewardPerToken - userRewardPerTokenPaid[u]) \in Nat
  BY <1>1, Types, ProductType
<1>3. (stakeAmount[u] * (RewardPerToken - userRewardPerTokenPaid[u])) \div SCALE \in Nat
  BY <1>2, Types, FloorDivision
<1> QED
  BY <1>3, Types DEF Earned

-----------------------------------------------------------------------------
(* Every step keeps the invariant.                                         *)

LEMMA InitInv == Init => Inv
  BY StakingAssumption DEF Init, Inv, TypeOK, MarksBehindStored

(* The value stored by a transaction's banking is the one the view earned() *)
(* had before it, and the user's reward is settled at it.                  *)
LEMMA InteractSettles ==
    ASSUME NEW u \in Users, NEW paid, Interact(u, paid)
    PROVE  /\ rewardPerTokenStored' = RewardPerToken /\ Banked(u) = Earned(u)
           /\ rewards' = [rewards EXCEPT ![u] = Earned(u) - paid]
           /\ userRewardPerTokenPaid' = [userRewardPerTokenPaid EXCEPT ![u] = RewardPerToken]
<1>1. rewardPerTokenStored' = RewardPerToken
  BY DEF Interact, Bank
<1>2. Banked(u) = Earned(u)
  BY <1>1 DEF Banked, Earned
<1> QED
  BY <1>1, <1>2 DEF Interact, Settle

LEMMA GetRewardPays ==
    ASSUME NEW u \in Users, GetReward(u)
    PROVE  /\ Interact(u, Earned(u)) /\ Earned(u) <= balance
           /\ balance' = balance - Earned(u) /\ UNCHANGED <<stakeAmount, totalSupply>>
<1>1. Banked(u) = Earned(u)
  BY DEF GetReward, Interact, Bank, Banked, Earned
<1> QED
  BY <1>1 DEF GetReward

LEMMA ExitPays ==
    ASSUME NEW u \in Users, Exit(u)
    PROVE  /\ Interact(u, Earned(u))
           /\ stakeAmount[u] <= totalSupply /\ stakeAmount[u] + Earned(u) <= balance
           /\ stakeAmount' = [stakeAmount EXCEPT ![u] = 0]
           /\ totalSupply' = totalSupply - stakeAmount[u]
           /\ balance' = balance - stakeAmount[u] - Earned(u)
<1>1. Banked(u) = Earned(u)
  BY DEF Exit, Interact, Bank, Banked, Earned
<1> QED
  BY <1>1 DEF Exit

(* A user's transaction, whatever of his reward it pays.                   *)
LEMMA InteractInv ==
    ASSUME Inv, NEW u \in Users, NEW paid \in Nat, paid <= Earned(u), Interact(u, paid),
           stakeAmount' \in [Users -> Nat], totalSupply' \in Nat, balance' \in Nat
    PROVE  Inv'
<1>1. /\ RewardPerToken \in Nat /\ rewardPerTokenStored <= RewardPerToken
      /\ Earned(u) - paid \in Nat
  BY RewardPerTokenType, EarnedType
<1>2. /\ rewardPerTokenStored' = RewardPerToken /\ lastUpdateTime' = LastT
      /\ rewardRate' \in Nat /\ periodFinish' = periodFinish /\ now' = now
  BY Types DEF Interact, Bank
<1>3. /\ rewards' \in [Users -> Nat] /\ userRewardPerTokenPaid' \in [Users -> Nat]
  BY <1>1, Types, InteractSettles
<1>4. TypeOK'
  BY <1>1, <1>2, <1>3, Types, LastTType DEF TypeOK
<1>5. MarksBehindStored'
  <2>1. ASSUME NEW v \in Users PROVE userRewardPerTokenPaid'[v] <= rewardPerTokenStored'
    BY <1>1, <1>2, Types, InteractSettles DEF Inv, MarksBehindStored
  <2> QED
    BY <2>1 DEF MarksBehindStored
<1> QED
  BY <1>4, <1>5 DEF Inv

LEMMA FundRewardsInv ==
    ASSUME Inv, NEW amount \in Funding, NEW duration \in Durations,
           FundRewards(amount, duration)
    PROVE  Inv'
<1>1. amount \in Nat /\ duration \in Nat \ {0}
  BY Types
<1>2. rewardRate' \in Nat
  <2>1. CASE now >= periodFinish
    BY <1>1, <2>1, FloorDivision DEF FundRewards
  <2>2. CASE ~(now >= periodFinish)
    <3>1. (periodFinish - now) * rewardRate \in Nat
      BY <2>2, Types, ProductType
    <3>2. amount + (periodFinish - now) * rewardRate \in Nat
      BY <1>1, <3>1
    <3> QED
      BY <1>1, <2>2, <3>2, FloorDivision DEF FundRewards
  <2> QED
    BY <2>1, <2>2
<1>3. RewardPerToken \in Nat /\ rewardPerTokenStored <= RewardPerToken
  BY RewardPerTokenType
<1>4. TypeOK'
  BY <1>1, <1>2, <1>3, Types DEF FundRewards, accounts, TypeOK
<1>5. MarksBehindStored'
  BY <1>3, Types DEF FundRewards, accounts, Inv, MarksBehindStored
<1> QED
  BY <1>4, <1>5 DEF Inv

LEMMA StepInv == ASSUME Inv, [Next]_vars PROVE Inv'
<1>1. ASSUME NEW u \in Users, NEW amount \in Amounts, Stake(u, amount)
      PROVE  Inv'
  <2>1. /\ stakeAmount' \in [Users -> Nat] /\ totalSupply' \in Nat /\ balance' \in Nat
    BY <1>1, Types DEF Stake
  <2> QED
    BY <1>1, <2>1, InteractInv, EarnedType DEF Stake
<1>2. ASSUME NEW u \in Users, NEW amount \in Amounts, Withdraw(u, amount)
      PROVE  Inv'
  <2>1. /\ stakeAmount' \in [Users -> Nat] /\ totalSupply' \in Nat /\ balance' \in Nat
    BY <1>2, Types DEF Withdraw
  <2> QED
    BY <1>2, <2>1, InteractInv, EarnedType DEF Withdraw
<1>3. ASSUME NEW u \in Users, GetReward(u)
      PROVE  Inv'
  <2>1. /\ stakeAmount' \in [Users -> Nat] /\ totalSupply' \in Nat /\ balance' \in Nat
    BY <1>3, Types, EarnedType, GetRewardPays
  <2> QED
    BY <1>3, <2>1, InteractInv, EarnedType, GetRewardPays
<1>4. ASSUME NEW u \in Users, Exit(u)
      PROVE  Inv'
  <2>1. /\ stakeAmount' \in [Users -> Nat] /\ totalSupply' \in Nat /\ balance' \in Nat
    BY <1>4, Types, EarnedType, ExitPays
  <2> QED
    BY <1>4, <2>1, InteractInv, EarnedType, ExitPays
<1>5. CASE Tick
  BY <1>5, Types DEF Tick, accounts, period, Inv, TypeOK, MarksBehindStored
<1>6. CASE UNCHANGED vars
  BY <1>6 DEF vars, accounts, period, Inv, TypeOK, MarksBehindStored
<1> QED
  BY <1>1, <1>2, <1>3, <1>4, <1>5, <1>6, FundRewardsInv DEF Next

(* Every reachable state is well-typed: no stake, reward or balance        *)
(* underflows, whatever the order of transactions.                         *)
THEOREM TypeCorrect == Spec => []TypeOK
<1>1. Inv => TypeOK
  BY DEF Inv
<1> QED
  BY <1>1, InitInv, StepInv, PTL DEF Spec

-----------------------------------------------------------------------------
(* Nobody else erases what a user has earned.                              *)

(* Banking leaves the accumulator where the view had it.                   *)
LEMMA BankKeepsAccumulator ==
    ASSUME Inv, Bank, UNCHANGED <<periodFinish, now>>
    PROVE  RewardPerToken' = RewardPerToken
<1>1. LastT' = LastT /\ lastUpdateTime' = LastT /\ LastT \in Nat
  BY LastTType DEF LastT, Bank
<1> QED
  BY <1>1 DEF RewardPerToken, Bank

(* The reward view of a user whose account is as it was, at an accumulator *)
(* that is no lower.                                                       *)
LEMMA EarnedGrowsWithAccumulator ==
    ASSUME Inv, NEW u \in Users, RewardPerToken' \in Nat, RewardPerToken <= RewardPerToken',
           rewards'[u] = rewards[u], stakeAmount'[u] = stakeAmount[u],
           userRewardPerTokenPaid'[u] = userRewardPerTokenPaid[u]
    PROVE  Earned(u)' >= Earned(u)
<1> DEFINE mark == userRewardPerTokenPaid[u]
           before == stakeAmount[u] * (RewardPerToken - mark)
           after == stakeAmount[u] * (RewardPerToken' - mark)
<1>1. /\ RewardPerToken - mark \in Nat /\ RewardPerToken' - mark \in Nat
      /\ RewardPerToken - mark <= RewardPerToken' - mark
  BY Types, RewardPerTokenType DEF Inv, MarksBehindStored
<1>2. before \in Nat /\ after \in Nat
  BY <1>1, Types, ProductType
<1>3. before <= after
  <2>1. (RewardPerToken - mark) * stakeAmount[u] <= (RewardPerToken' - mark) * stakeAmount[u]
    BY <1>1, Types, ProductMonotone
  <2> QED
    BY <1>1, <2>1, Types
<1>4. before \div SCALE <= after \div SCALE
  BY <1>2, <1>3, Types, DivisionMonotone
<1>5. before \div SCALE \in Nat /\ after \div SCALE \in Nat
  BY <1>2, Types, FloorDivision
<1>6. Earned(u) = rewards[u] + before \div SCALE /\ Earned(u)' = rewards[u] + after \div SCALE
  BY DEF Earned
<1> HIDE DEF before, after
<1> QED
  BY <1>4, <1>5, <1>6, Types

LEMMA InteractKeepsEarned ==
    ASSUME Inv, NEW u \in Users, NEW v \in Users, Interact(u, 0),
           \A w \in Users \ {u} : stakeAmount'[w] = stakeAmount[w],
           stakeAmount' \in [Users -> Nat]
    PROVE  Earned(v)' = Earned(v)
<1>1. RewardPerToken' = RewardPerToken
  BY BankKeepsAccumulator DEF Interact
<1>2. CASE v # u
  <2>1. rewards'[v] = rewards[v] /\ userRewardPerTokenPaid'[v] = userRewardPerTokenPaid[v]
    BY <1>2, Types, InteractSettles
  <2> QED
    BY <1>1, <1>2, <2>1 DEF Earned
<1>3. CASE v = u
  <2>1. rewards'[u] = Earned(u) /\ userRewardPerTokenPaid'[u] = RewardPerToken
    BY Types, EarnedType, InteractSettles
  <2>2. stakeAmount'[u] * (RewardPerToken' - userRewardPerTokenPaid'[u]) = 0
    BY <1>1, <2>1, RewardPerTokenType
  <2>3. 0 \div SCALE = 0
    BY Types, SMT
  <2>4. Earned(u)' = Earned(u) + 0
    BY <2>1, <2>2, <2>3 DEF Earned
  <2> QED
    BY <1>3, <2>4, EarnedType
<1> QED
  BY <1>2, <1>3

LEMMA TickKeepsEarned == ASSUME Inv, NEW v \in Users, Tick PROVE Earned(v)' >= Earned(v)
<1>1. LastT <= LastT' /\ LastT' \in Nat
  BY Types DEF Tick, period, LastT
<1>2. RewardPerToken' \in Nat /\ RewardPerToken <= RewardPerToken'
  <2>1. Inv'
    BY StepInv DEF Next
  <2>2. RewardPerToken' \in Nat /\ rewardPerTokenStored <= RewardPerToken'
    <3>1. /\ totalSupply' = totalSupply /\ lastUpdateTime' = lastUpdateTime
          /\ rewardRate' = rewardRate /\ rewardPerTokenStored' = rewardPerTokenStored
      BY DEF Tick, period
    <3> DEFINE grown == ((LastT' - lastUpdateTime) * rewardRate * SCALE) \div totalSupply
    <3>2. CASE totalSupply = 0 \/ LastT' <= lastUpdateTime
      BY <3>1, <3>2, Types DEF RewardPerToken
    <3>3. CASE totalSupply # 0 /\ ~(LastT' <= lastUpdateTime)
      <4>1. LastT' - lastUpdateTime \in Nat /\ totalSupply \in Nat \ {0}
        BY <1>1, <3>3, Types
      <4>2. (LastT' - lastUpdateTime) * rewardRate * SCALE \in Nat
        BY <4>1, Types, ProductType
      <4>3. grown \in Nat
        BY <4>1, <4>2, FloorDivision
      <4>4. RewardPerToken' = rewardPerTokenStored + grown
        BY <3>1, <3>3 DEF RewardPerToken
      <4> QED
        BY <4>3, <4>4, Types
    <3> QED
      BY <3>2, <3>3
  <2>3. CASE totalSupply = 0 \/ LastT <= lastUpdateTime
    BY <2>2, <2>3 DEF RewardPerToken
  <2>4. CASE totalSupply # 0 /\ ~(LastT <= lastUpdateTime)
    <3> DEFINE d == LastT - lastUpdateTime
               e == LastT' - lastUpdateTime
    <3>1. d \in Nat /\ e \in Nat /\ d <= e /\ totalSupply \in Nat \ {0}
      BY <1>1, <2>4, Types, LastTType
    <3>2. d * rewardRate * SCALE \in Nat /\ e * rewardRate * SCALE \in Nat
      BY <3>1, Types, ProductType
    <3>3. d * rewardRate * SCALE <= e * rewardRate * SCALE
      <4>1. d * rewardRate <= e * rewardRate /\ d * rewardRate \in Nat /\ e * rewardRate \in Nat
        BY <3>1, Types, ProductMonotone, ProductType
      <4> QED
        BY <4>1, Types, ProductMonotone
    <3>4. (d * rewardRate * SCALE) \div totalSupply <= (e * rewardRate * SCALE) \div totalSupply
      BY <3>1, <3>2, <3>3, DivisionMonotone
    <3>5. /\ (d * rewardRate * SCALE) \div totalSupply \in Nat
          /\ (e * rewardRate * SCALE) \div totalSupply \in Nat
      BY <3>1, <3>2, FloorDivision
    <3>6. RewardPerToken = rewardPerTokenStored + (d * rewardRate * SCALE) \div totalSupply
      BY <2>4 DEF RewardPerToken
    <3>7. RewardPerToken' = rewardPerTokenStored + (e * rewardRate * SCALE) \div totalSupply
      <4>1. ~(LastT' <= lastUpdateTime)
        BY <1>1, <2>4, Types, LastTType
      <4> QED
        BY <2>4, <4>1 DEF RewardPerToken, Tick, period
    <3> HIDE DEF d, e
    <3> QED
      BY <2>2, <3>4, <3>5, <3>6, <3>7, Types
  <2> QED
    BY <2>2, <2>3, <2>4
<1> QED
  BY <1>2, EarnedGrowsWithAccumulator DEF Tick, accounts

LEMMA FundingKeepsEarned ==
    ASSUME Inv, NEW v \in Users, NEW amount \in Funding, NEW duration \in Durations,
           FundRewards(amount, duration)
    PROVE  Earned(v)' = Earned(v)
<1>1. lastUpdateTime' = now /\ now' = now /\ periodFinish' = now + duration /\ duration \in Nat \ {0}
  BY Types DEF FundRewards
<1>2. LastT' = now
  BY <1>1, Types DEF LastT
<1>3. RewardPerToken' = RewardPerToken
  BY <1>1, <1>2, Types DEF RewardPerToken, FundRewards
<1> QED
  BY <1>3 DEF FundRewards, accounts, Earned

(* What a user has earned after any transaction that does not pay him is   *)
(* what he had earned before it; his own claim leaves him nothing.         *)
LEMMA TransactionsKeepEarned ==
    ASSUME Inv, Next, ~Tick, NEW v \in Users
    PROVE  Earned(v)' = Earned(v) \/ (Earned(v)' = 0 /\ (GetReward(v) \/ Exit(v)))
<1>1. ASSUME NEW u \in Users, NEW amount \in Amounts, Stake(u, amount) \/ Withdraw(u, amount)
      PROVE  Earned(v)' = Earned(v)
  <2>1. /\ stakeAmount' \in [Users -> Nat]
        /\ \A w \in Users \ {u} : stakeAmount'[w] = stakeAmount[w]
    BY <1>1, Types DEF Stake, Withdraw
  <2> QED
    BY <1>1, <2>1, InteractKeepsEarned DEF Stake, Withdraw
<1>2. ASSUME NEW u \in Users, GetReward(u) \/ Exit(u)
      PROVE  Earned(v)' = Earned(v) \/ (Earned(v)' = 0 /\ (GetReward(v) \/ Exit(v)))
  <2>1. Interact(u, Earned(u)) /\ RewardPerToken' = RewardPerToken
    BY <1>2, GetRewardPays, ExitPays, BankKeepsAccumulator DEF Interact
  <2>2. CASE u # v
    <3>1. /\ rewards'[v] = rewards[v] /\ stakeAmount'[v] = stakeAmount[v]
          /\ userRewardPerTokenPaid'[v] = userRewardPerTokenPaid[v]
      BY <1>2, <2>1, <2>2, Types, InteractSettles, GetRewardPays, ExitPays
    <3> QED
      BY <2>1, <3>1 DEF Earned
  <2>3. CASE u = v
    <3>1. /\ rewards'[v] = 0 /\ userRewardPerTokenPaid'[v] = RewardPerToken
          /\ stakeAmount'[v] \in Nat /\ RewardPerToken \in Nat
      BY <1>2, <2>1, <2>3, Types, EarnedType, RewardPerTokenType, InteractSettles,
         GetRewardPays, ExitPays
    <3>2. stakeAmount'[v] * (RewardPerToken' - userRewardPerTokenPaid'[v]) = 0
      BY <2>1, <3>1
    <3>3. 0 \div SCALE = 0
      BY Types, SMT
    <3> QED
      BY <1>2, <2>3, <3>1, <3>2, <3>3 DEF Earned
  <2> QED
    BY <2>2, <2>3
<1> QED
  BY <1>1, <1>2, FundingKeepsEarned DEF Next

(* Whatever others do, and however time and fundings go on, a user's       *)
(* earned reward falls only by his own claim.                              *)
THEOREM EarnedIsKept == Spec => EarnedNeverFalls
<1>1. ASSUME Inv, Next, NEW v \in Users
      PROVE  Earned(v)' >= Earned(v) \/ GetReward(v) \/ Exit(v)
  BY <1>1, TransactionsKeepEarned, TickKeepsEarned, EarnedType
<1>2. Inv /\ [Next]_vars =>
         [\A u \in Users : Earned(u)' >= Earned(u) \/ GetReward(u) \/ Exit(u)]_vars
  BY <1>1
<1> QED
  BY <1>2, InitInv, StepInv, PTL DEF Spec, EarnedNeverFalls

(* No transaction raises what anybody has earned: rewards come from time   *)
(* staked under a funded window and from nothing else.                     *)
THEOREM EarnedByTimeAlone == Spec => EarnedOnlyByTime
<1>1. ASSUME Inv, Next, ~Tick, NEW v \in Users
      PROVE  Earned(v)' <= Earned(v)
  BY <1>1, TransactionsKeepEarned, EarnedType
<1>2. Inv /\ [Next]_vars => [Tick \/ \A u \in Users : Earned(u)' <= Earned(u)]_vars
  BY <1>1
<1> QED
  BY <1>2, InitInv, StepInv, PTL DEF Spec, EarnedOnlyByTime

-----------------------------------------------------------------------------
(* The contract can pay what it owes.                                      *)

\* What the contract owes u at the accumulator value a, in 1/SCALE PYD.
OwedAt(u, a) ==
    SCALE * (stakeAmount[u] + rewards[u])
       + stakeAmount[u] * (a - userRewardPerTokenPaid[u])

OwedToAll(a) == SumFunction([u \in Users |-> OwedAt(u, a)])

\* What the window emits from the last banking to its end.
Unbanked == rewardRate * (periodFinish - lastUpdateTime)

StakesAddUp == totalSupply = SumFunction(stakeAmount)

WindowAhead == rewardRate = 0 \/ lastUpdateTime <= periodFinish

\* Backed rounds every user's claim down, so no step can be taken from it.
\* The inductive invariant counts the claims unrounded, at the banked
\* accumulator, and the whole unbanked rest of the window.
Funded == SCALE * balance >= OwedToAll(rewardPerTokenStored) + SCALE * Unbanked

BackedInv == Inv /\ StakesAddUp /\ WindowAhead /\ Funded

(* Types of what is owed.                                                  *)
LEMMA OwedType ==
    ASSUME Inv, NEW a \in Nat, rewardPerTokenStored <= a
    PROVE  /\ \A u \in Users : OwedAt(u, a) \in Nat
           /\ OwedToAll(a) \in Nat
<1>1. ASSUME NEW u \in Users PROVE OwedAt(u, a) \in Nat
  <2>1. a - userRewardPerTokenPaid[u] \in Nat
    BY Types DEF Inv, MarksBehindStored
  <2>2. stakeAmount[u] * (a - userRewardPerTokenPaid[u]) \in Nat
    BY <2>1, Types, ProductType
  <2>3. SCALE * (stakeAmount[u] + rewards[u]) \in Nat
    BY Types, ProductType
  <2> QED
    BY <2>2, <2>3 DEF OwedAt
<1> DEFINE owed == [u \in Users |-> OwedAt(u, a)]
<1>2. owed \in [Users -> Nat]
  BY <1>1
<1>3. SumFunction(owed) \in Nat
  <2> HIDE DEF owed
  <2> QED
    BY <1>2, StakingAssumption, SumNatural
<1> QED
  BY <1>1, <1>3 DEF OwedToAll

LEMMA OwedStoredType == Inv => \A u \in Users : OwedAt(u, rewardPerTokenStored) \in Nat
  BY Types, OwedType

LEMMA OwedStoredTypeNext ==
    Inv' => (\A u \in Users : OwedAt(u, rewardPerTokenStored) \in Nat)'
  BY OwedStoredType, PTL

(* A higher accumulator owes the difference to every staked token.         *)
LEMMA OwedGrows ==
    ASSUME Inv, StakesAddUp, NEW a \in Nat, NEW b \in Nat,
           rewardPerTokenStored <= a, rewardPerTokenStored <= b
    PROVE  OwedToAll(b) = OwedToAll(a) + (b - a) * totalSupply
<1> DEFINE f == [u \in Users |-> OwedAt(u, b)]
           g == [u \in Users |-> OwedAt(u, a)]
<1>1. f \in [Users -> Int] /\ g \in [Users -> Int] /\ stakeAmount \in [Users -> Int]
  BY OwedType, Types
<1>2. ASSUME NEW u \in Users PROVE f[u] = g[u] + (b - a) * stakeAmount[u]
  <2> DEFINE mark == userRewardPerTokenPaid[u]
             s == stakeAmount[u]
             rest == SCALE * (stakeAmount[u] + rewards[u])
  <2>1. s \in Int /\ mark \in Int /\ rest \in Int
    <3>1. rest \in Nat
      BY Types, ProductType
    <3> QED
      BY <3>1, Types
  <2>2. f[u] = rest + s * (b - mark) /\ g[u] = rest + s * (a - mark)
    BY DEF OwedAt
  <2> HIDE DEF f, g, s, mark, rest
  <2>3. s * (b - mark) = s * (a - mark) + s * (b - a)
    <3>1. a - mark \in Int /\ b - a \in Int /\ b - mark = (a - mark) + (b - a)
      BY <2>1
    <3> QED
      BY <2>1, <3>1, Distribution
  <2>4. s * (b - a) = (b - a) * s /\ s * (b - a) \in Int /\ s * (a - mark) \in Int
    BY <2>1
  <2>5. f[u] = g[u] + (b - a) * s
    BY <2>1, <2>2, <2>3, <2>4
  <2> QED
    BY <2>5 DEF s
<1>3. b - a \in Int
  OBVIOUS
<1>4. SumFunction(f) = SumFunction(g) + (b - a) * SumFunction(stakeAmount)
  <2> HIDE DEF f, g
  <2> QED
    BY <1>1, <1>2, <1>3, SumLinear, StakingAssumption
<1> QED
  BY <1>4 DEF OwedToAll, StakesAddUp

(* What one banking adds to the claims is no more than the window emitted. *)
LEMMA EmissionCovers ==
    ASSUME BackedInv
    PROVE  /\ (RewardPerToken - rewardPerTokenStored) * totalSupply + SCALE * Stream
                 <= SCALE * Unbanked
           /\ Unbanked \in Nat /\ Stream \in Nat
<1>1. Inv /\ WindowAhead
  BY DEF BackedInv
<1>2. CASE rewardRate = 0
  <2>1. Unbanked = 0 /\ Stream = 0
    BY <1>1, <1>2, Types DEF Unbanked, Stream
  <2>2. RewardPerToken = rewardPerTokenStored
    <3>1. CASE totalSupply = 0 \/ LastT <= lastUpdateTime
      BY <3>1 DEF RewardPerToken
    <3>2. CASE totalSupply # 0 /\ ~(LastT <= lastUpdateTime)
      <4>1. ((LastT - lastUpdateTime) * rewardRate * SCALE) = 0
        BY <1>1, <1>2, Types, LastTType
      <4>2. totalSupply \in Nat \ {0}
        BY <1>1, <3>2, Types
      <4>3. 0 \div totalSupply = 0
        BY <4>2, SMT
      <4> QED
        BY <1>1, <3>2, <4>1, <4>3, Types DEF RewardPerToken
    <3> QED
      BY <3>1, <3>2
  <2> QED
    BY <1>1, <2>1, <2>2, Types
<1>3. CASE rewardRate # 0
  <2>1. lastUpdateTime <= periodFinish /\ lastUpdateTime <= LastT
    BY <1>1, <1>3, Types DEF WindowAhead, LastT
  <2> DEFINE d == LastT - lastUpdateTime
             e == periodFinish - LastT
  <2>2. d \in Nat /\ e \in Nat
    BY <1>1, <2>1, Types, LastTType
  <2>3. Stream = rewardRate * e /\ Unbanked = rewardRate * (d + e)
    BY <1>1, Types, LastTType DEF Stream, Unbanked, LastT
  <2>4. /\ rewardRate * d \in Nat /\ rewardRate * e \in Nat
        /\ rewardRate * (d + e) = rewardRate * d + rewardRate * e
    <3> HIDE DEF d, e
    <3> QED
      BY <1>1, <2>2, Types, ProductType, Distribution
  <2>5. (RewardPerToken - rewardPerTokenStored) * totalSupply <= SCALE * (rewardRate * d)
    <3>1. SCALE * (rewardRate * d) \in Nat
      BY <1>1, <2>4, Types, ProductType
    <3>2. CASE totalSupply = 0 \/ LastT <= lastUpdateTime
      <4>1. (RewardPerToken - rewardPerTokenStored) * totalSupply = 0
        BY <1>1, <3>2, Types DEF RewardPerToken
      <4> QED
        BY <3>1, <4>1
    <3>3. CASE totalSupply # 0 /\ ~(LastT <= lastUpdateTime)
      <4>1. totalSupply \in Nat \ {0}
        BY <1>1, <3>3, Types
      <4>2. d * rewardRate * SCALE = SCALE * (rewardRate * d)
        <5> HIDE DEF d
        <5>1. d * rewardRate = rewardRate * d
          BY <1>1, <2>2, Types
        <5>2. (rewardRate * d) * SCALE = SCALE * (rewardRate * d)
          BY <1>1, <2>4, Types
        <5> QED
          BY <5>1, <5>2
      <4>3. (SCALE * (rewardRate * d)) \div totalSupply \in Nat
        BY <3>1, <4>1, FloorDivision
      <4>4. RewardPerToken - rewardPerTokenStored = (SCALE * (rewardRate * d)) \div totalSupply
        BY <1>1, <3>3, <4>2, <4>3, Types DEF RewardPerToken
      <4> QED
        BY <3>1, <4>1, <4>4, FloorDivision
    <3> QED
      BY <3>2, <3>3
  <2>6. SCALE * (rewardRate * d + rewardRate * e)
           = SCALE * (rewardRate * d) + SCALE * (rewardRate * e)
    BY <1>1, <2>4, Types, Distribution
  <2>7. /\ (RewardPerToken - rewardPerTokenStored) * totalSupply \in Int
        /\ SCALE * (rewardRate * d) \in Int /\ SCALE * (rewardRate * e) \in Int
    <3>1. RewardPerToken - rewardPerTokenStored \in Nat
      BY <1>1, Types, RewardPerTokenType
    <3>2. (RewardPerToken - rewardPerTokenStored) * totalSupply \in Nat
      BY <1>1, <3>1, Types, ProductType
    <3> QED
      BY <1>1, <2>4, <3>2, Types, ProductType
  <2> HIDE DEF d, e
  <2> QED
    BY <2>3, <2>4, <2>5, <2>6, <2>7
<1> QED
  BY <1>2, <1>3

(* So the claims at the current accumulator, and the rest of the stream,   *)
(* are covered too.                                                        *)
LEMMA FundedNow ==
    ASSUME BackedInv
    PROVE  /\ SCALE * balance >= OwedToAll(RewardPerToken) + SCALE * Stream
           /\ OwedToAll(RewardPerToken) \in Nat /\ SCALE * Stream \in Nat
<1>1. Inv /\ StakesAddUp /\ Funded
  BY DEF BackedInv
<1>2. RewardPerToken \in Nat /\ rewardPerTokenStored <= RewardPerToken
  BY <1>1, RewardPerTokenType
<1>3. OwedToAll(RewardPerToken) = OwedToAll(rewardPerTokenStored)
                                     + (RewardPerToken - rewardPerTokenStored) * totalSupply
  BY <1>1, <1>2, Types, OwedGrows
<1>4. /\ OwedToAll(RewardPerToken) \in Nat /\ OwedToAll(rewardPerTokenStored) \in Nat
  BY <1>1, <1>2, Types, OwedType
<1>5. /\ SCALE * balance \in Nat /\ SCALE * Stream \in Nat /\ SCALE * Unbanked \in Nat
      /\ (RewardPerToken - rewardPerTokenStored) * totalSupply \in Int
  <2>1. (RewardPerToken - rewardPerTokenStored) * totalSupply \in Nat
    BY <1>1, <1>2, Types, ProductType
  <2> QED
    BY <1>1, <2>1, Types, EmissionCovers, ProductType
<1> QED
  BY <1>1, <1>3, <1>4, <1>5, EmissionCovers DEF Funded
(* A user's claim, scaled, is at most what he is owed unrounded.           *)
LEMMA ClaimWithinOwed ==
    ASSUME Inv, NEW u \in Users
    PROVE  /\ SCALE * (stakeAmount[u] + Earned(u)) <= OwedAt(u, RewardPerToken)
           /\ SCALE * (stakeAmount[u] + Earned(u)) \in Nat
<1> DEFINE gain == stakeAmount[u] * (RewardPerToken - userRewardPerTokenPaid[u])
<1>1. RewardPerToken - userRewardPerTokenPaid[u] \in Nat
  BY Types, RewardPerTokenType DEF Inv, MarksBehindStored
<1>2. gain \in Nat
  BY <1>1, Types, ProductType
<1>3. OwedAt(u, RewardPerToken) = SCALE * (stakeAmount[u] + rewards[u]) + gain
  BY DEF OwedAt
<1>4. Earned(u) = rewards[u] + gain \div SCALE
  BY DEF Earned
<1> HIDE DEF gain
<1>5. gain \div SCALE \in Nat /\ (gain \div SCALE) * SCALE <= gain
  BY <1>2, Types, FloorDivision
<1>6. SCALE * (stakeAmount[u] + Earned(u))
         = SCALE * (stakeAmount[u] + rewards[u]) + SCALE * (gain \div SCALE)
  <2>1. stakeAmount[u] + Earned(u) = (stakeAmount[u] + rewards[u]) + gain \div SCALE
    BY <1>4, <1>5, Types
  <2> QED
    BY <1>5, <2>1, Types, Distribution
<1>7. SCALE * (gain \div SCALE) = (gain \div SCALE) * SCALE
  BY <1>5, Types
<1>8. SCALE * (stakeAmount[u] + rewards[u]) \in Nat /\ SCALE * (gain \div SCALE) \in Nat
  BY <1>5, Types, ProductType
<1> QED
  BY <1>2, <1>3, <1>5, <1>6, <1>7, <1>8

LEMMA BackedByInv == ASSUME BackedInv PROVE Backed
<1>1. Inv
  BY DEF BackedInv
<1> DEFINE claims == [u \in Users |-> stakeAmount[u] + Earned(u)]
           scaled == [u \in Users |-> SCALE * claims[u]]
           owed == [u \in Users |-> OwedAt(u, RewardPerToken)]
<1>2. /\ claims \in [Users -> Nat] /\ scaled \in [Users -> Int] /\ owed \in [Users -> Int]
      /\ \A u \in Users : scaled[u] = SCALE * claims[u] /\ scaled[u] <= owed[u]
  <2>1. ASSUME NEW u \in Users
        PROVE  /\ stakeAmount[u] + Earned(u) \in Nat /\ OwedAt(u, RewardPerToken) \in Nat
               /\ SCALE * (stakeAmount[u] + Earned(u)) <= OwedAt(u, RewardPerToken)
               /\ SCALE * (stakeAmount[u] + Earned(u)) \in Nat
    BY <1>1, Types, EarnedType, ClaimWithinOwed, RewardPerTokenType, OwedType
  <2> QED
    BY <2>1
<1>3. OwedToAll(RewardPerToken) = SumFunction(owed)
  BY DEF OwedToAll
<1>4. SumFunction(claims) \in Nat /\ claims \in [Users -> Int]
  <2>1. claims \in [Users -> Int]
    BY <1>2
  <2> HIDE DEF claims
  <2> QED
    BY <1>2, <2>1, StakingAssumption, SumNatural
<1>5. SCALE * SumFunction(claims) <= SumFunction(owed)
  <2> HIDE DEF claims, scaled, owed
  <2>1. SumFunction(scaled) = SCALE * SumFunction(claims)
    BY <1>1, <1>2, <1>4, Types, StakingAssumption, SumScale
  <2>2. SumFunction(scaled) <= SumFunction(owed)
    BY <1>2, StakingAssumption, SumOrder
  <2> QED
    BY <2>1, <2>2
<1>6. SumFunction(claims) + Stream <= balance
  <2> HIDE DEF claims, scaled, owed
  <2>1. Stream \in Nat
    BY EmissionCovers
  <2>2. SCALE * (SumFunction(claims) + Stream) = SCALE * SumFunction(claims) + SCALE * Stream
    BY <1>1, <1>4, <2>1, Types, Distribution
  <2>3. SCALE * SumFunction(claims) \in Nat
    BY <1>1, <1>4, Types, ProductType
  <2>4. SCALE * (SumFunction(claims) + Stream) <= SCALE * balance
    BY <1>1, <1>3, <1>5, <2>2, <2>3, FundedNow, Types
  <2>5. (SumFunction(claims) + Stream) * SCALE <= balance * SCALE
    BY <1>1, <1>4, <2>1, <2>4, Types, Distribution
  <2> QED
    BY <1>1, <1>4, <2>1, <2>5, Types, CancelFactor
<1> QED
  BY <1>4, <1>6, <1>1, Types, EmissionCovers DEF Backed

LEMMA InitBacked == Init => BackedInv
<1> SUFFICES ASSUME Init PROVE BackedInv
  OBVIOUS
<1>1. Inv
  BY InitInv
<1>2. StakesAddUp
  <2>1. stakeAmount \in [Users -> Int] /\ \A u \in Users : stakeAmount[u] = 0
    BY DEF Init
  <2>2. SumFunction(stakeAmount) = 0
    BY <2>1, StakingAssumption, SumZero
  <2> QED
    BY <2>2 DEF StakesAddUp, Init
<1>3. Funded
  <2> DEFINE owed == [u \in Users |-> OwedAt(u, rewardPerTokenStored)]
  <2>1. owed \in [Users -> Int] /\ \A u \in Users : owed[u] = 0
    BY <1>1, Types DEF Init, OwedAt
  <2>2. SumFunction(owed) = 0
    <3> HIDE DEF owed
    <3> QED
      BY <2>1, StakingAssumption, SumZero
  <2>3. SCALE * balance = 0 /\ SCALE * Unbanked = 0
    <3>1. balance = 0 /\ Unbanked = 0
      BY <1>1, Types DEF Init, Unbanked
    <3> QED
      BY <1>1, <3>1, Types
  <2> QED
    BY <2>2, <2>3 DEF Funded, OwedToAll
<1> QED
  BY <1>1, <1>2, <1>3 DEF BackedInv, WindowAhead, Init

(* Banking puts what the window emitted into the claims and leaves the     *)
(* rest of the stream, at most, unbanked.                                  *)
LEMMA BankStream ==
    ASSUME BackedInv, Bank, UNCHANGED <<periodFinish, now>>
    PROVE  WindowAhead' /\ Unbanked' \in Nat /\ Unbanked' <= Stream
<1>1. Inv /\ WindowAhead
  BY DEF BackedInv
<1>2. Stream \in Nat
  BY EmissionCovers
<1>3. CASE Lapsed
  <2>1. rewardRate' = 0
    BY <1>3 DEF Bank
  <2>2. Unbanked' = 0
    BY <1>1, <1>3, <2>1, Types, LastTType DEF Unbanked, Bank
  <2> QED
    BY <1>2, <2>1, <2>2 DEF WindowAhead
<1>4. CASE ~Lapsed
  <2>1. LastT <= periodFinish /\ lastUpdateTime' = LastT /\ rewardRate' = rewardRate
    BY <1>1, <1>4, LastTType DEF Bank
  <2>2. CASE now < periodFinish
    <3>1. LastT = now /\ Stream = rewardRate * (periodFinish - now)
      BY <2>2 DEF LastT, Stream
    <3> QED
      BY <1>1, <1>2, <2>1, <3>1, Types DEF WindowAhead, Unbanked
  <2>3. CASE ~(now < periodFinish)
    <3>1. periodFinish = 0 /\ LastT = 0
      BY <1>1, <1>4, <2>3, Types DEF Lapsed, LastT
    <3>2. Unbanked' = 0
      BY <1>1, <2>1, <3>1, Types DEF Unbanked
    <3> QED
      BY <1>2, <2>1, <3>1, <3>2, Types DEF WindowAhead
  <2> QED
    BY <2>2, <2>3
<1> QED
  BY <1>3, <1>4
\* A transaction of u that leaves him a stake of n and pays him paid of his
\* reward: every user's transaction is one.
Leaves(u, n, paid) ==
    /\ Interact(u, paid) /\ paid <= Earned(u)
    /\ stakeAmount' = [stakeAmount EXCEPT ![u] = n]
    /\ totalSupply' = totalSupply + (n - stakeAmount[u])
    /\ balance' = balance + (n - stakeAmount[u]) - paid

LEMMA InteractBacked ==
    ASSUME BackedInv, Inv', NEW u \in Users, NEW n \in Nat, NEW paid \in Nat,
           Leaves(u, n, paid)
    PROVE  BackedInv'
<1> USE DEF Leaves
<1>1. Inv /\ StakesAddUp
  BY DEF BackedInv
<1>2. StakesAddUp'
  <2>1. /\ stakeAmount \in [Users -> Int] /\ stakeAmount' \in [Users -> Int]
        /\ stakeAmount'[u] = n /\ \A v \in Users \ {u} : stakeAmount'[v] = stakeAmount[v]
    BY <1>1, Types
  <2>2. SumFunction(stakeAmount') = SumFunction(stakeAmount) + (stakeAmount'[u] - stakeAmount[u])
    <3> DEFINE f == stakeAmount
               g == stakeAmount'
    <3>1. f \in [Users -> Int] /\ g \in [Users -> Int] /\ \A v \in Users \ {u} : g[v] = f[v]
      BY <2>1
    <3> HIDE DEF f, g
    <3>2. SumFunction(g) = SumFunction(f) + (g[u] - f[u])
      BY <3>1, StakingAssumption, SumChange
    <3> QED
      BY <3>2 DEF f, g
  <2> QED
    BY <1>1, <2>1, <2>2 DEF StakesAddUp
<1>3. WindowAhead' /\ Unbanked' \in Nat /\ Unbanked' <= Stream
  BY BankStream DEF Interact
<1>4. Funded'
  <2> DEFINE f == [v \in Users |-> OwedAt(v, RewardPerToken)]
             g == [v \in Users |-> OwedAt(v, rewardPerTokenStored)']
             change == n - stakeAmount[u] - paid
  <2>1. RewardPerToken \in Nat /\ rewardPerTokenStored <= RewardPerToken
        /\ rewardPerTokenStored' = RewardPerToken /\ rewardPerTokenStored' \in Nat
    BY <1>1, RewardPerTokenType DEF Interact, Bank
  <2>2. f \in [Users -> Int] /\ g \in [Users -> Int]
    <3>1. \A v \in Users : OwedAt(v, RewardPerToken) \in Nat
      BY <1>1, <2>1, OwedType
    <3>2. \A v \in Users : OwedAt(v, rewardPerTokenStored)' \in Nat
      BY OwedStoredTypeNext
    <3> QED
      BY <3>1, <3>2
  <2>3. \A v \in Users \ {u} : g[v] = f[v]
    <3>1. ASSUME NEW v \in Users \ {u}
          PROVE  /\ stakeAmount'[v] = stakeAmount[v] /\ rewards'[v] = rewards[v]
                 /\ userRewardPerTokenPaid'[v] = userRewardPerTokenPaid[v]
      BY <1>1, Types, InteractSettles
    <3> QED
      BY <2>1, <3>1 DEF OwedAt
  <2>4. g[u] = SCALE * (n + (Earned(u) - paid))
    <3>1. /\ stakeAmount'[u] = n /\ rewards'[u] = Earned(u) - paid
          /\ userRewardPerTokenPaid'[u] = RewardPerToken
      BY <1>1, Types, InteractSettles
    <3>2. n * (RewardPerToken - RewardPerToken) = 0
      BY <2>1
    <3>3. SCALE * (n + (Earned(u) - paid)) \in Int
      BY <1>1, EarnedType, Types
    <3> QED
      BY <2>1, <3>1, <3>2, <3>3 DEF OwedAt
  <2>5. g[u] - f[u] <= SCALE * change
    <3>1. Earned(u) \in Nat /\ stakeAmount[u] \in Nat
      BY <1>1, EarnedType, Types
    <3>2. SCALE * (n + (Earned(u) - paid)) = SCALE * (stakeAmount[u] + Earned(u)) + SCALE * change
      <4>1. n + (Earned(u) - paid) = (stakeAmount[u] + Earned(u)) + change
        BY <3>1
      <4>2. change \in Int /\ stakeAmount[u] + Earned(u) \in Int /\ SCALE \in Int
        BY <1>1, <3>1, Types
      <4> HIDE DEF change
      <4> QED
        BY <4>1, <4>2, Distribution
    <3>3. SCALE * (stakeAmount[u] + Earned(u)) <= f[u]
      BY <1>1, ClaimWithinOwed
    <3>4. SCALE * change \in Int /\ SCALE * (stakeAmount[u] + Earned(u)) \in Int
          /\ f[u] \in Int /\ g[u] \in Int
      BY <1>1, <2>2, <3>1, Types
    <3> HIDE DEF f, g, change
    <3> QED
      BY <2>4, <3>2, <3>3, <3>4
  <2>6. SumFunction(g) = SumFunction(f) + (g[u] - f[u])
    <3> HIDE DEF f, g
    <3> QED
      BY <2>2, <2>3, StakingAssumption, SumChange
  <2>7. SumFunction(f) = OwedToAll(RewardPerToken) /\ SumFunction(g) = OwedToAll(rewardPerTokenStored)'
    BY DEF OwedToAll
  <2>8. SCALE * balance' = SCALE * balance + SCALE * change
    <3>1. balance' = balance + change /\ balance \in Int /\ change \in Int /\ SCALE \in Int
      BY <1>1, Types
    <3> HIDE DEF change
    <3> QED
      BY <3>1, Distribution
  <2>9. SCALE * Unbanked' <= SCALE * Stream
    <3>1. Stream \in Nat
      BY EmissionCovers
    <3>2. Unbanked' * SCALE <= Stream * SCALE
      BY <1>1, <1>3, <3>1, Types, ProductMonotone
    <3> QED
      BY <1>1, <1>3, <3>1, <3>2, Types
  <2>10. /\ SumFunction(f) \in Int /\ f[u] \in Int /\ g[u] \in Int /\ SCALE * change \in Int
         /\ SCALE * balance \in Int /\ SCALE * Stream \in Int /\ SCALE * Unbanked' \in Int
    <3>1. change \in Int /\ Stream \in Int /\ Unbanked' \in Int /\ balance \in Int /\ SCALE \in Int
      BY <1>1, <1>3, EmissionCovers, Types
    <3>2. SumFunction(f) \in Int /\ f[u] \in Int /\ g[u] \in Int
      BY <2>2, <2>7, FundedNow
    <3> HIDE DEF change, f, g
    <3> QED
      BY <3>1, <3>2
  <2>11. SCALE * balance >= SumFunction(f) + SCALE * Stream
    BY <2>7, FundedNow
  <2> HIDE DEF f, g, change
  <2>12. SCALE * balance' >= SumFunction(g) + SCALE * Unbanked'
    BY <2>5, <2>6, <2>8, <2>9, <2>10, <2>11
  <2> QED
    BY <2>7, <2>12 DEF Funded
<1> QED
  BY <1>2, <1>3, <1>4 DEF BackedInv

LEMMA FundRewardsBacked ==
    ASSUME BackedInv, NEW amount \in Funding, NEW duration \in Durations,
           FundRewards(amount, duration)
    PROVE  BackedInv'
<1>1. Inv /\ StakesAddUp
  BY DEF BackedInv
<1>2. Inv'
  BY <1>1, FundRewardsInv
<1>3. StakesAddUp' /\ WindowAhead'
  BY <1>1, Types DEF FundRewards, accounts, StakesAddUp, WindowAhead
<1>4. amount \in Nat /\ duration \in Nat \ {0} /\ Stream \in Nat
  BY <1>1, Types, EmissionCovers
<1>5. Unbanked' \in Nat /\ Unbanked' <= amount + Stream
  <2>1. rewardRate' = (amount + Stream) \div duration
    <3>1. CASE now >= periodFinish
      <4>1. Stream = 0
        BY <1>1, <3>1, Types DEF Stream
      <4> QED
        BY <1>4, <3>1, <4>1 DEF FundRewards
    <3>2. CASE ~(now >= periodFinish)
      <4>1. (periodFinish - now) * rewardRate = Stream
        BY <1>1, <3>2, Types DEF Stream
      <4> QED
        BY <3>2, <4>1 DEF FundRewards
    <3> QED
      BY <3>1, <3>2
  <2>2. amount + Stream \in Nat
    BY <1>4
  <2>3. rewardRate' \in Nat /\ rewardRate' * duration <= amount + Stream
    BY <1>4, <2>1, <2>2, FloorDivision
  <2>4. Unbanked' = rewardRate' * duration
    <3>1. periodFinish' - lastUpdateTime' = duration
      BY <1>1, <1>4, Types DEF FundRewards
    <3> QED
      BY <3>1 DEF Unbanked
  <2> QED
    BY <1>4, <2>3, <2>4, ProductType
<1>6. OwedToAll(rewardPerTokenStored)' = OwedToAll(RewardPerToken)
  BY DEF OwedToAll, OwedAt, FundRewards, accounts
<1>7. SCALE * balance' = SCALE * balance + SCALE * amount
  <2>1. balance' = balance + amount
    BY DEF FundRewards
  <2> QED
    BY <1>1, <1>4, <2>1, Types, Distribution
<1>8. SCALE * Unbanked' <= SCALE * amount + SCALE * Stream
  <2>1. Unbanked' * SCALE <= (amount + Stream) * SCALE
    BY <1>1, <1>4, <1>5, Types, ProductMonotone
  <2>2. SCALE * (amount + Stream) = SCALE * amount + SCALE * Stream
    BY <1>1, <1>4, Types, Distribution
  <2>3. /\ SCALE * Unbanked' = Unbanked' * SCALE
        /\ SCALE * (amount + Stream) = (amount + Stream) * SCALE
    BY <1>1, <1>4, <1>5, Types
  <2> QED
    BY <2>1, <2>2, <2>3
<1>9. /\ SCALE * balance \in Int /\ SCALE * amount \in Int /\ SCALE * Stream \in Int
      /\ SCALE * Unbanked' \in Int
  BY <1>1, <1>4, <1>5, Types
<1>10. SCALE * balance' >= OwedToAll(RewardPerToken) + SCALE * Unbanked'
  BY <1>7, <1>8, <1>9, FundedNow
<1> QED
  BY <1>2, <1>3, <1>6, <1>10 DEF BackedInv, Funded

LEMMA StepBacked == ASSUME BackedInv, [Next]_vars PROVE BackedInv'
<1>1. Inv
  BY DEF BackedInv
<1>2. Inv'
  BY <1>1, StepInv
<1>3. ASSUME NEW u \in Users, NEW amount \in Amounts, Stake(u, amount)
      PROVE  BackedInv'
  <2> DEFINE n == stakeAmount[u] + amount
  <2>1. n \in Nat /\ 0 \in Nat /\ Leaves(u, n, 0)
    BY <1>1, <1>3, Types, EarnedType DEF Stake, Leaves
  <2> HIDE DEF n
  <2> QED
    BY <1>2, <2>1, InteractBacked
<1>4. ASSUME NEW u \in Users, NEW amount \in Amounts, Withdraw(u, amount)
      PROVE  BackedInv'
  <2> DEFINE n == stakeAmount[u] - amount
  <2>1. n \in Nat /\ 0 \in Nat /\ Leaves(u, n, 0)
    BY <1>1, <1>4, Types, EarnedType DEF Withdraw, Leaves
  <2> HIDE DEF n
  <2> QED
    BY <1>2, <2>1, InteractBacked
<1>5. ASSUME NEW u \in Users, GetReward(u)
      PROVE  BackedInv'
  <2>1. stakeAmount[u] \in Nat /\ Earned(u) \in Nat /\ Leaves(u, stakeAmount[u], Earned(u))
    BY <1>1, <1>5, Types, EarnedType, GetRewardPays DEF Leaves
  <2> QED
    BY <1>2, <2>1, InteractBacked
<1>6. ASSUME NEW u \in Users, Exit(u)
      PROVE  BackedInv'
  <2>1. 0 \in Nat /\ Earned(u) \in Nat /\ Leaves(u, 0, Earned(u))
    BY <1>1, <1>6, Types, EarnedType, ExitPays DEF Leaves
  <2> QED
    BY <1>2, <2>1, InteractBacked
<1>7. CASE Tick \/ UNCHANGED vars
  <2>1. UNCHANGED <<accounts, totalSupply, period, balance>>
    BY <1>7 DEF Tick, vars
  <2> QED
    BY <1>2, <2>1 DEF BackedInv, StakesAddUp, WindowAhead, Funded, OwedToAll, OwedAt,
                      Unbanked, accounts, period
<1> QED
  BY <1>3, <1>4, <1>5, <1>6, <1>7, FundRewardsBacked DEF Next

(* In any order of fundings, lapses, stakes, claims and exits the contract *)
(* holds every stake, every reward earned so far and the rest of the       *)
(* running stream: claims never eat principal.                             *)
THEOREM ClaimsAreBacked == Spec => []Backed
  BY BackedByInv, InitBacked, StepBacked, PTL DEF Spec
=============================================================================
