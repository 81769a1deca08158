------------------------------ MODULE Credits ------------------------------
(***************************************************************************)
(* The pricing and earn-share arithmetic of packages/credits.  Amounts are *)
(* integer credits (1 credit = $0.01).  The source computes them with      *)
(* IEEE doubles; what that does to each formula is part of the model.      *)
(***************************************************************************)
EXTENDS Integers, Functions

CONSTANT
    \* Charges c for which the double nearest to c * 0.7 is just below the
    \* integer 7c/10, so that Math.floor loses a whole credit (90, 170, 180, ...).
    EarnRoundsShort

ASSUME EarnRoundsShortAssumption ==
    EarnRoundsShort \subseteq {c \in Nat : c > 0 /\ c % 10 = 0}

IMAGE_CREDITS == 20
AGENT_CREDITS == 15
ARISTOTLE_CREDITS == 100
ARISTOTLE_TRIVIAL_CREDITS == 1

\* Completion length assumed when the caller gives no maxTokens.
DefaultMaxTokens == 512

\* Price of a model in credits per 1000 tokens.
PriceFor(model) ==
    CASE model = "echo"     -> 1
      [] model = "llama3.2" -> 5
      [] model = "llama3.1" -> 8
      [] model = "qwen2.5"  -> 6
      [] OTHER              -> 10

\* Math.max(1, Math.ceil(totalTokens / 1000 * price)).  For these prices the
\* double product and the exact one have the same ceiling.
TokenCost(model, totalTokens) ==
    LET rounded == (totalTokens * PriceFor(model) + 999) \div 1000
    IN  IF rounded < 1 THEN 1 ELSE rounded

ReserveEstimate(model, promptTokens, maxTokens) ==
    TokenCost(model, promptTokens + maxTokens)

SettleCost(model, totalTokens) == TokenCost(model, totalTokens)

\* Mutant of WorkerEarn: the share is added to the charge, not cut from it.
MutWorkerEarn(charge) == charge + (7 * charge) \div 10

\* Math.floor(charge * 0.7)
WorkerEarn(charge) ==
    (7 * charge) \div 10 - (IF charge \in EarnRoundsShort THEN 1 ELSE 0)

\* Math.floor(charge * 0.1)
StakingFee(charge) == charge \div 10

\* SELECT SUM: the sum of f over its domain.
Total(f) == FoldFunction(LAMBDA x, y : x + y, 0, f)
=============================================================================
