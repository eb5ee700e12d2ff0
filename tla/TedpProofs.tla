----------------------------- MODULE TedpProofs -----------------------------
(***************************************************************************)
(* Proofs about Tedp, for every finite set of payees and all maxima,       *)
(* intervals, stakes and bounds.  The invariant has two parts: IInv, about *)
(* the contract's tables, which the faucet is proved from, and MoneyOK,    *)
(* about the balance rows, which the transfers of pay are followed with.   *)
(***************************************************************************)
EXTENDS Tedp, RexPoolProofs, LedgerProofs

\* The bound on what was drawn, told by the payee's own clock: the strength
\* that makes DrawdownBounded inductive.
DrawnByClock ==
    \A p \in Payees :
      drawn[p] * interval[p] <=
        max_amount[p] * Unit * (IF p \in DOMAIN payouts THEN payouts[p].last_payout ELSE now)

IInv == ContractOK /\ ChainOK /\ DrawnByClock

-----------------------------------------------------------------------------
(* What pay computes for one row                                           *)

\* Rounding a part of t that is no more than t gives no more than t.
LEMMA RoundAtMost ==
    ASSUME NEW n \in Int, NEW d \in Nat \ {0}, NEW t \in Nat, n <= t * d
    PROVE  Round(n, d) \in Int /\ Round(n, d) <= t
<1> DEFINE a == 2 * n + d
           b == 2 * d
<1>1. a \in Int /\ b \in Nat \ {0} /\ a < (t + 1) * b
  BY SMT
<1> HIDE DEF a, b
<1>2. a \div b \in Int /\ a \div b <= t
  BY <1>1, DivAtMost
<1> QED
  BY <1>2 DEF a, b, Round

\* getbalanceratio is a fraction with a positive denominator, and is not
\* positive unless there is REX.
LEMMA RatioOK ==
    ASSUME ContractOK, ChainOK, configuration # NoConfig
    PROVE  /\ getbalanceratio.num \in Int
           /\ getbalanceratio.den \in Nat \ {0}
           /\ getbalanceratio.num > 0 => rex_available(rex_pool)
<1> DEFINE E == EvmStake \div WeiPerUnit
           R == rex_pool.total_lendable
<1>1. EvmStake \in Nat /\ configuration.ratio \in Nat
  BY SMT DEF ContractOK, ChainOK, EvmStake, Config
<1>2. E \in Nat
  BY <1>1, TedpAssumption, DivLower
<1>3. R \in Nat /\ rex_pool.total_rex \in Nat /\ (R # 0 => rex_available(rex_pool))
  BY SMT DEF ChainOK, PoolOK, Pool, rex_available
<1> HIDE DEF E, R
<1>4. CASE EvmStake = 0
  BY <1>4 DEF getbalanceratio
<1>5. CASE EvmStake # 0 /\ R = 0
  <2>1. getbalanceratio = [num |-> -1, den |-> 1]
    BY <1>5 DEF getbalanceratio, R
  <2> QED
    BY <2>1, SMT
<1>6. CASE EvmStake # 0 /\ R # 0
  <2>1. getbalanceratio = [num |-> E * configuration.ratio, den |-> 100 * (R + E)]
    BY <1>6 DEF getbalanceratio, E, R
  <2>2. E * configuration.ratio \in Nat /\ 100 * (R + E) \in Nat \ {0}
    BY <1>1, <1>2, <1>3, <1>6, SMT
  <2> QED
    BY <1>3, <1>6, <2>1, <2>2, SMT
<1> QED
  BY <1>4, <1>5, <1>6

\* A row that is due is due for whole intervals that its clock is behind.
LEMMA DueOK ==
    ASSUME ContractOK, NEW p \in Due
    PROVE  /\ p \in Payees /\ p \in DOMAIN payouts
           /\ payouts_due(p) \in Nat
           /\ payouts_due(p) * interval[p] <= now - payouts[p].last_payout
           /\ total_due(p) \in Nat
           /\ total_due(p) <= payouts_due(p) * max_amount[p] * Unit
<1>1. p \in Payees /\ p \in DOMAIN payouts /\ payouts[p] \in Row
  BY DEF ContractOK, Due
<1>2. /\ now - payouts[p].last_payout \in Nat
      /\ payouts[p].interval = interval[p] /\ interval[p] \in Nat \ {0}
      /\ payouts[p].amount \in Nat /\ max_amount[p] \in Nat
      /\ payouts[p].amount <= max_amount[p]
  BY <1>1, TedpAssumption, SMT DEF ContractOK, Row
<1>3. /\ payouts_due(p) \in Nat
      /\ payouts_due(p) * interval[p] <= now - payouts[p].last_payout
  BY <1>2, DivLower DEF payouts_due
<1>4. /\ total_due(p) \in Nat
      /\ total_due(p) <= payouts_due(p) * max_amount[p] * Unit
  <2> DEFINE k == payouts_due(p)
  <2>1. k \in Nat /\ Unit \in Nat
    BY <1>3, TedpAssumption
  <2> HIDE DEF k
  <2>2. k * payouts[p].amount \in Nat /\ k * payouts[p].amount <= k * max_amount[p]
    BY <1>2, <2>1, SMT
  <2>3. /\ k * payouts[p].amount * Unit \in Nat
        /\ k * payouts[p].amount * Unit <= k * max_amount[p] * Unit
    BY <1>2, <2>1, <2>2, SMT
  <2> QED
    BY <2>3 DEF k, total_due
<1> QED
  BY <1>1, <1>3, <1>4

\* What leaves tedp for a row, once no transfer is refused, is no more than
\* the row is due: the split creates nothing.
LEMMA OutflowOK ==
    ASSUME ContractOK, ChainOK, configuration # NoConfig, NEW p \in DueWithAmount,
           \A t \in AllTransfers : t.quantity > 0
    PROVE  Outflow(p) \in Nat /\ Outflow(p) <= total_due(p)
<1>1. p \in Due /\ total_due(p) \in Nat
  BY DueOK DEF DueWithAmount
<1>2. CASE p # REX_ACCOUNT
  BY <1>1, <1>2 DEF Outflow
<1>3. CASE p = REX_ACCOUNT
  <2> DEFINE num == getbalanceratio.num
             den == getbalanceratio.den
             T == total_due(p)
             a == payout_amount(p)
  <2>1. num \in Int /\ den \in Nat \ {0} /\ (num > 0 => rex_available(rex_pool)) /\ T \in Nat
    BY <1>1, RatioOK
  <2>2. a \in Int /\ (num >= 0 => a <= T) /\ (~(num >= 0) => a = 0)
    <3>1. CASE num >= 0
      <4> DEFINE n == T * (den - num)
      <4>1. n \in Int /\ n <= T * den
        BY <2>1, <3>1, SMT
      <4> HIDE DEF n
      <4>2. Round(n, den) \in Int /\ Round(n, den) <= T
        BY <2>1, <4>1, RoundAtMost
      <4> QED
        BY <3>1, <4>2 DEF n, payout_amount
    <3>2. CASE ~(num >= 0)
      BY <3>2 DEF payout_amount
    <3> QED
      BY <3>1, <3>2
  <2>3. ViaRex(p) => a > 0
    <3> SUFFICES ASSUME ViaRex(p) PROVE a > 0
      OBVIOUS
    <3>1. [to |-> REX_ACCOUNT, quantity |-> RexPart(p)] \in AllTransfers
      BY <1>3 DEF AllTransfers, InlineTransfers
    <3>2. RexPart(p) > 0
      BY <3>1
    <3> QED
      BY <3>2 DEF RexPart
  <2>4. ViaRex(p) <=> num >= 0 /\ rex_available(rex_pool)
    BY DEF ViaRex
  <2>5. ViaEvm(p) <=> num # 0 /\ a < T
    BY DEF ViaEvm
  <2>6. Outflow(p) = (IF ViaRex(p) THEN a ELSE 0) + (IF ViaEvm(p) THEN T - a ELSE 0)
    BY <1>3 DEF Outflow, RexPart, EvmPart
  <2> HIDE DEF num, den, T, a
  <2>7. Outflow(p) \in Nat /\ Outflow(p) <= T
    BY <2>1, <2>2, <2>3, <2>4, <2>5, <2>6, SMT
  <2> QED
    BY <2>7 DEF T
<1> QED
  BY <1>2, <1>3

-----------------------------------------------------------------------------
(* The inductive invariant                                                 *)

\* One release, in the arithmetic of one payee: a bound that holds at the old
\* clock holds at the new one.
LEMMA ReleaseBound ==
    ASSUME NEW d \in Nat, NEW x \in Nat, NEW i \in Nat, NEW m \in Nat, NEW u \in Nat,
           NEW k \in Nat, NEW last \in Nat, NEW t \in Nat,
           d * i <= m * u * last, x <= k * m * u, k * i <= t - last
    PROVE  (d + x) * i <= m * u * t
<1> DEFINE mu == m * u
<1>1. mu \in Nat /\ x <= k * mu /\ d * i <= mu * last
  BY SMT
<1> HIDE DEF mu
<1>2. x * i <= (k * mu) * i
  BY <1>1, SMT
<1>3. (k * mu) * i = mu * (k * i)
  BY <1>1, SMT
<1>4. mu * (k * i) <= mu * (t - last)
  BY <1>1, SMT
<1>5. mu * (t - last) = mu * t - mu * last /\ (d + x) * i = d * i + x * i
  BY <1>1, SMT
<1>6. /\ d * i \in Nat /\ x * i \in Nat /\ mu * t \in Nat /\ mu * last \in Nat
      /\ mu * (k * i) \in Nat
  BY <1>1, SMT
<1> HIDE DEF mu
<1>7. d * i + x * i <= mu * t
  <2> DEFINE A == d * i
             B == x * i
             C == mu * t
             D == mu * last
             E == mu * (k * i)
  <2>1. A \in Nat /\ B \in Nat /\ C \in Nat /\ D \in Nat /\ E \in Nat
    BY <1>6
  <2>2. A <= D /\ B <= E /\ E <= C - D
    BY <1>1, <1>2, <1>3, <1>4, <1>5
  <2> HIDE DEF A, B, C, D, E
  <2>3. A + B <= C
    BY <2>1, <2>2, SMT
  <2> QED
    BY <2>3 DEF A, B, C
<1> QED
  BY <1>5, <1>7 DEF mu

\* A bound that holds at one time holds at every later one.
LEMMA LaterBound ==
    ASSUME NEW m \in Nat, NEW u \in Nat, NEW t1 \in Nat, NEW t2 \in Nat, NEW x \in Int,
           x <= m * u * t1, t1 <= t2
    PROVE  x <= m * u * t2
<1> DEFINE mu == m * u
<1>1. mu \in Nat /\ x <= mu * t1
  BY SMT
<1> HIDE DEF mu
<1>2. mu * t1 <= mu * t2 /\ mu * t1 \in Nat /\ mu * t2 \in Nat
  BY <1>1, SMT
<1>3. x <= mu * t2
  BY <1>1, <1>2, SMT
<1> QED
  BY <1>3 DEF mu

LEMMA InitIInv == Init => IInv
<1> SUFFICES ASSUME Init PROVE IInv
  OBVIOUS
<1> USE TedpAssumption, TedpInputsAssumption DEF Init
<1>1. ContractOK
  <2>1. payouts \in [{} -> Row] /\ {} \in SUBSET Payees /\ DOMAIN payouts = {}
    OBVIOUS
  <2>2. drawn \in [Payees -> Nat]
    OBVIOUS
  <2> QED
    BY <2>1, <2>2 DEF ContractOK
<1>2. ChainOK
  BY SMT DEF ChainOK, PoolOK, Pool, NoRex
<1>3. DrawnByClock
  BY SMT DEF DrawnByClock
<1> QED
  BY <1>1, <1>2, <1>3 DEF IInv

\* pay: the clocks of the rows that are due come to the present, against
\* no more than each was due.
LEMMA PayIInv ==
    ASSUME IInv, pay
    PROVE  IInv'
<1> USE DEF IInv
<1>1. configuration # NoConfig /\ \A t \in AllTransfers : t.quantity > 0
  BY DEF pay, CanTransferAll
<1>2. \A p \in DueWithAmount :
        /\ Outflow(p) \in Nat
        /\ Outflow(p) <= payouts_due(p) * max_amount[p] * Unit
  <2> TAKE p \in DueWithAmount
  <2>1. Outflow(p) \in Nat /\ Outflow(p) <= total_due(p)
    BY <1>1, OutflowOK
  <2>2. total_due(p) \in Nat /\ total_due(p) <= payouts_due(p) * max_amount[p] * Unit
        /\ payouts_due(p) \in Nat /\ p \in Payees
    BY DueOK DEF DueWithAmount
  <2>3. payouts_due(p) * max_amount[p] * Unit \in Int
    BY <2>2, TedpAssumption, SMT
  <2> QED
    BY <2>1, <2>2, <2>3, SMT
<1>3. ContractOK'
  <2>1. payouts' = [p \in DOMAIN payouts |->
          IF p \in Due THEN [payouts[p] EXCEPT !.last_payout = now] ELSE payouts[p]]
    BY DEF pay
  <2>2. \A p \in DOMAIN payouts : payouts'[p] \in Row
    BY <2>1, SMT DEF ContractOK, Row
  <2>3. \E S \in SUBSET Payees : payouts' \in [S -> Row]
    BY <2>1, <2>2 DEF ContractOK
  <2>4. \A p \in DOMAIN payouts' :
          /\ payouts'[p].amount <= max_amount[p]
          /\ payouts'[p].interval = interval[p]
          /\ payouts'[p].last_payout <= now'
    BY <2>1, SMT DEF ContractOK, Row, pay
  <2>5. drawn' \in [Payees -> Nat]
    BY <1>2, SMT DEF pay, ContractOK
  <2> QED
    BY <2>3, <2>4, <2>5 DEF pay, ContractOK
<1>4. ChainOK'
  <2>1. CASE REX_ACCOUNT \in DueWithAmount
    <3>1. RexPart(REX_ACCOUNT) \in Nat
      <4>1. CASE ViaRex(REX_ACCOUNT)
        <5>1. [to |-> REX_ACCOUNT, quantity |-> RexPart(REX_ACCOUNT)] \in AllTransfers
          BY <2>1, <4>1 DEF AllTransfers, InlineTransfers
        <5>2. RexPart(REX_ACCOUNT) > 0
          BY <1>1, <5>1
        <5>3. RexPart(REX_ACCOUNT) \in Int
          <6>1. /\ getbalanceratio.num \in Int
                /\ getbalanceratio.den \in Nat \ {0}
            BY <1>1, RatioOK
          <6>2. total_due(REX_ACCOUNT) \in Nat
            BY <2>1, DueOK DEF DueWithAmount
          <6> DEFINE n == total_due(REX_ACCOUNT) * (getbalanceratio.den - getbalanceratio.num)
          <6>3. n \in Int /\ n <= total_due(REX_ACCOUNT) * getbalanceratio.den
            BY <4>1, <6>1, <6>2, SMT DEF ViaRex
          <6> HIDE DEF n
          <6>4. Round(n, getbalanceratio.den) \in Int
            BY <6>1, <6>2, <6>3, RoundAtMost
          <6> QED
            BY <4>1, <6>4 DEF n, RexPart, payout_amount, ViaRex
        <5> QED
          BY <5>2, <5>3, SMT
      <4>2. CASE ~ViaRex(REX_ACCOUNT)
        BY <4>2 DEF RexPart
      <4> QED
        BY <4>1, <4>2
    <3>2. rex_pool' = channel_to_rex(rex_pool, RexPart(REX_ACCOUNT))
      BY <2>1 DEF pay
    <3>3. PoolOK(rex_pool')
      BY <3>1, <3>2, ChannelToRexOK DEF ChainOK, PoolOK
    <3> QED
      BY <3>3 DEF ChainOK, pay
  <2>2. CASE REX_ACCOUNT \notin DueWithAmount
    BY <2>2 DEF ChainOK, pay
  <2> QED
    BY <2>1, <2>2
<1>5. DrawnByClock'
  <2> SUFFICES ASSUME NEW p \in Payees
               PROVE  drawn'[p] * interval[p] <= max_amount[p] * Unit *
                        (IF p \in DOMAIN payouts' THEN payouts'[p].last_payout ELSE now')
    BY DEF DrawnByClock
  <2>1. /\ drawn[p] \in Nat /\ interval[p] \in Nat /\ max_amount[p] \in Nat /\ Unit \in Nat
        /\ now \in Nat /\ now' = now /\ DOMAIN payouts' = DOMAIN payouts
        /\ drawn'[p] = IF p \in DueWithAmount THEN drawn[p] + Outflow(p) ELSE drawn[p]
    BY TedpAssumption DEF ContractOK, pay
  <2>2. CASE p \in Due
    <3> DEFINE x == IF p \in DueWithAmount THEN Outflow(p) ELSE 0
               last == payouts[p].last_payout
    <3>1. p \in DOMAIN payouts /\ payouts'[p].last_payout = now
      BY <2>2 DEF pay, Due, ContractOK, Row
    <3>2. last \in Nat
      BY <3>1 DEF ContractOK, Row
    <3>3. /\ payouts_due(p) \in Nat
          /\ payouts_due(p) * interval[p] <= now - last
      BY <2>2, DueOK
    <3>4. x \in Nat /\ x <= payouts_due(p) * max_amount[p] * Unit
      <4>1. payouts_due(p) * max_amount[p] * Unit \in Nat
        BY <2>1, <3>3, SMT
      <4> QED
        BY <1>2, <4>1, SMT
    <3>5. drawn[p] * interval[p] <= max_amount[p] * Unit * last
      BY <3>1 DEF DrawnByClock
    <3>6. drawn'[p] = drawn[p] + x
      BY <2>1, SMT
    <3> HIDE DEF x, last
    <3>7. (drawn[p] + x) * interval[p] <= max_amount[p] * Unit * now
      BY <2>1, <3>2, <3>3, <3>4, <3>5, ReleaseBound
    <3> QED
      BY <2>1, <3>1, <3>6, <3>7
  <2>3. CASE p \notin Due
    <3>1. drawn'[p] = drawn[p]
      BY <2>1, <2>3 DEF DueWithAmount
    <3>2. p \in DOMAIN payouts => payouts'[p] = payouts[p]
      BY <2>3 DEF pay
    <3> QED
      BY <2>1, <3>1, <3>2 DEF DrawnByClock
  <2> QED
    BY <2>2, <2>3
<1> QED
  BY <1>3, <1>4, <1>5

\* setpayout: a new row starts its clock now, an old one keeps it.
LEMMA SetPayoutIInv ==
    ASSUME IInv, NEW to \in Payees, NEW amount \in AmountInputs, setpayout(to, amount)
    PROVE  IInv'
<1> USE TedpAssumption DEF IInv
<1>1. amount \in Nat /\ amount <= max_amount[to] /\ now \in Nat
  BY TedpInputsAssumption DEF setpayout, ContractOK
<1> DEFINE row == [amount |-> amount, interval |-> interval[to],
                   last_payout |-> IF to \in DOMAIN payouts THEN payouts[to].last_payout ELSE now]
<1>2. payouts' = [p \in DOMAIN payouts \cup {to} |-> IF p # to THEN payouts[p] ELSE row]
  BY DEF setpayout
<1>3. /\ row \in Row /\ row.amount <= max_amount[to] /\ row.interval = interval[to]
      /\ row.last_payout <= now
  BY <1>1, SMT DEF ContractOK, Row
<1>4. row.last_payout = IF to \in DOMAIN payouts THEN payouts[to].last_payout ELSE now
  OBVIOUS
<1> HIDE DEF row
<1>5. ContractOK'
  <2>1. \E S \in SUBSET Payees : payouts' \in [S -> Row]
    <3>1. PICK S \in SUBSET Payees : payouts \in [S -> Row]
      BY DEF ContractOK
    <3>2. payouts' \in [S \cup {to} -> Row] /\ S \cup {to} \in SUBSET Payees
      BY <1>2, <1>3, <3>1
    <3> QED
      BY <3>2
  <2>2. \A p \in DOMAIN payouts' :
          /\ payouts'[p].amount <= max_amount[p]
          /\ payouts'[p].interval = interval[p]
          /\ payouts'[p].last_payout <= now'
    BY <1>2, <1>3 DEF ContractOK, setpayout
  <2> QED
    BY <2>1, <2>2 DEF ContractOK, setpayout
<1>6. ChainOK'
  BY DEF ChainOK, setpayout
<1>7. DrawnByClock'
  <2> SUFFICES ASSUME NEW p \in Payees
               PROVE  drawn'[p] * interval[p] <= max_amount[p] * Unit *
                        (IF p \in DOMAIN payouts' THEN payouts'[p].last_payout ELSE now')
    BY DEF DrawnByClock
  <2>1. (IF p \in DOMAIN payouts' THEN payouts'[p].last_payout ELSE now')
          = (IF p \in DOMAIN payouts THEN payouts[p].last_payout ELSE now)
    BY <1>2, <1>4 DEF setpayout
  <2> QED
    BY <2>1 DEF DrawnByClock, setpayout
<1> QED
  BY <1>5, <1>6, <1>7

\* delpayout: without a row the payee is measured by the time itself, which
\* is no earlier than its clock was.
LEMMA DelPayoutIInv ==
    ASSUME IInv, NEW to \in Payees, delpayout(to)
    PROVE  IInv'
<1> USE TedpAssumption DEF IInv
<1>1. payouts' = [p \in DOMAIN payouts \ {to} |-> payouts[p]] /\ UNCHANGED <<now, drawn>>
  BY DEF delpayout
<1>2. ContractOK'
  <2>1. PICK S \in SUBSET Payees : payouts \in [S -> Row]
    BY DEF ContractOK
  <2>2. payouts' \in [S \ {to} -> Row] /\ S \ {to} \in SUBSET Payees
    BY <1>1, <2>1
  <2>3. \E R \in SUBSET Payees : payouts' \in [R -> Row]
    BY <2>2
  <2>4. DOMAIN payouts' \subseteq DOMAIN payouts
        /\ \A p \in DOMAIN payouts' : payouts'[p] = payouts[p]
    BY <1>1
  <2> QED
    BY <1>1, <2>3, <2>4, Z3T(30) DEF ContractOK, delpayout
<1>3. ChainOK'
  BY DEF ChainOK, delpayout
<1>4. DrawnByClock'
  <2> SUFFICES ASSUME NEW p \in Payees
               PROVE  drawn'[p] * interval[p] <= max_amount[p] * Unit *
                        (IF p \in DOMAIN payouts' THEN payouts'[p].last_payout ELSE now')
    BY DEF DrawnByClock
  <2>1. CASE p # to
    BY <1>1, <2>1 DEF DrawnByClock
  <2>2. CASE p = to
    <3>1. to \in DOMAIN payouts /\ payouts[to].last_payout \in Nat /\ now \in Nat
          /\ payouts[to].last_payout <= now
      BY DEF delpayout, ContractOK, Row
    <3>2. drawn[p] * interval[p] <= max_amount[p] * Unit * payouts[to].last_payout
      BY <2>2, <3>1 DEF DrawnByClock
    <3>3. max_amount[p] \in Nat /\ Unit \in Nat /\ drawn[p] * interval[p] \in Int
      BY SMT DEF ContractOK
    <3>4. drawn[p] * interval[p] <= max_amount[p] * Unit * now
      BY <3>1, <3>2, <3>3, LaterBound
    <3> QED
      BY <1>1, <2>2, <3>4
  <2> QED
    BY <2>1, <2>2
<1> QED
  BY <1>2, <1>3, <1>4

LEMMA TickIInv ==
    ASSUME IInv, Tick
    PROVE  IInv'
<1> USE TedpAssumption DEF IInv
<1>1. now \in Nat /\ now' = now + 1 /\ UNCHANGED <<payouts, drawn>>
  BY DEF Tick, ContractOK
<1>2. ContractOK'
  <2>1. \A p \in DOMAIN payouts : payouts[p].last_payout \in Nat /\ payouts[p].last_payout <= now
    BY DEF ContractOK, Row
  <2>2. \A p \in DOMAIN payouts : payouts[p].last_payout <= now + 1
    BY <1>1, <2>1, SMT
  <2> QED
    BY <1>1, <2>2, SMT DEF ContractOK, Tick
<1>3. ChainOK'
  BY DEF ChainOK, Tick
<1>4. DrawnByClock'
  <2> SUFFICES ASSUME NEW p \in Payees
               PROVE  drawn'[p] * interval[p] <= max_amount[p] * Unit *
                        (IF p \in DOMAIN payouts' THEN payouts'[p].last_payout ELSE now')
    BY DEF DrawnByClock
  <2>1. CASE p \in DOMAIN payouts
    BY <1>1, <2>1 DEF DrawnByClock
  <2>2. CASE p \notin DOMAIN payouts
    <3>1. drawn[p] * interval[p] <= max_amount[p] * Unit * now
      BY <2>2 DEF DrawnByClock
    <3>2. max_amount[p] \in Nat /\ Unit \in Nat /\ drawn[p] * interval[p] \in Int
          /\ now <= now' /\ now' \in Nat
      BY <1>1, SMT DEF ContractOK
    <3>3. drawn[p] * interval[p] <= max_amount[p] * Unit * now'
      BY <1>1, <3>1, <3>2, LaterBound
    <3> QED
      BY <1>1, <2>2, <3>3
  <2> QED
    BY <2>1, <2>2
<1> QED
  BY <1>2, <1>3, <1>4

\* The actions that touch neither the payouts nor the history.
LEMMA OtherIInv ==
    ASSUME IInv,
           \/ \E r \in RatioInputs : setratio(r)
           \/ setevmconfig \/ EvmStaking \/ Funded \/ InflationOffset
           \/ RexBought \/ RexSold \/ UNCHANGED vars
    PROVE  IInv'
<1> USE TedpAssumption, TedpInputsAssumption DEF IInv
<1>1. UNCHANGED <<now, payouts, drawn>>
  BY DEF setratio, setevmconfig, EvmStaking, Funded, InflationOffset, RexBought, RexSold, vars
<1>2. configuration' \in Config \cup {NoConfig}
  <2>1. configuration \in Config \cup {NoConfig} /\ StoredConfig \subseteq Config
    <3>1. \A r \in AnyRatio : [ratio |-> r, evm |-> FALSE] \in Config
      BY DEF Config
    <3> QED
      BY <3>1 DEF ContractOK, StoredConfig
  <2>2. CASE \E r \in RatioInputs : setratio(r)
    <3>1. PICK r \in RatioInputs : setratio(r)
      BY <2>2
    <3>2. PICK entry_stored \in StoredConfig :
            configuration' = [entry_stored EXCEPT !.ratio = r]
      BY <3>1 DEF setratio
    <3>3. r \in Nat /\ entry_stored \in Config
      BY <2>1
    <3> QED
      BY <3>2, <3>3 DEF Config
  <2>3. CASE setevmconfig
    <3>1. PICK entry_stored \in StoredConfig :
            configuration' = [entry_stored EXCEPT !.evm = TRUE]
      BY <2>3 DEF setevmconfig
    <3>2. entry_stored \in Config
      BY <2>1
    <3> QED
      BY <3>1, <3>2 DEF Config
  <2>4. CASE EvmStaking \/ Funded \/ InflationOffset \/ RexBought \/ RexSold \/ UNCHANGED vars
    BY <2>1, <2>4 DEF EvmStaking, Funded, InflationOffset, RexBought, RexSold, vars
  <2> QED
    BY <2>2, <2>3, <2>4
<1>3. ContractOK'
  BY <1>1, <1>2 DEF ContractOK
<1>4. PoolOK(rex_pool')
  <2>1. PoolOK(rex_pool) /\ rex_pool \in Pool
    BY DEF ChainOK, PoolOK
  <2>2. CASE RexBought
    <3>1. PICK payment \in RexPurchases : rex_pool' = add_to_rex_pool(rex_pool, payment)
      BY <2>2 DEF RexBought
    <3>2. CanAddToRexPool(rex_pool) /\ payment \in Nat
      BY <2>2 DEF RexBought
    <3> QED
      BY <2>1, <3>1, <3>2, AddToRexPoolOK
  <2>3. CASE RexSold
    <3>1. PICK rex \in 1..rex_pool.total_rex :
            CanFill(rex_pool, rex) /\ rex_pool' = fill_rex_order(rex_pool, rex)
      BY <2>3 DEF RexSold
    <3> QED
      BY <2>1, <3>1, FillRexOrderOK
  <2>4. CASE ~RexBought /\ ~RexSold
    BY <2>1, <2>4 DEF setratio, setevmconfig, EvmStaking, Funded, InflationOffset, vars
  <2> QED
    BY <2>2, <2>3, <2>4
<1>5. evm_balance' \in Nat
  BY DEF ChainOK, setratio, setevmconfig, EvmStaking, Funded, InflationOffset,
         RexBought, RexSold, vars
<1>6. DrawnByClock'
  BY <1>1 DEF DrawnByClock
<1> QED
  BY <1>3, <1>4, <1>5, <1>6 DEF ChainOK

LEMMA NextIInv == IInv /\ [Next]_vars => IInv'
<1> SUFFICES ASSUME IInv, [Next]_vars PROVE IInv'
  OBVIOUS
<1>1. CASE \E p \in Payees, amount \in AmountInputs : setpayout(p, amount)
  BY <1>1, SetPayoutIInv
<1>2. CASE \E p \in Payees : delpayout(p)
  BY <1>2, DelPayoutIInv
<1>3. CASE pay
  BY <1>3, PayIInv
<1>4. CASE Tick
  BY <1>4, TickIInv
<1>5. CASE \/ \E r \in RatioInputs : setratio(r)
           \/ setevmconfig \/ EvmStaking \/ Funded \/ InflationOffset
           \/ RexBought \/ RexSold \/ UNCHANGED vars
  BY <1>5, OtherIInv
<1> QED
  BY <1>1, <1>2, <1>3, <1>4, <1>5 DEF Next

THEOREM SpecIInv == Spec => []IInv
  BY InitIInv, NextIInv, PTL DEF Spec

-----------------------------------------------------------------------------
(* The theorems                                                            *)

\* The contract's tables keep their types, their maxima and intervals, and
\* no clock is ever ahead of the time.
THEOREM ContractTypes == Spec => []ContractOK
<1>1. IInv => ContractOK
  BY DEF IInv
<1> QED
  BY <1>1, SpecIInv, PTL

\* No sequence of calls, by anyone, draws more for a payee than its maximum
\* for the time that has passed.
THEOREM DrawdownIsBounded == Spec => []DrawdownBounded
<1>1. IInv => DrawdownBounded
  <2> SUFFICES ASSUME IInv, NEW p \in Payees
               PROVE  drawn[p] * interval[p] <= max_amount[p] * Unit * now
    BY DEF DrawdownBounded
  <2> USE TedpAssumption DEF IInv
  <2> DEFINE t == IF p \in DOMAIN payouts THEN payouts[p].last_payout ELSE now
  <2>1. t \in Nat /\ now \in Nat /\ t <= now
    BY SMT DEF ContractOK, Row
  <2>2. max_amount[p] \in Nat /\ Unit \in Nat /\ drawn[p] * interval[p] \in Int
    BY SMT DEF ContractOK
  <2>3. drawn[p] * interval[p] <= max_amount[p] * Unit * t
    BY DEF DrawnByClock
  <2> HIDE DEF t
  <2> QED
    BY <2>1, <2>2, <2>3, LaterBound
<1> QED
  BY <1>1, SpecIInv, PTL

-----------------------------------------------------------------------------
(* tedp implements the faucet                                              *)

Clock == [p \in DOMAIN payouts |-> payouts[p].last_payout]

LEMMA InitRefines == Init => Promise!Init
BY DEF Init, Promise!Init

\* A transaction of pay is a release to all rows that are due.
LEMMA PayRefines ==
    ASSUME IInv, pay
    PROVE  Promise!Next
<1> USE DEF IInv
<1>1. configuration # NoConfig /\ \A t \in AllTransfers : t.quantity > 0
  BY DEF pay, CanTransferAll
<1> DEFINE paid == [p \in Due |-> IF p \in DueWithAmount THEN Outflow(p) ELSE 0]
<1>2. Due \subseteq DOMAIN payouts /\ DueWithAmount \subseteq Due /\ DOMAIN payouts \subseteq Payees
  BY DEF Due, DueWithAmount, ContractOK
<1>3. \A p \in Due : Promise!Claim(p) = payouts_due(p) * max_amount[p] * Unit
                    /\ Promise!Claim(p) \in Nat
  <2> TAKE p \in Due
  <2>1. Promise!Claim(p) = payouts_due(p) * max_amount[p] * Unit
    BY <1>2 DEF Promise!Claim, Promise!Intervals, payouts_due, ContractOK
  <2>2. payouts_due(p) \in Nat /\ max_amount[p] \in Nat /\ Unit \in Nat
    BY <1>2, DueOK, TedpAssumption
  <2>3. payouts_due(p) * max_amount[p] * Unit \in Nat
    BY <2>2, SMT
  <2> QED
    BY <2>1, <2>3
<1>4. \A p \in Due : paid[p] \in 0..Promise!Claim(p)
  <2> TAKE p \in Due
  <2>1. CASE p \in DueWithAmount
    <3>1. Outflow(p) \in Nat /\ Outflow(p) <= total_due(p)
      BY <1>1, <2>1, OutflowOK
    <3>2. total_due(p) \in Nat /\ total_due(p) <= payouts_due(p) * max_amount[p] * Unit
      BY DueOK
    <3>3. Outflow(p) \in 0..Promise!Claim(p)
      BY <1>3, <3>1, <3>2, SMT
    <3> QED
      BY <2>1, <3>3
  <2>2. CASE p \notin DueWithAmount
    <3>1. 0 \in 0..Promise!Claim(p)
      BY <1>3, SMT
    <3> QED
      BY <2>2, <3>1
  <2> QED
    BY <2>1, <2>2
<1>5. paid \in [Due -> UNION {0..Promise!Claim(p) : p \in Due}]
  BY <1>4
<1>6. \A p \in Due : paid[p] <= Promise!Claim(p)
  BY <1>3, <1>4, SMT
<1>7. Clock' = [p \in DOMAIN Clock |-> IF p \in Due THEN now ELSE Clock[p]]
  <2>1. payouts' = [p \in DOMAIN payouts |->
          IF p \in Due THEN [payouts[p] EXCEPT !.last_payout = now] ELSE payouts[p]]
    BY DEF pay
  <2>2. \A p \in DOMAIN payouts : payouts[p] \in Row
    BY DEF ContractOK
  <2>3. \A p \in DOMAIN payouts :
          payouts'[p].last_payout = IF p \in Due THEN now ELSE payouts[p].last_payout
    BY <2>1, <2>2 DEF Row
  <2> QED
    BY <2>1, <2>3 DEF Clock
<1>8. drawn' = [p \in Payees |-> IF p \in Due THEN drawn[p] + paid[p] ELSE drawn[p]]
  <2>1. \A p \in Payees : drawn[p] \in Nat
    BY DEF ContractOK
  <2>2. \A p \in Payees : (IF p \in DueWithAmount THEN drawn[p] + Outflow(p) ELSE drawn[p])
                          = (IF p \in Due THEN drawn[p] + paid[p] ELSE drawn[p])
    BY <1>2, <2>1, SMT
  <2> QED
    BY <2>2 DEF pay
<1> HIDE DEF paid
<1>9. PICK S : S = Due
  OBVIOUS
<1>10. S \in SUBSET DOMAIN Clock
  BY <1>2, <1>9 DEF Clock
<1>11. Promise!Release(S)
  BY <1>5, <1>6, <1>7, <1>8, <1>9 DEF Promise!Release, Clock, pay
<1> QED
  BY <1>10, <1>11 DEF Promise!Next, Clock

LEMMA SetPayoutRefines ==
    ASSUME IInv, NEW to \in Payees, NEW amount \in AmountInputs, setpayout(to, amount)
    PROVE  Promise!Next \/ UNCHANGED Promise!vars
<1>1. \A p \in DOMAIN payouts' :
        payouts'[p].last_payout = IF p \in DOMAIN payouts THEN payouts[p].last_payout ELSE now
  BY DEF setpayout
<1>2. DOMAIN payouts' = DOMAIN payouts \cup {to} /\ UNCHANGED <<now, drawn>>
  BY DEF setpayout
<1>3. CASE to \in DOMAIN payouts
  <2>1. Clock' = Clock
    BY <1>1, <1>2, <1>3 DEF Clock
  <2> QED
    BY <1>2, <2>1 DEF Promise!vars, Clock
<1>4. CASE to \notin DOMAIN payouts
  <2>1. Clock' = [q \in DOMAIN Clock \cup {to} |-> IF q = to THEN now ELSE Clock[q]]
    BY <1>1, <1>2, <1>4 DEF Clock
  <2>2. Promise!Enroll(to)
    BY <1>2, <1>4, <2>1 DEF Promise!Enroll, Clock
  <2> QED
    BY <2>2 DEF Promise!Next
<1> QED
  BY <1>3, <1>4

LEMMA NextRefines == IInv /\ [Next]_vars => [Promise!Next]_(Promise!vars)
<1> SUFFICES ASSUME IInv, [Next]_vars
             PROVE  Promise!Next \/ UNCHANGED Promise!vars
  OBVIOUS
<1>1. CASE \E p \in Payees, amount \in AmountInputs : setpayout(p, amount)
  BY <1>1, SetPayoutRefines
<1>2. CASE \E p \in Payees : delpayout(p)
  <2>1. PICK p \in Payees : delpayout(p)
    BY <1>2
  <2>2. Promise!Remove(p)
    BY <2>1 DEF delpayout, Promise!Remove
  <2> QED
    BY <2>2 DEF Promise!Next
<1>3. CASE pay
  BY <1>3, PayRefines
<1>4. CASE Tick
  BY <1>4 DEF Tick, Promise!Next, Promise!Tick
<1>5. CASE \/ \E r \in RatioInputs : setratio(r)
           \/ setevmconfig \/ EvmStaking \/ Funded \/ InflationOffset
           \/ RexBought \/ RexSold \/ UNCHANGED vars
  <2>1. UNCHANGED <<now, payouts, drawn>>
    BY <1>5 DEF setratio, setevmconfig, EvmStaking, Funded, InflationOffset, RexBought, RexSold, vars
  <2> QED
    BY <2>1 DEF Promise!vars
<1> QED
  BY <1>1, <1>2, <1>3, <1>4, <1>5 DEF Next

\* Every behaviour of tedp is one of the rate-limited faucet.
THEOREM Refinement == Spec => RefinesFaucet
BY SpecIInv, InitRefines, NextRefines, PTL DEF Spec, RefinesFaucet, Promise!Spec
-----------------------------------------------------------------------------
(* The transfers of pay                                                    *)

\* Every account but the payees', with a row or not.
Holders == Payees \cup {Self, EVM_ACCOUNT, Others}

\* The balance rows, and that REX which exists is worth something: shares are
\* sold for less than they are worth unless all are sold.
MoneyOK ==
    /\ IsTable(accounts) /\ NoDebts(accounts)
    /\ DOMAIN accounts \subseteq Holders
    /\ rex_available(rex_pool) => rex_pool.total_lendable > 0

ToRex == [to |-> REX_ACCOUNT, quantity |-> RexPart(REX_ACCOUNT)]
ToEvm == [to |-> EVM_ACCOUNT, quantity |-> EvmPart(REX_ACCOUNT)]

\* The row that a transfer is for.
OwnerOf(t) == IF t.to = EVM_ACCOUNT THEN REX_ACCOUNT ELSE t.to

\* The split of a REX row.
LEMMA SplitOK ==
    ASSUME ContractOK, ChainOK, configuration # NoConfig, NEW p \in Due
    PROVE  /\ payout_amount(p) \in Int /\ total_due(p) \in Nat
           /\ payout_amount(p) <= total_due(p)
           /\ RexPart(p) \in Int /\ EvmPart(p) \in Int
<1> DEFINE num == getbalanceratio.num
           den == getbalanceratio.den
           T == total_due(p)
           n == T * (den - num)
<1>1. num \in Int /\ den \in Nat \ {0} /\ T \in Nat
  BY RatioOK, DueOK
<1>2. num >= 0 => n \in Int /\ n <= T * den
  BY <1>1, SMT
<1>3. payout_amount(p) = IF num >= 0 THEN Round(n, den) ELSE 0
  BY DEF payout_amount
<1> HIDE DEF n, num, den, T
<1>4. num >= 0 => Round(n, den) \in Int /\ Round(n, den) <= T
  BY <1>1, <1>2, RoundAtMost
<1>5. payout_amount(p) \in Int /\ payout_amount(p) <= T
  BY <1>1, <1>3, <1>4
<1>6. RexPart(p) \in Int /\ EvmPart(p) \in Int
  BY <1>1, <1>5 DEF RexPart, EvmPart, T
<1> QED
  BY <1>1, <1>5, <1>6 DEF T

\* Every transfer is for one row, and no row has two to one account.
LEMMA TransferOwner ==
    ASSUME ContractOK, ChainOK, configuration # NoConfig, NEW p \in DueWithAmount
    PROVE  /\ \A t \in InlineTransfers(p) :
                /\ OwnerOf(t) = p /\ t.quantity \in Int
                /\ t.to \in Payees \cup {EVM_ACCOUNT}
           /\ \A t, u \in InlineTransfers(p) : t.to = u.to => t = u
<1>1. p \in Due /\ p \in Payees /\ total_due(p) \in Nat
  BY DueOK DEF DueWithAmount
<1>2. EVM_ACCOUNT \notin Payees
  BY TedpAssumption
<1>3. CASE p # REX_ACCOUNT
  <2>1. InlineTransfers(p) = {[to |-> p, quantity |-> total_due(p)]}
    BY <1>3 DEF InlineTransfers
  <2> QED
    BY <1>1, <1>2, <2>1 DEF OwnerOf
<1>4. CASE p = REX_ACCOUNT
  <2>1. InlineTransfers(p) \subseteq {ToRex, ToEvm}
    BY <1>4 DEF InlineTransfers, ToRex, ToEvm
  <2>2. RexPart(p) \in Int /\ EvmPart(p) \in Int
    BY <1>1, SplitOK
  <2>3. REX_ACCOUNT # EVM_ACCOUNT
    BY <1>1, <1>2, <1>4
  <2> QED
    BY <1>1, <1>4, <2>1, <2>2, <2>3 DEF OwnerOf, ToRex, ToEvm
<1> QED
  BY <1>3, <1>4

\* What is sent for a row is what leaves the reserve for it.
LEMMA RowSum ==
    ASSUME ContractOK, ChainOK, configuration # NoConfig, NEW p \in DueWithAmount
    PROVE  /\ IsFiniteSet(InlineTransfers(p))
           /\ SumOver(Amounts(AllTransfers), InlineTransfers(p)) = Outflow(p)
<1> DEFINE q == Amounts(AllTransfers)
<1>1. p \in Due /\ total_due(p) \in Nat
  BY DueOK DEF DueWithAmount
<1>2. \A t \in InlineTransfers(p) : q[t] = t.quantity
  BY DEF Amounts, AllTransfers
<1> HIDE DEF q
<1>3. CASE p # REX_ACCOUNT
  <2> DEFINE t == [to |-> p, quantity |-> total_due(p)]
  <2>1. InlineTransfers(p) = {t} /\ Outflow(p) = total_due(p)
    BY <1>3 DEF InlineTransfers, Outflow
  <2>2. q[t] = total_due(p)
    BY <1>2, <2>1
  <2> HIDE DEF t
  <2>3. SumOver(q, {t}) = q[t] /\ IsFiniteSet({t})
    <3>1. q[t] \in Int
      BY <1>1, <2>2
    <3>2. SumOver(q, {t}) = q[t]
      BY <3>1, SumSingle
    <3> QED
      BY <3>2, FS_Singleton
  <2> QED
    BY <2>1, <2>2, <2>3 DEF q
<1>4. CASE p = REX_ACCOUNT
  <2> DEFINE A == IF ViaRex(p) THEN {ToRex} ELSE {}
             B == IF ViaEvm(p) THEN {ToEvm} ELSE {}
  <2>1. InlineTransfers(p) = A \cup B
    BY <1>4 DEF InlineTransfers, ToRex, ToEvm
  <2>2. RexPart(p) \in Int /\ EvmPart(p) \in Int
    BY <1>1, SplitOK
  <2>3. IsFiniteSet(A) /\ IsFiniteSet(B)
    BY FS_Singleton, FS_EmptySet
  <2>4. A \cap B = {}
    <3>1. ToRex.to # ToEvm.to
      BY TedpAssumption DEF ToRex, ToEvm
    <3> QED
      BY <3>1
  <2>5. \A t \in A \cup B : q[t] \in Int
    BY <1>2, <1>4, <2>1, <2>2 DEF ToRex, ToEvm
  <2>6. SumOver(q, A \cup B) = SumOver(q, A) + SumOver(q, B)
    <3> HIDE DEF A, B
    <3> QED
      BY <2>3, <2>4, <2>5, SumUnion
  <2>7. SumOver(q, A) = RexPart(p)
    <3>1. CASE ViaRex(p)
      <4>1. A = {ToRex} /\ q[ToRex] = RexPart(p)
        BY <1>2, <1>4, <2>1, <3>1 DEF ToRex
      <4>2. SumOver(q, {ToRex}) = q[ToRex]
        BY <2>2, <4>1, SumSingle
      <4> QED
        BY <4>1, <4>2
    <3>2. CASE ~ViaRex(p)
      BY <3>2, SumEmpty DEF RexPart
    <3> QED
      BY <3>1, <3>2
  <2>8. SumOver(q, B) = EvmPart(p)
    <3>1. CASE ViaEvm(p)
      <4>1. B = {ToEvm} /\ q[ToEvm] = EvmPart(p)
        BY <1>2, <1>4, <2>1, <3>1 DEF ToEvm
      <4>2. SumOver(q, {ToEvm}) = q[ToEvm]
        BY <2>2, <4>1, SumSingle
      <4> QED
        BY <4>1, <4>2
    <3>2. CASE ~ViaEvm(p)
      BY <3>2, SumEmpty DEF EvmPart
    <3> QED
      BY <3>1, <3>2
  <2>9. Outflow(p) = RexPart(p) + EvmPart(p)
    BY <1>4 DEF Outflow
  <2>10. IsFiniteSet(A \cup B)
    BY <2>3, FS_Union
  <2> HIDE DEF A, B
  <2> QED
    BY <2>1, <2>6, <2>7, <2>8, <2>9, <2>10 DEF q
<1> QED
  BY <1>3, <1>4

\* What leaves the reserve for each payee.
Outflows == [p \in Payees |-> IF p \in DueWithAmount THEN Outflow(p) ELSE 0]

\* Taken together, over any of the rows that are due.
LEMMA AllSum ==
    ASSUME ContractOK, ChainOK, configuration # NoConfig
    PROVE  /\ IsFiniteSet(AllTransfers)
           /\ SumOver(Amounts(AllTransfers), AllTransfers) = SumOver(Outflows, DueWithAmount)
           /\ IsFiniteSet(DueWithAmount) /\ DueWithAmount \subseteq Payees
           /\ IntOn(Outflows, Payees)
<1> DEFINE q == Amounts(AllTransfers)
           U(D) == UNION {InlineTransfers(p) : p \in D}
           Good == {D \in SUBSET DueWithAmount :
                      IsFiniteSet(U(D)) /\ SumOver(q, U(D)) = SumOver(Outflows, D)}
<1>1. DueWithAmount \subseteq Payees /\ IsFiniteSet(DueWithAmount)
  <2>1. DueWithAmount \subseteq Payees
    BY DueOK DEF DueWithAmount
  <2> QED
    BY <2>1, TedpAssumption, FS_Subset
<1>2. IntOn(Outflows, Payees)
  <2>1. ASSUME NEW p \in DueWithAmount PROVE Outflow(p) \in Int
    <3>1. total_due(p) \in Int /\ RexPart(p) \in Int /\ EvmPart(p) \in Int
      BY SplitOK DEF DueWithAmount
    <3> QED
      BY <3>1 DEF Outflow
  <2> QED
    BY <2>1 DEF IntOn, Outflows
<1>3. IntOn(q, AllTransfers)
  <2>1. ASSUME NEW t \in AllTransfers PROVE t.quantity \in Int
    <3>1. PICK p \in DueWithAmount : t \in InlineTransfers(p)
      BY DEF AllTransfers
    <3> QED
      BY <3>1, TransferOwner
  <2> QED
    BY <2>1 DEF IntOn, Amounts
<1> HIDE DEF q
<1>4. {} \in Good
  <2>1. U({}) = {}
    OBVIOUS
  <2> QED
    BY <2>1, SumEmpty, FS_EmptySet
<1>5. ASSUME NEW D \in SUBSET DueWithAmount, NEW x \in DueWithAmount \ D, D \in Good
      PROVE  D \cup {x} \in Good
  <2>1. IsFiniteSet(U(D)) /\ SumOver(q, U(D)) = SumOver(Outflows, D)
    BY <1>5
  <2>2. U(D \cup {x}) = U(D) \cup InlineTransfers(x)
    OBVIOUS
  <2>3. U(D) \cap InlineTransfers(x) = {}
    <3> SUFFICES ASSUME NEW t \in U(D), t \in InlineTransfers(x) PROVE FALSE
      OBVIOUS
    <3>1. PICK p \in D : t \in InlineTransfers(p)
      OBVIOUS
    <3>2. OwnerOf(t) = p
      BY <3>1, TransferOwner
    <3>3. OwnerOf(t) = x
      BY TransferOwner
    <3> QED
      BY <3>2, <3>3
  <2>4. IsFiniteSet(InlineTransfers(x)) /\ SumOver(q, InlineTransfers(x)) = Outflow(x)
    BY RowSum DEF q
  <2>5. \A t \in U(D) \cup InlineTransfers(x) : q[t] \in Int
    BY <1>3 DEF IntOn, AllTransfers
  <2>6. PICK V : V = U(D)
    OBVIOUS
  <2>7. SumOver(q, V \cup InlineTransfers(x)) = SumOver(q, V) + SumOver(q, InlineTransfers(x))
        /\ IsFiniteSet(V \cup InlineTransfers(x))
    <3> HIDE DEF U, Good
    <3>1. IsFiniteSet(V) /\ V \cap InlineTransfers(x) = {}
      BY <2>1, <2>3, <2>6
    <3>2. \A t \in V \cup InlineTransfers(x) : q[t] \in Int
      BY <2>5, <2>6
    <3> QED
      BY <2>4, <3>1, <3>2, SumUnion, FS_Union
  <2>8. SumOver(Outflows, D \cup {x}) = SumOver(Outflows, D) + Outflow(x)
    <3>1. IsFiniteSet(D) /\ x \notin D /\ IntOn(Outflows, D \cup {x})
      BY <1>1, <1>2, FS_Subset DEF IntOn
    <3>2. Outflows[x] = Outflow(x)
      BY <1>1 DEF Outflows
    <3> HIDE DEF Good
    <3> QED
      BY <3>1, <3>2, SumAddOn
  <2>9. IsFiniteSet(U(D \cup {x})) /\ SumOver(q, U(D \cup {x})) = SumOver(Outflows, D \cup {x})
    <3> HIDE DEF U
    <3> QED
      BY <2>1, <2>2, <2>4, <2>6, <2>7, <2>8
  <2> QED
    BY <2>9
<1> HIDE DEF Good
<1>6. DueWithAmount \in Good
  BY <1>1, <1>4, <1>5, SubsetInduction
<1>7. IsFiniteSet(AllTransfers) /\ SumOver(q, AllTransfers) = SumOver(Outflows, DueWithAmount)
  BY <1>6 DEF Good, AllTransfers
<1> QED
  BY <1>1, <1>2, <1>7 DEF q

\* pay makes them all.
LEMMA PayPays ==
    ASSUME ContractOK, ChainOK, MoneyOK, pay
    PROVE  /\ Payable(accounts, Self, AllTransfers)
           /\ Paid(accounts, accounts', Self, AllTransfers, Amounts(AllTransfers))
<1>1. /\ configuration # NoConfig /\ CanTransferAll(accounts, Self, AllTransfers)
      /\ accounts' = TransferredAll(accounts, Self, AllTransfers)
  BY DEF pay
<1>2. \A t \in AllTransfers : t.quantity \in Int /\ t.quantity > 0 /\ t.to # Self
  <2> TAKE t \in AllTransfers
  <2>1. PICK p \in DueWithAmount : t \in InlineTransfers(p)
    BY DEF AllTransfers
  <2>2. t.quantity \in Int
    BY <1>1, <2>1, TransferOwner
  <2> QED
    BY <1>1, <2>2 DEF CanTransferAll
<1>3. \A t, u \in AllTransfers : t.to = u.to => t = u
  <2> SUFFICES ASSUME NEW t \in AllTransfers, NEW u \in AllTransfers, t.to = u.to
               PROVE  t = u
    OBVIOUS
  <2>1. PICK p \in DueWithAmount : t \in InlineTransfers(p)
    BY DEF AllTransfers
  <2>2. PICK r \in DueWithAmount : u \in InlineTransfers(r)
    BY DEF AllTransfers
  <2>3. p = OwnerOf(t) /\ r = OwnerOf(u)
    BY <1>1, <2>1, <2>2, TransferOwner
  <2>4. p = r
    BY <2>3 DEF OwnerOf
  <2> QED
    BY <1>1, <2>1, <2>2, <2>4, TransferOwner
<1>4. Self \in DOMAIN accounts /\ SumOf(Amounts(AllTransfers)) <= accounts[Self]
  <2>1. CanSub(accounts, Self, Total(AllTransfers))
    BY <1>1 DEF CanTransferAll
  <2>2. Total(AllTransfers) = SumOf(Amounts(AllTransfers))
    BY DEF Total, Amounts
  <2>3. \A t \in AllTransfers : Amounts(AllTransfers)[t] \in Int
    BY <1>2 DEF Amounts
  <2>4. SumOf(Amounts(AllTransfers)) \in Int
    <3>1. DOMAIN Amounts(AllTransfers) = AllTransfers /\ IsFiniteSet(AllTransfers)
      BY <1>1, AllSum DEF Amounts
    <3> QED
      BY <2>3, <3>1, SumInt DEF SumOf
  <2> QED
    BY <2>1, <2>2, <2>4 DEF CanSub, MoneyOK, IsTable
<1>5. Payable(accounts, Self, AllTransfers)
  BY <1>1, <1>2, <1>3, <1>4, AllSum DEF Payable, MoneyOK
<1> QED
  BY <1>1, <1>5, PaidAll

\* A pool that is worth something, and whose value per share does not fall,
\* is worth something as long as it has shares.
LEMMA StaysWorth ==
    ASSUME NEW pool \in Pool, NEW next \in Pool, ValueKept(pool, next),
           rex_available(pool), pool.total_lendable > 0
    PROVE  rex_available(next) => next.total_lendable > 0
<1> SUFFICES ASSUME rex_available(next), next.total_lendable = 0 PROVE FALSE
  BY DEF Pool
<1>1. pool.total_lendable * next.total_rex <= next.total_lendable * pool.total_rex
  BY DEF ValueKept
<1>2. /\ pool.total_lendable \in Nat \ {0} /\ next.total_rex \in Nat \ {0}
      /\ pool.total_rex \in Nat
  BY DEF Pool, rex_available
<1>3. next.total_lendable * pool.total_rex = 0
  BY <1>2, SMT
<1>4. pool.total_lendable * next.total_rex > 0
  BY <1>2, SMT
<1>5. pool.total_lendable * next.total_rex \in Int
  BY <1>2, SMT
<1> QED
  BY <1>1, <1>3, <1>4, <1>5

RexWorth == rex_available(rex_pool) => rex_pool.total_lendable > 0

LEMMA RexWorthKept ==
    ASSUME IInv, IInv', MoneyOK, [Next]_vars
    PROVE  RexWorth'
<1> USE DEF RexWorth
<1>1. /\ rex_pool \in Pool /\ PoolOK(rex_pool) /\ rex_pool' \in Pool
      /\ rex_available(rex_pool) => rex_pool.total_lendable > 0
  BY DEF IInv, ChainOK, PoolOK, MoneyOK
<1>2. CASE UNCHANGED rex_pool
  BY <1>1, <1>2
<1>3. CASE pay /\ REX_ACCOUNT \in DueWithAmount
  <2>1. rex_pool' = channel_to_rex(rex_pool, RexPart(REX_ACCOUNT))
    BY <1>3 DEF pay
  <2>2. RexPart(REX_ACCOUNT) \in Nat
    <3>1. RexPart(REX_ACCOUNT) \in Int
      BY <1>3, SplitOK DEF IInv, pay, DueWithAmount
    <3>2. CASE ViaRex(REX_ACCOUNT)
      <4>1. [to |-> REX_ACCOUNT, quantity |-> RexPart(REX_ACCOUNT)] \in AllTransfers
        BY <1>3, <3>2 DEF AllTransfers, InlineTransfers
      <4>2. \A t \in AllTransfers : t.quantity > 0
        BY <1>3 DEF pay, CanTransferAll
      <4>3. RexPart(REX_ACCOUNT) > 0
        BY <4>1, <4>2
      <4> QED
        BY <3>1, <4>3
    <3>3. CASE ~ViaRex(REX_ACCOUNT)
      BY <3>3 DEF RexPart
    <3> QED
      BY <3>2, <3>3
  <2>3. ValueKept(rex_pool, rex_pool')
    BY <1>1, <2>1, <2>2, IncomeKeepsValue
  <2>4. rex_available(rex_pool') => rex_available(rex_pool)
    BY <2>1 DEF channel_to_rex
  <2> QED
    BY <1>1, <2>3, <2>4, StaysWorth
<1>4. CASE RexBought
  <2>1. PICK payment \in RexPurchases : rex_pool' = add_to_rex_pool(rex_pool, payment)
    BY <1>4 DEF RexBought
  <2>2. payment \in Nat \ {0} /\ CanAddToRexPool(rex_pool)
    BY <1>4, TedpInputsAssumption DEF RexBought
  <2>3. CASE rex_available(rex_pool)
    BY <1>1, <2>1, <2>2, <2>3, PurchaseKeepsValue, StaysWorth
  <2>4. CASE ~rex_available(rex_pool)
    BY <2>1, <2>2, <2>4 DEF add_to_rex_pool
  <2> QED
    BY <2>3, <2>4
<1>5. CASE RexSold
  <2>1. PICK rex \in 1..rex_pool.total_rex : rex_pool' = fill_rex_order(rex_pool, rex)
    BY <1>5 DEF RexSold
  <2>2. rex_available(rex_pool)
    BY <1>1, <2>1 DEF Pool, rex_available
  <2>3. ValueKept(rex_pool, rex_pool')
    BY <1>1, <2>1, SaleKeepsValue
  <2> QED
    BY <1>1, <2>2, <2>3, StaysWorth
<1>6. CASE pay /\ REX_ACCOUNT \notin DueWithAmount
  BY <1>1, <1>6 DEF pay
<1>7. CASE Funded \/ InflationOffset \/ EvmStaking \/ Tick \/ setevmconfig
           \/ \E r \in RatioInputs : setratio(r)
  BY <1>2, <1>7 DEF Funded, InflationOffset, EvmStaking, Tick, setevmconfig, setratio
<1>8. CASE (\E p \in Payees, amount \in AmountInputs : setpayout(p, amount))
           \/ (\E p \in Payees : delpayout(p))
  BY <1>2, <1>8 DEF setpayout, delpayout
<1>9. CASE UNCHANGED vars
  BY <1>2, <1>9 DEF vars
<1> QED
  BY <1>3, <1>4, <1>5, <1>6, <1>7, <1>8, <1>9 DEF Next

-----------------------------------------------------------------------------
(* The balance rows                                                        *)

RowsOK == IsTable(accounts) /\ NoDebts(accounts) /\ DOMAIN accounts \subseteq Holders

LEMMA TransferRowsOK ==
    ASSUME RowsOK, NEW from, NEW to \in Holders, NEW v \in Int,
           CanTransfer(accounts, from, to, v),
           accounts' = Transferred(accounts, from, to, v)
    PROVE  RowsOK'
<1>1. Moved(accounts, accounts', from, to, v)
  BY TransferHeld DEF RowsOK
<1>2. NoDebts(accounts')
  BY TransferNoDebts DEF RowsOK
<1> QED
  BY <1>1, <1>2 DEF RowsOK, Moved

LEMMA PayRowsOK ==
    ASSUME IInv, MoneyOK, pay
    PROVE  RowsOK'
<1>1. /\ Payable(accounts, Self, AllTransfers)
      /\ Paid(accounts, accounts', Self, AllTransfers, Amounts(AllTransfers))
  BY PayPays DEF IInv
<1>2. NoDebts(accounts')
  BY <1>1, PaidNoDebts
<1>3. \A t \in AllTransfers : t.to \in Holders
  <2> TAKE t \in AllTransfers
  <2>1. PICK p \in DueWithAmount : t \in InlineTransfers(p)
    BY DEF AllTransfers
  <2>2. t.to \in Payees \cup {EVM_ACCOUNT}
    BY <2>1, TransferOwner DEF IInv, pay
  <2> QED
    BY <2>2 DEF Holders
<1> QED
  BY <1>1, <1>2, <1>3 DEF RowsOK, Paid, MoneyOK

LEMMA MoneyInit == Init => MoneyOK
<1> SUFFICES ASSUME Init PROVE MoneyOK
  OBVIOUS
<1>1. /\ accounts = [a \in {Self, Others} |->
                       IF a = Self THEN InitialReserve ELSE InitialOthers]
      /\ rex_pool = NoRex
  BY DEF Init
<1>2. InitialReserve \in Nat /\ InitialOthers \in Nat
  BY TedpInputsAssumption
<1>3. IsFiniteSet({Self} \cup {Others}) /\ {Self} \cup {Others} = {Self, Others}
  BY FS_Singleton, FS_Union
<1>4. IsTable(accounts) /\ NoDebts(accounts) /\ DOMAIN accounts \subseteq Holders
  BY <1>1, <1>2, <1>3 DEF IsTable, NoDebts, Holders
<1>5. ~rex_available(rex_pool)
  BY <1>1 DEF rex_available, NoRex
<1> QED
  BY <1>4, <1>5 DEF MoneyOK

LEMMA MoneyInv ==
    ASSUME IInv, IInv', MoneyOK, [Next]_vars
    PROVE  MoneyOK'
<1>1. RexWorth'
  BY RexWorthKept
<1>2. RowsOK
  BY DEF MoneyOK, RowsOK
<1>3. {Self, Others, REX_ACCOUNT} \subseteq Holders
  BY TedpAssumption DEF Holders
<1> SUFFICES RowsOK'
  BY <1>1 DEF MoneyOK, RowsOK, RexWorth
<1>4. CASE UNCHANGED accounts
  BY <1>2, <1>4 DEF RowsOK
<1>5. CASE pay
  BY <1>5, PayRowsOK
<1>6. CASE Funded
  <2>1. PICK v \in Fundings : /\ CanTransfer(accounts, Others, Self, v)
                              /\ accounts' = Transferred(accounts, Others, Self, v)
    BY <1>6 DEF Funded
  <2> QED
    BY <1>2, <1>3, <2>1, TransferRowsOK, TedpInputsAssumption
<1>7. CASE InflationOffset
  <2>1. PICK new_tokens \in Fundings :
          LET v == Min({new_tokens, accounts[Self]})
          IN  /\ CanTransfer(accounts, Self, Others, v)
              /\ accounts' = Transferred(accounts, Self, Others, v)
    BY <1>7 DEF InflationOffset
  <2>2. Self \in DOMAIN accounts
    BY <2>1 DEF CanTransfer, CanSub
  <2>3. new_tokens \in Int /\ accounts[Self] \in Int
    BY <1>2, <2>2, TedpInputsAssumption DEF RowsOK, IsTable
  <2>4. Min({new_tokens, accounts[Self]}) \in Int
    BY <2>3 DEF Min
  <2> QED
    BY <1>2, <1>3, <2>1, <2>4, TransferRowsOK
<1>8. CASE RexBought
  <2>1. PICK v \in RexPurchases : /\ CanTransfer(accounts, Others, REX_ACCOUNT, v)
                                  /\ accounts' = Transferred(accounts, Others, REX_ACCOUNT, v)
    BY <1>8 DEF RexBought
  <2> QED
    BY <1>2, <1>3, <2>1, TransferRowsOK, TedpInputsAssumption
<1>9. CASE RexSold
  <2>1. PICK rex \in 1..rex_pool.total_rex :
          /\ CanTransfer(accounts, REX_ACCOUNT, Others, proceeds(rex_pool, rex))
          /\ accounts' = Transferred(accounts, REX_ACCOUNT, Others, proceeds(rex_pool, rex))
    BY <1>9 DEF RexSold
  <2>2. proceeds(rex_pool, rex) \in Int
    <3>1. /\ rex \in Nat /\ rex <= rex_pool.total_rex /\ rex_pool.total_lendable \in Nat
          /\ rex_pool.total_rex \in Nat \ {0}
      BY DEF IInv, ChainOK, PoolOK, Pool
    <3>2. PICK l, r : l = rex_pool.total_lendable /\ r = rex_pool.total_rex
      OBVIOUS
    <3>3. MulDiv(rex, l, r) \in Int
      <4>1. l \in Nat /\ r \in Nat \ {0} /\ rex <= r
        BY <3>1, <3>2
      <4> QED
        BY <3>1, <4>1, MulDivPart
    <3> QED
      BY <3>2, <3>3 DEF proceeds
  <2> QED
    BY <1>2, <1>3, <2>1, <2>2, TransferRowsOK
<1>10. CASE EvmStaking \/ Tick \/ setevmconfig \/ \E r \in RatioInputs : setratio(r)
  BY <1>4, <1>10 DEF EvmStaking, Tick, setevmconfig, setratio
<1>11. CASE (\E p \in Payees, amount \in AmountInputs : setpayout(p, amount))
            \/ (\E p \in Payees : delpayout(p))
  BY <1>4, <1>11 DEF setpayout, delpayout
<1>12. CASE UNCHANGED vars
  BY <1>4, <1>12 DEF vars
<1> QED
  BY <1>5, <1>6, <1>7, <1>8, <1>9, <1>10, <1>11, <1>12 DEF Next

THEOREM SpecMoney == Spec => [](IInv /\ MoneyOK)
<1>1. IInv /\ MoneyOK /\ [Next]_vars => (IInv /\ MoneyOK)'
  BY NextIInv, MoneyInv
<1> QED
  BY <1>1, InitIInv, MoneyInit, PTL DEF Spec

\* Every table and total keeps its type: no balance row is ever negative, and
\* only the accounts that tedp deals with have one.
THEOREM Types == Spec => []TypeOK
<1>1. IInv /\ MoneyOK => TypeOK
  <2> SUFFICES ASSUME IInv, MoneyOK PROVE TypeOK
    OBVIOUS
  <2>1. accounts \in [DOMAIN accounts -> Nat] /\ DOMAIN accounts \in SUBSET Holders
    BY DEF MoneyOK, IsTable, NoDebts
  <2> QED
    BY <2>1 DEF IInv, TypeOK, BalancesOK, Holders
<1> QED
  BY <1>1, SpecMoney, PTL

-----------------------------------------------------------------------------
(* What a step of pay is worth to each account                             *)

\* Only pay moves a clock or draws on the reserve.
LEMMA ClocksRest ==
    ASSUME IInv, [Next]_vars, ~pay
    PROVE  drawn' = drawn /\ \A p \in Payees : ~ClockMoves(p)
<1>1. CASE \E p \in Payees, amount \in AmountInputs : setpayout(p, amount)
  <2>1. PICK to \in Payees, amount \in AmountInputs : setpayout(to, amount)
    BY <1>1
  <2>2. \A p \in DOMAIN payouts : payouts'[p].last_payout = payouts[p].last_payout
    BY <2>1 DEF setpayout
  <2> QED
    BY <2>1, <2>2 DEF setpayout, ClockMoves
<1>2. CASE \E p \in Payees : delpayout(p)
  BY <1>2 DEF delpayout, ClockMoves
<1>3. CASE UNCHANGED <<payouts, drawn>>
  BY <1>3 DEF ClockMoves
<1> QED
  BY <1>1, <1>2, <1>3 DEF Next, setratio, setevmconfig, Tick, EvmStaking, Funded,
     InflationOffset, RexBought, RexSold, vars

\* pay moves the clocks of the rows that are due.
LEMMA ClocksPaid ==
    ASSUME IInv, pay, NEW p \in Payees, ClockMoves(p)
    PROVE  p \in Due /\ total_due(p) \in Nat /\ (p \notin DueWithAmount => total_due(p) = 0)
<1>1. p \in Due
  <2>1. p \in DOMAIN payouts /\ payouts'[p].last_payout # payouts[p].last_payout
    BY DEF ClockMoves
  <2>2. payouts' = [q \in DOMAIN payouts |->
          IF q \in Due THEN [payouts[q] EXCEPT !.last_payout = now] ELSE payouts[q]]
    BY DEF pay
  <2> QED
    BY <2>1, <2>2
<1>2. ContractOK /\ total_due(p) \in Nat /\ payouts_due(p) \in Nat
  BY <1>1, DueOK DEF IInv
<1>3. CASE p \notin DueWithAmount
  <2>1. payouts[p].amount \in Nat /\ ~(payouts[p].amount > 0)
    BY <1>1, <1>2, <1>3 DEF DueWithAmount, Due, ContractOK, Row
  <2>2. payouts[p].amount = 0
    BY <2>1
  <2>3. payouts_due(p) * 0 = 0 /\ 0 * Unit = 0
    BY <1>2, TedpAssumption, SMT
  <2> QED
    BY <1>1, <1>2, <2>2, <2>3 DEF total_due
<1> QED
  BY <1>1, <1>2, <1>3

\* Who is sent something has received it, and nobody else has.
LEMMA PayReceived ==
    ASSUME IInv, MoneyOK, pay
    PROVE  /\ \A t \in AllTransfers : Received(t.to) = t.quantity
           /\ \A a : a # Self /\ SendsElsewhere(AllTransfers, a) => Received(a) = 0
           /\ Received(Self) = -SumOver(Outflows, DueWithAmount)
<1> DEFINE q == Amounts(AllTransfers)
<1>1. Paid(accounts, accounts', Self, AllTransfers, q)
  BY PayPays DEF IInv
<1>2. \A a : Balance(a) \in Int
  BY BalanceInt DEF MoneyOK, Balance
<1>3. \A a : Received(a) = BalanceOf(accounts', a) - Balance(a)
  BY DEF Received, Balance
<1>4. ASSUME NEW t \in AllTransfers PROVE Received(t.to) = t.quantity
  <2>1. PICK to, v : to = t.to /\ v = t.quantity
    OBVIOUS
  <2>2. BalanceOf(accounts', t.to) = BalanceOf(accounts, t.to) + q[t]
    BY <1>1 DEF Paid
  <2>3. BalanceOf(accounts', to) = Balance(to) + v
    BY <2>1, <2>2 DEF Balance, Amounts
  <2>4. v \in Int
    BY <2>1, PayPays DEF Payable, IInv
  <2>5. Received(to) = v
    BY <1>2, <1>3, <2>3, <2>4
  <2> QED
    BY <2>1, <2>5
<1>5. ASSUME NEW a, a # Self, SendsElsewhere(AllTransfers, a) PROVE Received(a) = 0
  <2>1. BalanceOf(accounts', a) = Balance(a)
    BY <1>1, <1>5 DEF Paid, SendsElsewhere, Balance
  <2> QED
    BY <1>2, <1>3, <2>1
<1>6. Received(Self) = -SumOver(Outflows, DueWithAmount)
  <2>1. SumOver(q, AllTransfers) = SumOver(Outflows, DueWithAmount)
        /\ IsFiniteSet(DueWithAmount) /\ DueWithAmount \subseteq Payees /\ IntOn(Outflows, Payees)
    BY AllSum DEF IInv, pay
  <2>2. SumOver(Outflows, DueWithAmount) \in Int
    BY <2>1, SumInt DEF IntOn
  <2>3. BalanceOf(accounts', Self) = Balance(Self) - SumOver(q, AllTransfers)
    BY <1>1 DEF Paid, Balance
  <2> QED
    BY <1>2, <1>3, <2>1, <2>2, <2>3
<1> QED
  BY <1>4, <1>5, <1>6

\* By payee: each gets what its row is due, REX and the EVM their parts.
LEMMA PayeesReceive ==
    ASSUME IInv, MoneyOK, pay
    PROVE  /\ \A p \in Due : p # REX_ACCOUNT =>
                Received(p) = IF p \in DueWithAmount THEN total_due(p) ELSE 0
           /\ Received(REX_ACCOUNT) =
                IF REX_ACCOUNT \in DueWithAmount THEN RexPart(REX_ACCOUNT) ELSE 0
           /\ Received(EVM_ACCOUNT) =
                IF REX_ACCOUNT \in DueWithAmount THEN EvmPart(REX_ACCOUNT) ELSE 0
<1>1. configuration # NoConfig /\ ContractOK /\ ChainOK
  BY DEF pay, IInv
<1>2. EVM_ACCOUNT \notin Payees /\ Self \notin Payees /\ EVM_ACCOUNT # Self
      /\ REX_ACCOUNT \in Payees
  BY TedpAssumption
<1>3. ASSUME NEW t \in AllTransfers
      PROVE  \E p \in DueWithAmount : t \in InlineTransfers(p) /\ OwnerOf(t) = p
  BY <1>1, TransferOwner DEF AllTransfers
<1>4. ASSUME NEW p \in Due, p # REX_ACCOUNT
      PROVE  Received(p) = IF p \in DueWithAmount THEN total_due(p) ELSE 0
  <2>1. p \in Payees
    BY <1>1, DueOK
  <2>2. CASE p \in DueWithAmount
    <3> DEFINE t == [to |-> p, quantity |-> total_due(p)]
    <3>1. t \in AllTransfers
      BY <1>4, <2>2 DEF AllTransfers, InlineTransfers
    <3>2. Received(t.to) = t.quantity
      BY <3>1, PayReceived
    <3> QED
      BY <2>2, <3>2
  <2>3. CASE p \notin DueWithAmount
    <3>1. SendsElsewhere(AllTransfers, p)
      BY <1>2, <1>3, <2>1, <2>3 DEF SendsElsewhere, OwnerOf
    <3> QED
      BY <1>2, <2>1, <2>3, <3>1, PayReceived
  <2> QED
    BY <2>2, <2>3
<1>5. ASSUME REX_ACCOUNT \notin DueWithAmount
      PROVE  Received(REX_ACCOUNT) = 0 /\ Received(EVM_ACCOUNT) = 0
  <2>1. SendsElsewhere(AllTransfers, REX_ACCOUNT) /\ SendsElsewhere(AllTransfers, EVM_ACCOUNT)
    BY <1>2, <1>3, <1>5 DEF SendsElsewhere, OwnerOf
  <2> QED
    BY <1>2, <2>1, PayReceived
<1>6. ASSUME REX_ACCOUNT \in DueWithAmount
      PROVE  /\ Received(REX_ACCOUNT) = RexPart(REX_ACCOUNT)
             /\ Received(EVM_ACCOUNT) = EvmPart(REX_ACCOUNT)
  <2>1. \A t \in AllTransfers :
          t.to \in {REX_ACCOUNT, EVM_ACCOUNT} => t \in InlineTransfers(REX_ACCOUNT)
    BY <1>2, <1>3 DEF OwnerOf
  <2>2. InlineTransfers(REX_ACCOUNT) =
          (IF ViaRex(REX_ACCOUNT) THEN {ToRex} ELSE {}) \cup
          (IF ViaEvm(REX_ACCOUNT) THEN {ToEvm} ELSE {})
    BY DEF InlineTransfers, ToRex, ToEvm
  <2>3. InlineTransfers(REX_ACCOUNT) \subseteq AllTransfers
    BY <1>6 DEF AllTransfers
  <2>4. Received(REX_ACCOUNT) = RexPart(REX_ACCOUNT)
    <3>1. CASE ViaRex(REX_ACCOUNT)
      <4>1. Received(ToRex.to) = ToRex.quantity
        BY <2>2, <2>3, <3>1, PayReceived
      <4> QED
        BY <4>1 DEF ToRex
    <3>2. CASE ~ViaRex(REX_ACCOUNT)
      <4>1. SendsElsewhere(AllTransfers, REX_ACCOUNT)
        BY <1>2, <2>1, <2>2, <3>2 DEF SendsElsewhere, ToEvm
      <4> QED
        BY <1>2, <3>2, <4>1, PayReceived DEF RexPart
    <3> QED
      BY <3>1, <3>2
  <2>5. Received(EVM_ACCOUNT) = EvmPart(REX_ACCOUNT)
    <3>1. CASE ViaEvm(REX_ACCOUNT)
      <4>1. Received(ToEvm.to) = ToEvm.quantity
        BY <2>2, <2>3, <3>1, PayReceived
      <4> QED
        BY <4>1 DEF ToEvm
    <3>2. CASE ~ViaEvm(REX_ACCOUNT)
      <4>1. SendsElsewhere(AllTransfers, EVM_ACCOUNT)
        BY <1>2, <2>1, <2>2, <3>2 DEF SendsElsewhere, ToRex
      <4> QED
        BY <1>2, <3>2, <4>1, PayReceived DEF EvmPart
    <3> QED
      BY <3>1, <3>2
  <2> QED
    BY <2>4, <2>5
<1> QED
  BY <1>4, <1>5, <1>6

-----------------------------------------------------------------------------
(* The split of a payout between REX and the EVM                           *)

\* Rounding is off by at most one half.
LEMMA RoundClose ==
    ASSUME NEW n \in Int, NEW d \in Nat \ {0}
    PROVE  /\ Round(n, d) \in Int
           /\ 2 * (Round(n, d) * d) <= 2 * n + d /\ 2 * n - d < 2 * (Round(n, d) * d)
<1> DEFINE a == 2 * n + d
           b == 2 * d
           r == a \div b
<1>1. a \in Int /\ b \in Nat \ {0}
  BY SMT
<1> HIDE DEF a, b
<1>2. r \in Int /\ r * b <= a /\ a < r * b + b
  BY <1>1, SMT
<1> HIDE DEF r
<1>3. r * b = 2 * (r * d)
  BY <1>2, SMT DEF b
<1>4. r * d \in Int
  BY <1>2, SMT
<1>5. 2 * (r * d) <= 2 * n + d /\ 2 * n - d < 2 * (r * d)
  BY <1>2, <1>3, <1>4 DEF a, b
<1> QED
  BY <1>2, <1>5 DEF r, a, b, Round

\* Whole amounts are not rounded.
LEMMA RoundWhole ==
    ASSUME NEW t \in Nat, NEW d \in Nat \ {0}
    PROVE  Round(t * d, d) = t
<1> DEFINE n == t * d
           a == 2 * n + d
           b == 2 * d
<1>1. n \in Nat /\ a \in Int /\ b \in Nat \ {0}
  BY SMT
<1>2. t * b = 2 * n /\ (t + 1) * b = 2 * n + 2 * d
  BY SMT
<1>3. t * b <= a /\ a < (t + 1) * b
  BY <1>1, <1>2
<1> HIDE DEF n, a, b
<1>4. a \div b \in Int /\ t <= a \div b /\ a \div b <= t
  BY <1>1, <1>3, DivAtLeast, DivAtMost
<1> QED
  BY <1>4 DEF n, a, b, Round

\* As long as there is REX or a stake on the EVM, the two parts of a payout
\* are all of it.
LEMMA SplitWhole ==
    ASSUME ContractOK, ChainOK, configuration # NoConfig, NEW p \in Due,
           rex_available(rex_pool) \/ EvmStake > 0
    PROVE  RexPart(p) + EvmPart(p) = total_due(p)
<1> DEFINE num == getbalanceratio.num
           den == getbalanceratio.den
           T == total_due(p)
           a == payout_amount(p)
<1>1. num \in Int /\ den \in Nat \ {0} /\ (num > 0 => rex_available(rex_pool))
  BY RatioOK
<1>2. T \in Nat /\ a \in Int /\ a <= T
  BY SplitOK
<1>3. num = 0 => rex_available(rex_pool)
  <2>1. SUFFICES ASSUME num = 0, EvmStake > 0 PROVE rex_available(rex_pool)
    OBVIOUS
  <2>2. rex_pool.total_lendable # 0
    <3>1. EvmStake # 0
      <4>1. ~(0 > 0)
        OBVIOUS
      <4> QED
        BY <2>1, <4>1
    <3>2. rex_pool.total_lendable = 0 => getbalanceratio = [num |-> -1, den |-> 1]
      BY <3>1 DEF getbalanceratio
    <3> QED
      BY <2>1, <3>2
  <2> QED
    BY <2>2 DEF ChainOK, PoolOK, Pool, rex_available
<1>4. num = 0 => a = T
  <2>1. SUFFICES ASSUME num = 0 PROVE a = T
    OBVIOUS
  <2>2. a = Round(T * (den - num), den)
    BY <2>1 DEF payout_amount
  <2>3. den - num = den
    BY <1>1, <2>1
  <2> QED
    BY <1>1, <1>2, <2>2, <2>3, RoundWhole
<1>5. num < 0 => a = 0
  BY <1>1 DEF payout_amount
<1>6. ViaRex(p) <=> num >= 0 /\ rex_available(rex_pool)
  BY DEF ViaRex
<1>7. ViaEvm(p) <=> num # 0 /\ a < T
  BY DEF ViaEvm
<1>8. RexPart(p) = (IF ViaRex(p) THEN a ELSE 0) /\ EvmPart(p) = (IF ViaEvm(p) THEN T - a ELSE 0)
  BY DEF RexPart, EvmPart
<1> HIDE DEF num, den, T, a
<1>9. RexPart(p) + EvmPart(p) = T
  <2>1. CASE num < 0
    BY <1>1, <1>2, <1>5, <1>6, <1>7, <1>8, <2>1
  <2>2. CASE num = 0
    BY <1>2, <1>3, <1>4, <1>6, <1>7, <1>8, <2>2
  <2>3. CASE num > 0
    BY <1>1, <1>2, <1>6, <1>7, <1>8, <2>3
  <2> QED
    BY <1>1, <2>1, <2>2, <2>3
<1> QED
  BY <1>9 DEF T

-----------------------------------------------------------------------------
(* Time is written off only against payment                                *)

RexWhole ==
    /\ rex_pool'.total_lendable - rex_pool.total_lendable = Received(REX_ACCOUNT)
    /\ rex_available(rex_pool) \/ EvmStake > 0 =>
         Received(REX_ACCOUNT) + Received(EVM_ACCOUNT) = total_due(REX_ACCOUNT)

LEMMA RexPaidWhole ==
    ASSUME IInv, MoneyOK, pay, REX_ACCOUNT \in Due,
           REX_ACCOUNT \notin DueWithAmount => total_due(REX_ACCOUNT) = 0
    PROVE  RexWhole
<1>1. ContractOK /\ ChainOK /\ configuration # NoConfig /\ rex_pool \in Pool
  BY DEF IInv, pay, ChainOK, PoolOK
<1>2. CASE REX_ACCOUNT \notin DueWithAmount
  <2>1. rex_pool' = rex_pool /\ rex_pool.total_lendable \in Int
    BY <1>1, <1>2 DEF pay, Pool
  <2>2. Received(REX_ACCOUNT) = 0 /\ Received(EVM_ACCOUNT) = 0
    BY <1>2, PayeesReceive
  <2> QED
    BY <1>2, <2>1, <2>2 DEF RexWhole
<1>3. CASE REX_ACCOUNT \in DueWithAmount
  <2>1. rex_pool' = channel_to_rex(rex_pool, RexPart(REX_ACCOUNT))
    BY <1>3 DEF pay
  <2>2. RexPart(REX_ACCOUNT) \in Int /\ rex_pool.total_lendable \in Int
    BY <1>1, SplitOK DEF Pool
  <2>3. ~rex_available(rex_pool) => RexPart(REX_ACCOUNT) = 0
    BY DEF RexPart, ViaRex
  <2>4. rex_pool'.total_lendable - rex_pool.total_lendable = RexPart(REX_ACCOUNT)
    BY <2>1, <2>2, <2>3 DEF channel_to_rex
  <2>5. /\ Received(REX_ACCOUNT) = RexPart(REX_ACCOUNT)
        /\ Received(EVM_ACCOUNT) = EvmPart(REX_ACCOUNT)
    BY <1>3, PayeesReceive
  <2> QED
    BY <1>1, <2>4, <2>5, SplitWhole DEF RexWhole
<1> QED
  BY <1>2, <1>3

\* What the history says was drawn is what left the reserve.
LEMMA DrawnLeaves ==
    ASSUME IInv, MoneyOK, pay
    PROVE  SumOver(drawn', Payees) - SumOver(drawn, Payees) = -Received(Self)
<1>1. /\ IsFiniteSet(DueWithAmount) /\ DueWithAmount \subseteq Payees
      /\ IntOn(Outflows, Payees) /\ IsFiniteSet(Payees)
  BY AllSum, TedpAssumption DEF IInv, pay
<1>2. IsPlus(drawn', drawn, Outflows, Payees)
  <2> SUFFICES ASSUME NEW p \in Payees
               PROVE  /\ drawn[p] \in Int /\ Outflows[p] \in Int
                      /\ drawn'[p] = drawn[p] + Outflows[p]
    BY DEF IsPlus
  <2>1. drawn[p] \in Int /\ Outflows[p] \in Int
    BY <1>1 DEF IntOn, IInv, ContractOK
  <2>2. drawn'[p] = IF p \in DueWithAmount THEN drawn[p] + Outflow(p) ELSE drawn[p]
    BY DEF pay
  <2>3. Outflows[p] = IF p \in DueWithAmount THEN Outflow(p) ELSE 0
    BY DEF Outflows
  <2> QED
    BY <2>1, <2>2, <2>3
<1>3. SumOver(drawn', Payees) = SumOver(drawn, Payees) + SumOver(Outflows, Payees)
  BY <1>1, <1>2, SumPlus
<1>4. SumOver(drawn, Payees) \in Int
  BY <1>1, SumInt DEF IInv, ContractOK
<1>5. SumOver(Outflows, Payees) = SumOver(Outflows, DueWithAmount)
  <2> DEFINE Rest == Payees \ DueWithAmount
  <2>1. /\ IsFiniteSet(Rest) /\ DueWithAmount \cap Rest = {}
        /\ Payees = DueWithAmount \cup Rest
    BY <1>1, FS_Subset
  <2>2. IsEven(Outflows, 0, Rest)
    BY DEF IsEven, Outflows
  <2>3. \A p \in DueWithAmount \cup Rest : Outflows[p] \in Int
    BY <1>1, <2>1 DEF IntOn
  <2> HIDE DEF Rest
  <2>4. SumOver(Outflows, Payees) = SumOver(Outflows, DueWithAmount) + SumOver(Outflows, Rest)
    BY <1>1, <2>1, <2>3, SumUnion
  <2>5. SumOver(Outflows, Rest) = 0 * Cardinality(Rest) /\ Cardinality(Rest) \in Nat
    BY <2>1, <2>2, SumConstant, FS_CardinalityType
  <2>6. SumOver(Outflows, DueWithAmount) \in Int
    BY <1>1, SumInt DEF IntOn
  <2> QED
    BY <2>4, <2>5, <2>6
<1>6. SumOver(Outflows, DueWithAmount) \in Int
  BY <1>1, SumInt DEF IntOn
<1>7. Received(Self) = -SumOver(Outflows, DueWithAmount)
  BY PayReceived
<1> QED
  BY <1>3, <1>4, <1>5, <1>6, <1>7

PaidStep ==
    LET total(d) == SumOver(d, Payees)
    IN  /\ \A p \in Payees : ClockMoves(p) =>
             IF p # REX_ACCOUNT THEN Received(p) = total_due(p)
             ELSE /\ rex_pool'.total_lendable - rex_pool.total_lendable = Received(REX_ACCOUNT)
                  /\ rex_available(rex_pool) \/ EvmStake > 0 =>
                       Received(REX_ACCOUNT) + Received(EVM_ACCOUNT) = total_due(p)
        /\ drawn' # drawn => total(drawn') - total(drawn) = -Received(Self)

LEMMA NextPaid ==
    ASSUME IInv, MoneyOK, [Next]_vars
    PROVE  PaidStep
<1>1. CASE ~pay
  BY <1>1, ClocksRest DEF PaidStep
<1>2. CASE pay
  <2>1. ASSUME NEW p \in Payees, ClockMoves(p), p # REX_ACCOUNT
        PROVE  Received(p) = total_due(p)
    <3>1. p \in Due /\ (p \notin DueWithAmount => total_due(p) = 0)
      BY <1>2, <2>1, ClocksPaid
    <3> QED
      BY <1>2, <2>1, <3>1, PayeesReceive
  <2>2. ASSUME REX_ACCOUNT \in Payees, ClockMoves(REX_ACCOUNT) PROVE RexWhole
    BY <1>2, <2>2, ClocksPaid, RexPaidWhole
  <2>3. SumOver(drawn', Payees) - SumOver(drawn, Payees) = -Received(Self)
    BY <1>2, DrawnLeaves
  <2> QED
    BY <2>1, <2>2, <2>3 DEF PaidStep, RexWhole
<1> QED
  BY <1>1, <1>2

\* No time is ever written off a clock without the payment that was due for
\* it, to the unit; what REX is paid, REX can lend; and nothing else leaves
\* the reserve in the payees' name.
THEOREM TimeIsPaidInFull == Spec => PaidInFull
<1>1. IInv /\ MoneyOK /\ [Next]_vars => [PaidStep]_vars
  BY NextPaid
<1> QED
  BY <1>1, SpecMoney, PTL DEF Spec, PaidInFull, PaidStep

-----------------------------------------------------------------------------
(* The EVM's part is in proportion                                         *)

\* The arithmetic of one split: t is due, the EVM's part of it is num / den,
\* and REX gets the rounded rest a.
LEMMA SplitClose ==
    ASSUME NEW t \in Nat, NEW num \in Int, NEW den \in Nat \ {0}, NEW a,
           a = Round(t * (den - num), den)
    PROVE  /\ a \in Int
           /\ 2 * ((t - a) * den - t * num) \in -den..den
<1> DEFINE n == t * (den - num)
           x == t * den
           y == t * num
           z == a * den
<1>1. n \in Int /\ x \in Int /\ y \in Int /\ n = x - y
  BY SMT
<1> HIDE DEF n, x, y
<1>2. a \in Int /\ 2 * (a * den) <= 2 * n + den /\ 2 * n - den < 2 * (a * den)
  BY <1>1, RoundClose DEF n
<1>3. z \in Int
  BY <1>2, SMT
<1>4. (t - a) * den = x - z
  BY <1>2, SMT DEF x
<1>5. 2 * z <= 2 * n + den /\ 2 * n - den < 2 * z
  BY <1>2
<1> HIDE DEF z
<1>6. 2 * ((x - z) - y) \in -den..den
  BY <1>1, <1>3, <1>5
<1> QED
  BY <1>2, <1>4, <1>6 DEF y

SplitStep ==
    LET E == EvmStake \div WeiPerUnit
        all == 100 * (rex_pool.total_lendable + E)
        error == Received(EVM_ACCOUNT) * all - total_due(REX_ACCOUNT) * E * configuration.ratio
    IN  ClockMoves(REX_ACCOUNT) /\ rex_available(rex_pool) /\ EvmStake > 0 =>
          2 * error \in -all..all

LEMMA NextSplit ==
    ASSUME IInv, MoneyOK, [Next]_vars
    PROVE  SplitStep
<1> DEFINE E == EvmStake \div WeiPerUnit
           all == 100 * (rex_pool.total_lendable + E)
           T == total_due(REX_ACCOUNT)
           R == configuration.ratio
           got == Received(EVM_ACCOUNT)
<1>1. SUFFICES ASSUME ClockMoves(REX_ACCOUNT), rex_available(rex_pool), EvmStake > 0
               PROVE  2 * (got * all - T * E * R) \in -all..all
  BY DEF SplitStep
<1>2. pay /\ REX_ACCOUNT \in Payees
  BY <1>1, ClocksRest, TedpAssumption
<1>3. ContractOK /\ ChainOK /\ configuration # NoConfig
  BY <1>2 DEF IInv, pay
<1>4. /\ REX_ACCOUNT \in Due /\ T \in Nat
      /\ REX_ACCOUNT \notin DueWithAmount => T = 0
  BY <1>1, <1>2, ClocksPaid
<1>5. E \in Nat /\ R \in Nat /\ all \in Nat \ {0}
  <2>1. EvmStake \in Nat /\ R \in Nat
    BY <1>3, SMT DEF ContractOK, ChainOK, EvmStake, Config
  <2>2. E \in Nat
    BY <2>1, TedpAssumption, DivLower
  <2>3. rex_pool.total_lendable \in Nat \ {0}
    BY <1>1, <1>3 DEF MoneyOK, ChainOK, PoolOK, Pool
  <2> HIDE DEF E
  <2> QED
    BY <2>1, <2>2, <2>3
<1>6. getbalanceratio = [num |-> E * R, den |-> all]
  <2>1. EvmStake # 0
    <3>1. ~(0 > 0)
      OBVIOUS
    <3> QED
      BY <1>1, <3>1
  <2>2. rex_pool.total_lendable # 0
    <3>1. rex_pool.total_lendable > 0 /\ ~(0 > 0)
      BY <1>1 DEF MoneyOK
    <3> QED
      BY <3>1
  <2> QED
    BY <2>1, <2>2 DEF getbalanceratio
<1> HIDE DEF E, all, R
<1>7. CASE REX_ACCOUNT \notin DueWithAmount
  <2>1. T = 0 /\ got = 0
    BY <1>2, <1>4, <1>7, PayeesReceive
  <2>2. 0 * E * R = 0 /\ 0 * all = 0
    BY <1>5, SMT
  <2>3. 2 * (0 - 0) \in -all..all
    BY <1>5
  <2> QED
    BY <2>1, <2>2, <2>3
<1>8. CASE REX_ACCOUNT \in DueWithAmount
  <2> DEFINE a == payout_amount(REX_ACCOUNT)
             n == E * R
  <2>1. got = EvmPart(REX_ACCOUNT)
    BY <1>2, <1>8, PayeesReceive
  <2>2. n \in Nat /\ getbalanceratio.num = n /\ getbalanceratio.den = all
    BY <1>5, <1>6, SMT
  <2>3. a = Round(T * (all - n), all)
    BY <2>2 DEF payout_amount
  <2>4. a \in Int /\ 2 * ((T - a) * all - T * n) \in -all..all
    <3> HIDE DEF a, n, T
    <3>1. T \in Nat /\ n \in Int /\ all \in Nat \ {0}
      BY <1>4, <1>5, <2>2
    <3> QED
      BY <2>3, <3>1, SplitClose
  <2>5. a <= T
    BY <1>3, <1>4, SplitOK
  <2>6. T * n = T * E * R
    BY <1>4, <1>5, SMT
  <2>7. CASE n # 0
    <3>1. EvmPart(REX_ACCOUNT) = IF a < T THEN T - a ELSE 0
      BY <2>2, <2>7 DEF EvmPart, ViaEvm
    <3>2. EvmPart(REX_ACCOUNT) = T - a
      <4> HIDE DEF a, T
      <4> QED
        BY <1>4, <2>4, <2>5, <3>1
    <3> QED
      BY <2>1, <2>4, <2>6, <3>2
  <2>8. CASE n = 0
    <3>1. got = 0
      BY <2>1, <2>2, <2>8 DEF EvmPart, ViaEvm
    <3>2. T * E * R = 0 /\ 0 * all = 0
      <4>1. T * 0 = 0 /\ 0 * all = 0
        BY <1>4, <1>5, SMT
      <4> QED
        BY <2>6, <2>8, <4>1
    <3>3. 2 * (0 - 0) \in -all..all
      BY <1>5
    <3> QED
      BY <3>1, <3>2, <3>3
  <2> QED
    BY <2>7, <2>8
<1> QED
  BY <1>7, <1>8

\* Whatever is staked and whatever the ratio, the EVM's part of a payout to
\* REX is off by half a unit at most.
THEOREM SplitIsProportional == Spec => SplitProportional
<1>1. IInv /\ MoneyOK /\ [Next]_vars => [SplitStep]_vars
  BY NextSplit
<1> QED
  BY <1>1, SpecMoney, PTL DEF Spec, SplitProportional, SplitStep
=============================================================================
