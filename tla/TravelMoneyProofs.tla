-------------------------- MODULE TravelMoneyProofs --------------------------
(* What the money arithmetic guarantees for every amount, not just the ones *)
(* a test picks.                                                            *)
EXTENDS TravelMoney, TLAPS

(* An amount is at most that much below or above another.                   *)
Within(x, y, below, above) == x <= y + above /\ y <= x + below

(* Rounding moves an amount by at most half a centavo, a half upwards       *)
(* (core/money.py to_money).                                                *)
LEMMA RoundingIsClose ==
  ASSUME NEW h \in Nat
  PROVE  /\ ToMoney(h) \in Nat
         /\ Within(100 * ToMoney(h), h, 49, 50)
<1>. DEFINE q == (h + 50) \div 100
<1>1. q \in Int
  OBVIOUS
<1>2. 100 * q <= h + 50 /\ h + 50 < 100 * (q + 1)
  BY SMT
<1>3. ToMoney(h) = q
  BY DEF ToMoney
<1>. HIDE DEF q
<1>. QED
  BY <1>1, <1>2, <1>3, SMT DEF Within

(* A full day is worth its daily rate and a day of travel its departure     *)
(* percentage, give or take the rounding of the components: less than two   *)
(* centavos, whatever the rate and however the percentages are split        *)
(* (compute_per_diem, _apportionment, _departure_pct).                      *)
THEOREM DayIsWorthItsShare ==
  ASSUME NEW daily \in Nat, NEW split,
         split \in [lodging: Nat, meals: Nat, incidentals: Nat],
         split.lodging + split.meals + split.incidentals = 100
  PROVE  LET worth(type) == 100 * DayAmount(daily, split, ComponentsOf(type))
         IN  /\ Within(worth("full"), daily * 100, 147, 150)
             /\ Within(worth("arrival"), daily * 100, 147, 150)
             /\ Within(worth("return"), daily * (split.meals + split.incidentals), 98, 100)
             /\ Within(worth("same_day"), daily * (split.meals + split.incidentals), 98, 100)
<1>. DEFINE l == daily * split.lodging
            m == daily * split.meals
            i == daily * split.incidentals
<1>1. l \in Nat /\ m \in Nat /\ i \in Nat
  OBVIOUS
<1>2. l + m + i = daily * 100 /\ m + i = daily * (split.meals + split.incidentals)
  <2>1. /\ split.lodging \in Nat /\ split.meals \in Nat /\ split.incidentals \in Nat
    OBVIOUS
  <2>2. \A a, b, c \in Nat : daily * a + daily * b + daily * c = daily * (a + b + c)
    OBVIOUS
  <2>3. \A a, b \in Nat : daily * a + daily * b = daily * (a + b)
    OBVIOUS
  <2>4. l + m + i = daily * (split.lodging + split.meals + split.incidentals)
    BY <2>1, <2>2
  <2>5. m + i = daily * (split.meals + split.incidentals)
    BY <2>1, <2>3
  <2>. QED
    BY <2>4, <2>5
<1>3. /\ ToMoney(l) \in Nat /\ Within(100 * ToMoney(l), l, 49, 50)
      /\ ToMoney(m) \in Nat /\ Within(100 * ToMoney(m), m, 49, 50)
      /\ ToMoney(i) \in Nat /\ Within(100 * ToMoney(i), i, 49, 50)
  BY <1>1, RoundingIsClose
<1>4. /\ DayAmount(daily, split, ComponentsOf("full")) = ToMoney(l) + ToMoney(m) + ToMoney(i)
      /\ DayAmount(daily, split, ComponentsOf("arrival")) = ToMoney(l) + ToMoney(m) + ToMoney(i)
      /\ DayAmount(daily, split, ComponentsOf("return")) = 0 + ToMoney(m) + ToMoney(i)
      /\ DayAmount(daily, split, ComponentsOf("same_day")) = 0 + ToMoney(m) + ToMoney(i)
  BY DEF DayAmount, Component, ComponentsOf
<1>. DEFINE part == daily * (split.meals + split.incidentals)
<1>5. part = m + i /\ daily * 100 = l + m + i
  BY <1>2
<1>. HIDE DEF l, m, i, part
<1>6. Within(100 * (ToMoney(l) + ToMoney(m) + ToMoney(i)), l + m + i, 147, 150)
  BY <1>1, <1>3 DEF Within
<1>7. Within(100 * (0 + ToMoney(m) + ToMoney(i)), m + i, 98, 100)
  BY <1>1, <1>3 DEF Within
<1>. QED
  BY <1>4, <1>5, <1>6, <1>7 DEF part

(* Taking a component away never raises a day, and a provision the day does *)
(* not have takes nothing: the strips of compute_per_diem never penalise    *)
(* twice.                                                                   *)
THEOREM StripsOnlyTakeWhatIsThere ==
  ASSUME NEW daily \in Nat, NEW split,
         split \in [lodging: Nat, meals: Nat, incidentals: Nat],
         NEW leg, leg.lodging \in BOOLEAN, leg.meals \in BOOLEAN
  PROVE  /\ \A type \in {"arrival", "full", "return", "same_day"} :
              DayAmount(daily, split, ComponentsOf(type) \ Provided(leg))
                <= DayAmount(daily, split, ComponentsOf(type))
         /\ \A type \in {"return", "same_day"} : ~leg.meals =>
              DayAmount(daily, split, ComponentsOf(type) \ Provided(leg))
                = DayAmount(daily, split, ComponentsOf(type))
<1>1. \A name \in {"lodging", "meals", "incidentals"} : Component(daily, split, name) \in Nat
  <2>. SUFFICES ASSUME NEW name \in {"lodging", "meals", "incidentals"}
                PROVE  Component(daily, split, name) \in Nat
    OBVIOUS
  <2>1. daily * split[name] \in Nat
    OBVIOUS
  <2>. QED
    BY <2>1, RoundingIsClose DEF Component
<1>2. /\ Component(daily, split, "lodging") \in Nat
      /\ Component(daily, split, "meals") \in Nat
      /\ Component(daily, split, "incidentals") \in Nat
  BY <1>1
<1>. QED
  BY <1>2 DEF DayAmount, ComponentsOf, Provided

(* Settling an advance against what the trip cost leaves one side owing     *)
(* exactly the difference, and never both (per_diem.settle).                *)
THEOREM OneSideOwes ==
  ASSUME NEW grand \in Nat, NEW advance \in Nat
  PROVE  LET due == SettleBalance(grand, advance)
         IN  /\ due.to_reimburse \in Nat /\ due.to_refund \in Nat
             /\ due.to_reimburse = 0 \/ due.to_refund = 0
             /\ grand + due.to_refund = advance + due.to_reimburse
  BY DEF SettleBalance

(* The mode read back from the stored totals says which way the money goes, *)
(* without subtracting again (settlement.settlement_mode).                  *)
THEOREM ModeNamesTheDebtor ==
  ASSUME NEW grand \in Nat, NEW advance \in Nat
  PROVE  LET mode == SettlementMode(SettleBalance(grand, advance))
         IN  /\ mode = "refund" <=> advance > grand
             /\ mode = "over_advance" <=> grand > advance
             /\ mode = "exact" <=> grand = advance
  BY DEF SettlementMode, SettleBalance

(* Whatever is configured, the rule in force gives at least a day, and the  *)
(* calendar it falls back on counts from the return (deadline.read_rule,    *)
(* liquidation_deadline).                                                   *)
THEOREM EveryAdvanceHasAClock ==
  ASSUME NEW value, value # Nothing => (value.days = Nothing \/ value.days \in Int),
         NEW returned \in Int, returned # Nothing, NEW nonworking
  PROVE  LET rule == ReadRule(value)
         IN  /\ rule.days \in Nat \ {0}
             /\ rule.basis \in {"working", "calendar"}
             /\ rule.basis = "calendar" =>
                  LiquidationDeadline(returned, rule, nonworking) > returned
<1>1. ReadRule(value).days \in Nat \ {0} /\ ReadRule(value).basis \in {"working", "calendar"}
  BY DEF ReadRule, DefaultRule
<1>. QED
  BY <1>1 DEF LiquidationDeadline
=============================================================================
