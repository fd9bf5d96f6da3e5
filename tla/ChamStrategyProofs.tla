------------------------- MODULE ChamStrategyProofs -------------------------
(***************************************************************************)
(* The decisions of ChamStrategy fit together, for every number of ranks,  *)
(* all loads and all settings.                                             *)
(***************************************************************************)
EXTENDS ChamStrategy, TLAPS

(* The place of a rank is one, and names it.                               *)
LEMMA PlaceFacts ==
  ASSUME NEW order, NEW load, Sorts(order, load), NEW r \in Place
  PROVE  PlaceOf(order, r) \in Place /\ order[PlaceOf(order, r)] = r
<1>1. \E i \in Place : order[i] = r
  BY DEF Sorts
<1>. QED
  BY <1>1 DEF PlaceOf

(* A rank's partner has the opposite place, and the rank is its partner.   *)
LEMMA PartnerFacts ==
  ASSUME N \in Nat, NEW order, NEW load, Sorts(order, load), NEW r \in Place
  PROVE  /\ Partner(order, r) \in Place
         /\ PlaceOf(order, Partner(order, r)) = N - 1 - PlaceOf(order, r)
<1>. DEFINE i == PlaceOf(order, r)
            q == Partner(order, r)
<1>1. i \in Place
  BY PlaceFacts
<1>2. N - 1 - i \in Place
  BY <1>1 DEF Place
<1>3. q = order[N - 1 - i]
  BY DEF Partner
<1>4. q \in Place
  BY <1>2, <1>3 DEF Sorts
<1>5. PlaceOf(order, q) \in Place /\ order[PlaceOf(order, q)] = q
  BY <1>4, PlaceFacts
<1>6. PlaceOf(order, q) = N - 1 - i
  BY <1>2, <1>3, <1>5 DEF Sorts
<1>. QED
  BY <1>4, <1>6

(* Only a rank that offloads gives tasks, and only to its partner.         *)
LEMMA OnlyToPartner ==
  ASSUME NEW order, NEW load, NEW r \in Place, NEW q \in Place,
         ToOffload(order, load, r)[q] > 0
  PROVE  /\ Offloads(order, load, r) /\ q = Partner(order, r)
         /\ ToOffload(order, load, r)[q] = NumTasks(load[r] - load[q])
<1>1. ToOffload(order, load, r)[q] # 0
  OBVIOUS
<1>. QED
  BY <1>1 DEF ToOffload

(* A rank's partner's place is opposite its own, so two ranks with one     *)
(* partner are one (chameleon_strategies.cpp, lines 96-104).               *)
THEOREM SourcesAreApart ==
  ASSUME N \in Nat, NEW order, NEW load, Sorts(order, load)
  PROVE  OneSource(order, load)
<1>. SUFFICES ASSUME NEW r \in Place, NEW s \in Place, NEW q \in Place,
                     ToOffload(order, load, r)[q] > 0,
                     ToOffload(order, load, s)[q] > 0
              PROVE  r = s
  BY DEF OneSource
<1>1. q = Partner(order, r) /\ q = Partner(order, s)
  BY OnlyToPartner
<1>2. N - 1 - PlaceOf(order, r) = N - 1 - PlaceOf(order, s)
  <2>1. PlaceOf(order, q) = N - 1 - PlaceOf(order, r)
    BY <1>1, PartnerFacts
  <2>2. PlaceOf(order, q) = N - 1 - PlaceOf(order, s)
    BY <1>1, PartnerFacts
  <2>. QED
    BY <2>1, <2>2
<1>3. /\ PlaceOf(order, r) \in Place /\ order[PlaceOf(order, r)] = r
      /\ PlaceOf(order, s) \in Place /\ order[PlaceOf(order, s)] = s
  BY PlaceFacts
<1>4. PlaceOf(order, r) = PlaceOf(order, s)
  BY <1>2, <1>3 DEF Place
<1>. QED
  BY <1>3, <1>4

(* Who gives is in the upper half, who takes in the lower (line 99).       *)
THEOREM GiversDoNotTake ==
  ASSUME N \in Nat, NEW order, NEW load, Sorts(order, load)
  PROVE  GivesOrTakes(order, load)
<1>. SUFFICES ASSUME NEW r \in Place, NEW q \in Place,
                     ToOffload(order, load, r)[q] > 0
              PROVE  q # r /\ \A s \in Place : ToOffload(order, load, q)[s] = 0
  BY DEF GivesOrTakes
<1>1. Offloads(order, load, r) /\ q = Partner(order, r)
  BY OnlyToPartner
<1>2. 2 * PlaceOf(order, r) >= N
  BY <1>1 DEF Offloads
<1>3. PlaceOf(order, q) = N - 1 - PlaceOf(order, r)
  BY <1>1, PartnerFacts
<1>4. PlaceOf(order, r) \in Place
  BY PlaceFacts
<1>5. ~ (2 * PlaceOf(order, q) >= N)
  BY <1>2, <1>3, <1>4 DEF Place
<1>6. q # r
  BY <1>2, <1>5
<1>7. ~ Offloads(order, load, q)
  BY <1>5 DEF Offloads
<1>. QED
  BY <1>6, <1>7 DEF ToOffload

(* With the default settings, 2 and 0.5, the rounding down and the one     *)
(* task at least leave the pair in order (lines 106-118).                  *)
THEOREM TakersStayBelow ==
  ASSUME N \in Nat, MinAbs \in Nat, MinAbs >= 2,
         Percentage \in Nat, Percentage <= 50,
         NEW order, NEW load \in [Place -> Nat], Sorts(order, load)
  PROVE  NoOvertaking(order, load)
<1>. SUFFICES ASSUME NEW r \in Place, NEW q \in Place,
                     ToOffload(order, load, r)[q] > 0
              PROVE  load[q] + ToOffload(order, load, r)[q]
                       <= load[r] - ToOffload(order, load, r)[q]
  BY DEF NoOvertaking
<1>. DEFINE diff == load[r] - load[q]
            share == (diff * Percentage) \div 100
<1>1. /\ Offloads(order, load, r) /\ q = Partner(order, r)
      /\ ToOffload(order, load, r)[q] = NumTasks(diff)
  BY OnlyToPartner
<1>2. load[r] \in Nat /\ load[q] \in Nat
  OBVIOUS
<1>3. diff \in Nat /\ diff >= 2
  BY <1>1, <1>2 DEF Offloads
<1>4. NumTasks(diff) = 1 \/ NumTasks(diff) = share
  BY DEF NumTasks
<1>5. share \in Int /\ 2 * share <= diff
  <2>. HIDE DEF diff
  <2>1. PICK d \in Nat : d = diff
    BY <1>3
  <2>2. d * Percentage \in Nat
    BY <2>1
  <2>3. d * Percentage <= d * 50
    BY <2>1
  <2>4. PICK x \in Nat : x = d * Percentage
    BY <2>2
  <2>5. x \div 100 \in Int /\ 100 * (x \div 100) <= x
    BY <2>4
  <2>. QED
    BY <2>1, <2>3, <2>4, <2>5 DEF share
<1>6. NumTasks(diff) \in Int /\ 2 * NumTasks(diff) <= diff
  BY <1>3, <1>4, <1>5
<1>. QED
  BY <1>1, <1>2, <1>6
=============================================================================
