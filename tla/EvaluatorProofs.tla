-------------------------- MODULE EvaluatorProofs --------------------------
(***************************************************************************)
(* Proofs about evaluate, the callers of Consultation and the Rust port    *)
(* that decides like them, for bundles of any size, any facts, any values  *)
(* and any width of the port's integers; and about the reference tenant's  *)
(* bundles for any numbers in a case.                                      *)
(***************************************************************************)
EXTENDS EdgeParity, ReferenceTenant, FiniteSetTheorems, WellFoundedInduction, TLAPS

(***************************************************************************)
(* Finite sets have greatest elements, naturals have least ones.           *)
(***************************************************************************)
LessNat == {x \in Nat \X Nat : x[1] < x[2]}

LEMMA LessNatWellFounded == IsWellFoundedOn(LessNat, Nat)
  <1>1. LessNat = OpToRel(<, Nat)
    BY DEF LessNat, OpToRel
  <1> QED
    BY <1>1, NatLessThanWellFounded

LEMMA LeastNatural ==
  ASSUME NEW T, T \subseteq Nat, T # {}
  PROVE  \E m \in T : \A n \in T : m <= n
  <1>1. PICK m \in T : \A y \in T : ~ (<<y, m>> \in LessNat)
    BY LessNatWellFounded, WFMin
  <1>2. ASSUME NEW y \in T PROVE m <= y
    <2>1. <<y, m>> \in Nat \X Nat
      OBVIOUS
    <2>2. ~ (<<y, m>>[1] < <<y, m>>[2])
      BY <1>1, <2>1 DEF LessNat
    <2> QED
      BY <2>2
  <1> QED
    BY <1>2

(* The element with the fewest greater ones has none. *)
LEMMA GreatestExists ==
  ASSUME NEW S, IsFiniteSet(S), S # {}, NEW f, \A i \in S : f[i] \in Int
  PROVE  \E i \in S : \A j \in S : f[j] <= f[i]
  <1> DEFINE Above(i) == {j \in S : f[j] > f[i]}
             Counts == {Cardinality(Above(i)) : i \in S}
  <1>1. ASSUME NEW i \in S
        PROVE  IsFiniteSet(Above(i)) /\ Cardinality(Above(i)) \in Nat
    <2>1. Above(i) \in SUBSET S
      OBVIOUS
    <2> HIDE DEF Above
    <2>2. IsFiniteSet(Above(i))
      BY <2>1, FS_Subset
    <2> QED
      BY <2>2, FS_CardinalityType
  <1>2. PICK m \in Counts : \A n \in Counts : m <= n
    <2>1. Counts \subseteq Nat /\ Counts # {}
      BY <1>1
    <2> HIDE DEF Counts
    <2> QED
      BY <2>1, LeastNatural
  <1>3. PICK i \in S : m = Cardinality(Above(i))
    OBVIOUS
  <1>4. ASSUME NEW j \in S, f[j] > f[i] PROVE FALSE
    <2>1. Above(j) \subseteq Above(i) /\ j \in Above(i) /\ j \notin Above(j)
      BY <1>4
    <2>2. Cardinality(Above(j)) <= Cardinality(Above(i))
          /\ Cardinality(Above(j)) # Cardinality(Above(i))
      BY <1>1, <2>1, FS_Subset
    <2>3. Cardinality(Above(i)) <= Cardinality(Above(j))
      BY <1>2, <1>3
    <2> QED
      BY <1>1, <2>2, <2>3
  <1> QED
    BY <1>4

-----------------------------------------------------------------------------
(* _select_winner *)

(* What the precedence among policies rests on. *)
Ordered(ps) ==
  /\ IsList(ps)
  /\ \A i, j \in DOMAIN ps : ps[i].id = ps[j].id => i = j
  /\ \A i \in DOMAIN ps : ps[i].priority \in 0 .. 1000 /\ IsList(ps[i].conditions)
  /\ AcyclicOverrides(ps)

LEMMA IntegrityOrders ==
  ASSUME NEW ps, Integrity(ps)
  PROVE  Ordered(ps)
  BY DEF Integrity, Ordered

LEMMA PositionsFinite ==
  ASSUME NEW ps, Ordered(ps), NEW M, M \subseteq DOMAIN ps
  PROVE  /\ IsFiniteSet(M)
         /\ M \subseteq Nat
         /\ \A i \in M : ps[i].priority \in Nat /\ specificity(ps[i]) \in Nat
  <1>1. Len(ps) \in Nat /\ DOMAIN ps = 1 .. Len(ps)
    BY DEF Ordered, IsList
  <1>2. IsFiniteSet(1 .. Len(ps))
    BY <1>1, FS_Interval
  <1>3. ASSUME NEW i \in M
        PROVE  ps[i].priority \in Nat /\ specificity(ps[i]) \in Nat
    <2>1. i \in DOMAIN ps
      OBVIOUS
    <2>2. ps[i].priority \in 0 .. 1000 /\ IsList(ps[i].conditions)
      BY <2>1 DEF Ordered
    <2>3. specificity(ps[i]) \in Nat
      BY <2>2, Zenon DEF IsList, specificity
    <2>4. ps[i].priority \in Nat
      BY <2>2
    <2> QED
      BY <2>3, <2>4, Zenon
  <1> QED
    BY <1>1, <1>2, <1>3, FS_Subset

(* One by one instead of filter by filter: a survivor is a policy that is  *)
(* not overridden and that no other such policy beats.                     *)
LEMMA SurvivorsUndefeated ==
  ASSUME NEW ps, Ordered(ps), NEW M, M \subseteq DOMAIN ps, NEW i \in DOMAIN ps
  PROVE  i \in Survivors(ps, M) <=>
           /\ i \in M \ Overridden(ps, M)
           /\ \A j \in M \ Overridden(ps, M) :
                ~ \/ specificity(ps[j]) > specificity(ps[i])
                  \/ /\ specificity(ps[j]) = specificity(ps[i])
                     /\ ps[j].priority > ps[i].priority
  <1> DEFINE C == M \ Overridden(ps, M)
  <1>1. \A j \in C : ps[j].priority \in Nat /\ specificity(ps[j]) \in Nat
    BY PositionsFinite
  <1>2. Survivors(ps, M) = TopPriority(ps, MostSpecific(ps, C))
    BY DEF Survivors, Specific
  <1> HIDE DEF C
  <1>3. i \in MostSpecific(ps, C) <=>
          i \in C /\ \A j \in C : ~ specificity(ps[j]) > specificity(ps[i])
    BY <1>1 DEF MostSpecific
  <1>4. ASSUME i \in MostSpecific(ps, C)
        PROVE  MostSpecific(ps, C) = {j \in C : specificity(ps[j]) = specificity(ps[i])}
    BY <1>1, <1>4 DEF MostSpecific
  <1>5. i \in Survivors(ps, M) <=>
          /\ i \in MostSpecific(ps, C)
          /\ \A j \in MostSpecific(ps, C) : ~ ps[j].priority > ps[i].priority
    <2>1. MostSpecific(ps, C) \subseteq C
      BY DEF MostSpecific
    <2> QED
      BY <1>1, <1>2, <2>1 DEF TopPriority
  <1>6. i \in Survivors(ps, M) <=>
          /\ i \in C
          /\ \A j \in C :
               ~ \/ specificity(ps[j]) > specificity(ps[i])
                 \/ /\ specificity(ps[j]) = specificity(ps[i])
                    /\ ps[j].priority > ps[i].priority
    BY <1>3, <1>4, <1>5
  <1> QED
    BY <1>6 DEF C

(* Overrides are acyclic, so one matched policy at least is not overridden *)
(* and one survives: survivors[0] is there.                                *)
LEMMA SurvivorsExist ==
  ASSUME NEW ps, Ordered(ps), NEW M, M \subseteq DOMAIN ps, M # {}
  PROVE  Survivors(ps, M) # {}
  <1> DEFINE C == M \ Overridden(ps, M)
  <1>1. PICK rank \in [DOMAIN ps -> 1 .. Len(ps)] :
          \A i, j \in DOMAIN ps : ps[j].id \in ps[i].overrides => rank[i] < rank[j]
    BY DEF Ordered, AcyclicOverrides
  <1>2. \A i \in M : rank[i] \in Nat
    <2>1. Len(ps) \in Nat
      BY DEF Ordered, IsList
    <2> QED
      BY <1>1, <2>1
  <1>3. PICK i \in M : \A j \in M : rank[i] <= rank[j]
    <2> DEFINE ranks == {rank[k] : k \in M}
    <2>1. ranks \subseteq Nat /\ ranks # {}
      BY <1>2
    <2>2. PICK m \in ranks : \A n \in ranks : m <= n
      <3> HIDE DEF ranks
      <3> QED
        BY <2>1, LeastNatural
    <2> QED
      BY <2>2
  <1>4. i \in C
    <2>1. ASSUME NEW j \in M, ps[i].id \in ps[j].overrides PROVE FALSE
      BY <1>1, <1>2, <1>3, <2>1
    <2> QED
      BY <2>1 DEF Overridden, Overriders
  <1>5. C \subseteq DOMAIN ps /\ C # {}
    BY <1>4
  <1> HIDE DEF C
  <1>6. PICK s \in C : \A j \in C : specificity(ps[j]) <= specificity(ps[s])
    <2> DEFINE spec == [k \in C |-> specificity(ps[k])]
    <2>1. \A k \in C : spec[k] \in Int
      <3>1. \A k \in C : specificity(ps[k]) \in Nat
        BY <1>5, PositionsFinite
      <3> QED
        BY <3>1
    <2>2. \E k \in C : \A j \in C : spec[j] <= spec[k]
      <3> HIDE DEF spec
      <3> QED
        BY <1>5, <2>1, PositionsFinite, GreatestExists
    <2> QED
      BY <2>2
  <1>7. s \in MostSpecific(ps, C) /\ MostSpecific(ps, C) \subseteq DOMAIN ps
    BY <1>5, <1>6 DEF MostSpecific
  <1> DEFINE B == MostSpecific(ps, C)
  <1>8. B # {} /\ B \subseteq DOMAIN ps
    BY <1>7
  <1> HIDE DEF B
  <1>9. PICK p \in B : \A j \in B : ps[j].priority <= ps[p].priority
    <2> DEFINE prio == [k \in B |-> ps[k].priority]
    <2>1. \A k \in B : prio[k] \in Int
      BY <1>8, PositionsFinite
    <2>2. \E k \in B : \A j \in B : prio[j] <= prio[k]
      <3> HIDE DEF prio
      <3> QED
        BY <1>8, <2>1, PositionsFinite, GreatestExists
    <2> QED
      BY <2>2
  <1> QED
    BY <1>9 DEF Survivors, Specific, TopPriority, B, C

-----------------------------------------------------------------------------
(* evaluate *)

(* Which of the branches of evaluate is taken. *)
LEMMA SurvivorCounts ==
  ASSUME NEW ps, Ordered(ps), NEW M, M \subseteq DOMAIN ps
  PROVE  /\ Survivors(ps, M) \subseteq M
         /\ M # {} => Survivors(ps, M) # {}
         /\ Cardinality(Survivors(ps, M)) \in Nat
         /\ Cardinality(Survivors(ps, M)) = 0 <=> Survivors(ps, M) = {}
         /\ Cardinality(Survivors(ps, M)) = 1 <=> \E i : Survivors(ps, M) = {i}
  <1> DEFINE S == Survivors(ps, M)
  <1>1. S \subseteq M
    BY DEF Survivors, TopPriority, Specific, MostSpecific
  <1>2. IsFiniteSet(S) /\ Cardinality(S) \in Nat
    BY <1>1, PositionsFinite, FS_CardinalityType
  <1>3. (Cardinality(S) = 0 <=> S = {}) /\ (Cardinality(S) = 1 <=> \E i : S = {i})
    BY <1>2, FS_EmptySet, FS_Singleton
  <1> QED
    BY <1>1, <1>2, <1>3, SurvivorsExist

LEMMA NothingProven ==
  ASSUME NEW ps, Ordered(ps), NEW U, NEW eff
  PROVE  OutcomeOf(ps, {}, U, eff) =
           IF U = {} THEN Escalate("no_matching_policy", {}, {})
                     ELSE Escalate("missing_facts", MissingIn(ps, U, eff), {})
  <1>1. Cardinality(Survivors(ps, {})) = 0
    BY SurvivorCounts
  <1> QED
    BY <1>1 DEF OutcomeOf

LEMMA OneSurvivor ==
  ASSUME NEW ps, Ordered(ps), NEW M, M \subseteq DOMAIN ps, NEW U, NEW eff,
         NEW i, Survivors(ps, M) = {i}
  PROVE  /\ Winner(ps, M) = i
         /\ OutcomeOf(ps, M, U, eff) =
              IF Blockers(ps, M, U) = {}
                THEN Decisive(ps[i])
                ELSE Escalate("missing_facts", MissingIn(ps, Blockers(ps, M, U), eff), {})
  <1>1. i \in M /\ i \in Nat
    BY SurvivorCounts, PositionsFinite
  <1>2. Cardinality(Survivors(ps, M)) = 1 /\ Survivors(ps, M) # {}
    BY SurvivorCounts
  <1>3. Winner(ps, M) = i
    BY <1>1 DEF Winner, First
  <1> QED
    BY <1>1, <1>2, <1>3 DEF OutcomeOf

LEMMA SeveralSurvivors ==
  ASSUME NEW ps, Ordered(ps), NEW M, M \subseteq DOMAIN ps, NEW U, NEW eff,
         M # {}, ~ (\E i : Survivors(ps, M) = {i})
  PROVE  OutcomeOf(ps, M, U, eff) =
           Escalate("conflict", {}, {ps[j].id : j \in Survivors(ps, M)})
  <1> DEFINE n == Cardinality(Survivors(ps, M))
             conflict == Escalate("conflict", {}, {ps[j].id : j \in Survivors(ps, M)})
  <1>1. n \in Nat /\ n # 0 /\ n # 1
    BY SurvivorCounts
  <1>2. n > 1
    <2> HIDE DEF n
    <2> QED
      BY <1>1
  <1>3. OutcomeOf(ps, M, U, eff) = conflict
    <2>1. M # {} /\ Survivors(ps, M) # {} /\ n # 1
      BY <1>1, SurvivorCounts
    <2> QED
      BY <1>2, <2>1, Zenon DEF OutcomeOf
  <1> QED
    BY <1>3

(* The code's statuses are those of the docstring. *)
LEMMA Statuses ==
  ASSUME bundle \in Bundles
  PROVE  /\ Integrity(bundle) /\ Ordered(bundle)
         /\ Proven = Matched(bundle, Effective(facts))
         /\ Unproven = Undeterminable(bundle, Effective(facts))
  <1>1. Integrity(bundle) /\ Ordered(bundle)
    BY ConsultationAssumptions, IntegrityOrders
  <1>2. ASSUME NEW i \in DOMAIN bundle, NEW k \in DOMAIN bundle[i].conditions
        PROVE  bundle[i].conditions[k].field \in Declared
    BY <1>1 DEF Integrity
  <1>3. ASSUME NEW i \in DOMAIN bundle
        PROVE  /\ Missing(bundle[i], Effective(facts)) = {} <=>
                    \A c \in ConditionsOf(bundle[i]) : Known(c.field)
               /\ ~ Fails(bundle[i], Effective(facts)) <=>
                    \A c \in ConditionsOf(bundle[i]) : Known(c.field) => Holds(c)
    BY <1>2 DEF Missing, Fails, ConditionsOf, Known, Holds
  <1>4. Proven = Matched(bundle, Effective(facts))
    BY <1>3 DEF Proven, Matched, Holds
  <1>5. Unproven = Undeterminable(bundle, Effective(facts))
    BY <1>3 DEF Unproven, Proven, Undeterminable, Holds
  <1> QED
    BY <1>1, <1>4, <1>5

LEMMA FieldsAsked ==
  ASSUME NEW S
  PROVE  MissingIn(bundle, S, Effective(facts)) = UnknownFields(S)
  BY DEF MissingIn, UnknownFields, Missing, Known, ConditionsOf

LEMMA UndefeatedSurvive ==
  ASSUME bundle \in Bundles
  PROVE  Undefeated = Survivors(bundle, Matched(bundle, Effective(facts)))
  <1> DEFINE M == Matched(bundle, Effective(facts))
  <1>1. Integrity(bundle) /\ Ordered(bundle) /\ Proven = M /\ M \subseteq DOMAIN bundle
    BY Statuses DEF Matched
  <1> HIDE DEF M
  <1>2. Standing = M \ Overridden(bundle, M)
    BY <1>1 DEF Standing, OverriddenIn, Overridden, Overriders
  <1>3. ASSUME NEW i \in DOMAIN bundle
        PROVE  i \in Undefeated <=> i \in Survivors(bundle, M)
    BY <1>1, <1>2, SurvivorsUndefeated DEF Undefeated, Beats
  <1>4. Survivors(bundle, M) \subseteq M
    BY DEF Survivors, TopPriority, Specific, MostSpecific
  <1>5. Undefeated \subseteq M
    BY <1>2 DEF Undefeated
  <1> QED
    BY <1>1, <1>3, <1>4, <1>5 DEF M

(* evaluate decides as its docstring says. *)
LEMMA ByPrecedence == bundle \in Bundles => DecidesByPrecedence
  <1> SUFFICES ASSUME bundle \in Bundles, ~ Invalid(facts)
               PROVE  DecidesByPrecedence
    BY DEF DecidesByPrecedence
  <1> DEFINE eff == Effective(facts)
             M == Matched(bundle, eff)
             U == Undeterminable(bundle, eff)
  <1>1. Integrity(bundle) /\ Ordered(bundle) /\ Proven = M /\ Unproven = U /\ M \subseteq DOMAIN bundle
    BY Statuses DEF Matched
  <1>2. outcome = OutcomeOf(bundle, M, U, eff)
    BY DEF outcome, evaluate
  <1>3. Undefeated = Survivors(bundle, M)
    BY UndefeatedSurvive
  <1>4. \A S : MissingIn(bundle, S, eff) = UnknownFields(S)
    BY FieldsAsked
  <1>5. \A i : Exceptions(i) = {j \in U : bundle[j].priority > bundle[i].priority}
    BY <1>1 DEF Exceptions
  <1>6. Proven # {} => Undefeated # {}
    BY <1>1, <1>3, SurvivorsExist
  <1> HIDE DEF eff, M, U
  <1>7. M = {} => outcome = IF U = {} THEN Escalate("no_matching_policy", {}, {})
                                     ELSE Escalate("missing_facts", UnknownFields(U), {})
    BY <1>1, <1>2, <1>4, NothingProven
  <1>8. ASSUME NEW i \in Undefeated
        PROVE  \/ /\ Undefeated = {i}
                  /\ outcome = IF Exceptions(i) = {}
                                 THEN Decisive(bundle[i])
                                 ELSE Escalate("missing_facts", UnknownFields(Exceptions(i)), {})
               \/ /\ Undefeated # {i}
                  /\ outcome = Escalate("conflict", {}, {bundle[j].id : j \in Undefeated})
    <2>1. CASE Undefeated = {i}
      <3>1. Survivors(bundle, M) = {i}
        BY <1>3, <2>1
      <3>2. /\ Winner(bundle, M) = i
            /\ OutcomeOf(bundle, M, U, eff) =
                 IF Blockers(bundle, M, U) = {}
                   THEN Decisive(bundle[i])
                   ELSE Escalate("missing_facts", MissingIn(bundle, Blockers(bundle, M, U), eff), {})
        BY <1>1, <3>1, OneSurvivor
      <3>3. Blockers(bundle, M, U) = Exceptions(i)
        BY <1>5, <3>2 DEF Blockers
      <3> QED
        BY <1>2, <1>4, <2>1, <3>2, <3>3
    <2>2. CASE Undefeated # {i}
      <3>1. ~ (\E j : Undefeated = {j})
        BY <1>8, <2>2
      <3>2. M # {}
        BY <1>1, <1>8 DEF Undefeated, Standing
      <3>3. OutcomeOf(bundle, M, U, eff) =
              Escalate("conflict", {}, {bundle[j].id : j \in Survivors(bundle, M)})
        BY <1>1, <1>3, <3>1, <3>2, SeveralSurvivors
      <3> QED
        BY <1>2, <1>3, <2>2, <3>3
    <2> QED
      BY <2>1, <2>2
  <1> QED
    BY <1>1, <1>6, <1>7, <1>8 DEF DecidesByPrecedence

-----------------------------------------------------------------------------
(* The trace. *)

LEMMA FirstIn ==
  ASSUME NEW S, S \subseteq Nat, S # {}
  PROVE  First(S) \in S
  BY LeastNatural, Zenon DEF First

LEMMA LastIn ==
  ASSUME NEW S, IsFiniteSet(S), S \subseteq Nat, S # {}
  PROVE  Last(S) \in S
  <1> DEFINE id == [i \in S |-> i]
  <1>1. \A i \in S : id[i] = i /\ id[i] \in Int
    OBVIOUS
  <1> HIDE DEF id
  <1>2. \E i \in S : \A j \in S : id[j] <= id[i]
    BY <1>1, GreatestExists
  <1>3. \E i \in S : \A j \in S : j <= i
    BY <1>1, <1>2
  <1> QED
    BY <1>3, Zenon DEF Last

(* Why a matched policy that did not survive is out. *)
Reason(ps, M, i) ==
  IF i \in Overridden(ps, M)
    THEN Elimination(ps, i, Last(Overriders(ps, M, i)), "overrides")
    ELSE IF i \notin Specific(ps, M)
           THEN Elimination(ps, i, First(Specific(ps, M)), "specificity")
           ELSE Elimination(ps, i, First(Survivors(ps, M)), "priority")

LEMMA OneReasonEach ==
  ASSUME NEW ps, NEW M
  PROVE  Eliminated(ps, M) = {Reason(ps, M, i) : i \in M \ Survivors(ps, M)}
  <1> DEFINE O == Overridden(ps, M)
             B == Specific(ps, M)
             S == Survivors(ps, M)
             E1(i) == Elimination(ps, i, Last(Overriders(ps, M, i)), "overrides")
             E2(i) == Elimination(ps, i, First(B), "specificity")
             E3(i) == Elimination(ps, i, First(S), "priority")
  <1>1. S \subseteq B /\ B \subseteq M \ O /\ O \subseteq M
    BY DEF Survivors, Specific, TopPriority, MostSpecific, Overridden
  <1>2. Eliminated(ps, M) = {E1(i) : i \in O} \cup {E2(i) : i \in (M \ O) \ B}
                              \cup {E3(i) : i \in B \ S}
    BY DEF Eliminated
  <1>3. \A i : Reason(ps, M, i) = IF i \in O THEN E1(i) ELSE IF i \notin B THEN E2(i) ELSE E3(i)
    BY DEF Reason
  <1> HIDE DEF O, B, S, E1, E2, E3
  <1>4. Eliminated(ps, M) = {Reason(ps, M, i) : i \in M \ S}
    BY <1>1, <1>2, <1>3
  <1> QED
    BY <1>4 DEF S

LEMMA EliminatedByAnother ==
  ASSUME NEW ps, Ordered(ps), NEW M, M \subseteq DOMAIN ps, NEW i \in M \ Survivors(ps, M)
  PROVE  /\ Reason(ps, M, i).policy_id = ps[i].id
         /\ \E j \in M : j # i /\ Reason(ps, M, i).eliminated_by = ps[j].id
  <1>1. \A j, rule : /\ Elimination(ps, i, j, rule).policy_id = ps[i].id
                    /\ Elimination(ps, i, j, rule).eliminated_by = ps[j].id
    BY DEF Elimination
  <1>2. Survivors(ps, M) # {} /\ Survivors(ps, M) \subseteq Specific(ps, M)
        /\ Specific(ps, M) \subseteq M
    BY SurvivorsExist DEF Survivors, Specific, TopPriority, MostSpecific
  <1>3. /\ First(Survivors(ps, M)) \in Survivors(ps, M)
        /\ First(Specific(ps, M)) \in Specific(ps, M)
    <2>1. Survivors(ps, M) \subseteq Nat /\ Specific(ps, M) \subseteq Nat /\ Specific(ps, M) # {}
      BY <1>2, PositionsFinite
    <2> QED
      BY <1>2, <2>1, FirstIn
  <1>4. CASE i \in Overridden(ps, M)
    <2>1. PICK T : T = Overriders(ps, M, i)
      OBVIOUS
    <2>2. T \subseteq M /\ T # {}
      BY <1>4, <2>1 DEF Overridden, Overriders
    <2>3. Last(T) \in T
      BY <2>2, PositionsFinite, LastIn
    <2>4. i \notin T
      <3>1. PICK rank \in [DOMAIN ps -> 1 .. Len(ps)] :
              \A k, j \in DOMAIN ps : ps[j].id \in ps[k].overrides => rank[k] < rank[j]
        BY DEF Ordered, AcyclicOverrides
      <3>2. rank[i] \in Nat
        BY <3>1 DEF Ordered, IsList
      <3>3. ps[i].id \notin ps[i].overrides
        BY <3>1, <3>2
      <3> QED
        BY <2>1, <3>3 DEF Overriders
    <2> QED
      BY <1>1, <1>4, <2>1, <2>2, <2>3, <2>4 DEF Reason
  <1>5. CASE i \notin Overridden(ps, M) /\ i \notin Specific(ps, M)
    BY <1>1, <1>2, <1>3, <1>5 DEF Reason
  <1>6. CASE i \notin Overridden(ps, M) /\ i \in Specific(ps, M)
    BY <1>1, <1>2, <1>3, <1>6 DEF Reason
  <1> QED
    BY <1>4, <1>5, <1>6

(* The trace of a decision accounts for every policy that was proven. *)
LEMMA Explained == bundle \in Bundles => ExplanationComplete
  <1> SUFFICES ASSUME bundle \in Bundles, ~ Invalid(facts)
               PROVE  ExplanationComplete
    BY DEF ExplanationComplete
  <1> DEFINE eff == Effective(facts)
             M == Matched(bundle, eff)
             U == Undeterminable(bundle, eff)
             S == Survivors(bundle, M)
             o == OutcomeOf(bundle, M, U, eff)
             IdsOf(T) == {bundle[i].id : i \in T}
  <1>1. /\ Integrity(bundle) /\ Ordered(bundle) /\ Proven = M /\ M \subseteq DOMAIN bundle
        /\ S \subseteq M /\ None \notin Ids(bundle)
    BY Statuses, SurvivorCounts, ConsultationAssumptions DEF Matched
  <1>2. PICK p : p = precedence(bundle, facts)
    OBVIOUS
  <1>3. /\ p.winner = o.policy_id /\ p.tie_between = o.conflict_between
        /\ p.eliminated = Eliminated(bundle, M)
        /\ p.dominance_blocked_by =
             IF M # {} /\ o.escalation_reason = "missing_facts"
               THEN IdsOf(Blockers(bundle, M, U)) ELSE {}
    BY <1>2 DEF precedence
  <1>4. PICK out : out = {e.policy_id : e \in p.eliminated}
    OBVIOUS
  <1>5. PICK kept : kept = p.tie_between \cup ({p.winner} \ {None})
    OBVIOUS
  <1>6. p.eliminated = {Reason(bundle, M, i) : i \in M \ S}
    BY <1>3, OneReasonEach
  <1>7. \A i \in M \ S : /\ Reason(bundle, M, i).policy_id = bundle[i].id
                       /\ \E j \in M : /\ j # i
                                       /\ Reason(bundle, M, i).eliminated_by = bundle[j].id
    BY <1>1, EliminatedByAnother
  <1>8. \A i, j \in M : bundle[i].id = bundle[j].id => i = j
    BY <1>1 DEF Integrity
  <1> DEFINE Told(K) ==
               /\ kept = IdsOf(K)
               /\ \/ K = S /\ p.dominance_blocked_by = {}
                  \/ K = {} /\ (\E i : S = {i}) /\ p.dominance_blocked_by # {}
  <1>9. PICK K \in SUBSET S : Told(K)
    <2> HIDE DEF M, U, eff
    <2>1. CASE M = {}
      <3>1. \E reason, missing : o = Escalate(reason, missing, {})
        BY <1>1, <2>1, NothingProven
      <3>2. p.winner = None /\ p.tie_between = {} /\ p.dominance_blocked_by = {}
        BY <1>3, <2>1, <3>1 DEF Escalate
      <3>3. S = {} /\ kept = {}
        BY <1>1, <1>5, <2>1, <3>2
      <3> QED
        BY <3>2, <3>3
    <2>2. ASSUME NEW i, S = {i} PROVE \E K \in SUBSET S : Told(K)
      <3>1. o = IF Blockers(bundle, M, U) = {}
                  THEN Decisive(bundle[i])
                  ELSE Escalate("missing_facts", MissingIn(bundle, Blockers(bundle, M, U), eff), {})
        BY <1>1, <2>2, OneSurvivor
      <3>2. M # {} /\ bundle[i].id # None
        BY <1>1, <2>2 DEF Ids
      <3> HIDE DEF o, S
      <3>3. CASE Blockers(bundle, M, U) = {}
        <4>1. o.policy_id = bundle[i].id /\ o.conflict_between = {}
          BY <3>1, <3>3 DEF Decisive
        <4>2. p.dominance_blocked_by = {}
          BY <1>3, <3>3
        <4>3. kept = {bundle[i].id}
          BY <1>3, <1>5, <3>2, <4>1
        <4> QED
          BY <2>2, <4>2, <4>3
      <3>4. CASE Blockers(bundle, M, U) # {}
        <4>1. o.policy_id = None /\ o.conflict_between = {} /\ o.escalation_reason = "missing_facts"
          BY <3>1, <3>4 DEF Escalate
        <4>2. p.dominance_blocked_by # {}
          BY <1>3, <3>2, <3>4, <4>1
        <4>3. kept = {}
          BY <1>3, <1>5, <4>1
        <4> QED
          BY <2>2, <4>2, <4>3
      <3> QED
        BY <3>3, <3>4
    <2>3. CASE M # {} /\ ~ (\E i : S = {i})
      <3>1. o = Escalate("conflict", {}, IdsOf(S))
        BY <1>1, <2>3, SeveralSurvivors
      <3> HIDE DEF o, S
      <3>2. /\ o.policy_id = None /\ o.conflict_between = IdsOf(S)
            /\ o.escalation_reason # "missing_facts"
        BY <3>1 DEF Escalate
      <3>3. p.dominance_blocked_by = {} /\ kept = IdsOf(S)
        BY <1>3, <1>5, <3>2
      <3> QED
        BY <3>3
    <2> QED
      BY <2>1, <2>2, <2>3
  <1> HIDE DEF eff, M, U, S, o
  <1>10. out = IdsOf(M \ S)
    BY <1>4, <1>6, <1>7
  <1>11. IdsOf(M) \ (out \cup kept) = IdsOf(S \ K)
    BY <1>1, <1>8, <1>9, <1>10
  <1>12. Cardinality(IdsOf(M) \ (out \cup kept)) = IF p.dominance_blocked_by = {} THEN 0 ELSE 1
    <2>1. CASE K = S /\ p.dominance_blocked_by = {}
      <3>1. IdsOf(S \ K) = {}
        BY <2>1
      <3> QED
        BY <1>11, <2>1, <3>1, FS_EmptySet, Zenon
    <2>2. CASE K = {} /\ (\E i : S = {i}) /\ p.dominance_blocked_by # {}
      <3>1. PICK i : S = {i}
        BY <2>2
      <3>2. IdsOf(S \ K) = {bundle[i].id}
        BY <2>2, <3>1
      <3>3. Cardinality({bundle[i].id}) = 1
        BY FS_Singleton
      <3> QED
        BY <1>11, <2>2, <3>2, <3>3, Zenon
    <2> QED
      BY <1>9, <2>1, <2>2
  <1>13. out \cup kept \subseteq IdsOf(M) /\ out \cap kept = {}
    BY <1>1, <1>8, <1>9, <1>10
  <1>14. \A d, e \in p.eliminated : d.policy_id = e.policy_id => d = e
    BY <1>6, <1>7, <1>8
  <1>15. \A e \in p.eliminated : e.eliminated_by \in IdsOf(M) \ {e.policy_id}
    BY <1>6, <1>7, <1>8
  <1>16. IdsOf(M) = {bundle[i].id : i \in Proven}
    BY <1>1
  <1> HIDE DEF IdsOf
  <1> QED
    BY <1>2, <1>4, <1>5, <1>12, <1>13, <1>14, <1>15, <1>16, Zenon DEF ExplanationComplete

-----------------------------------------------------------------------------
(* Consultation *)

(* The state of a caller; everything else is a function of it. *)
CallerOK == bundle \in Bundles /\ facts \in [Names -> Values \cup {None}]

THEOREM CallerInvariant == Spec => []CallerOK
  <1>1. Init => CallerOK
    BY DEF Init, CallerOK
  <1>2. CallerOK /\ [Next]_vars => CallerOK'
    BY DEF CallerOK, Next, Supply, vars
  <1> QED
    BY <1>1, <1>2, PTL DEF Spec

(* Whatever the bundle and the facts, evaluate decides by overrides,       *)
(* specificity and priority, in this order, and escalates what they leave  *)
(* tied, the authority of the policies not being looked at.                *)
THEOREM DecisionsByPrecedence == Spec => []DecidesByPrecedence
  <1>1. CallerOK => DecidesByPrecedence
    BY ByPrecedence DEF CallerOK
  <1> QED
    BY <1>1, CallerInvariant, PTL

(* Every policy that was proven is the winner, tied, or eliminated once by *)
(* another one, in any bundle; only a blocked winner goes without saying.  *)
THEOREM TracesComplete == Spec => []ExplanationComplete
  <1>1. CallerOK => ExplanationComplete
    BY Explained DEF CallerOK
  <1> QED
    BY <1>1, CallerInvariant, PTL

(* evaluate always returns: there is a survivor wherever a policy matches. *)
THEOREM DecisionsTyped == Spec => []TypeOK
  <1>1. ASSUME CallerOK PROVE TypeOK
    <2> DEFINE eff == Effective(facts)
               M == Matched(bundle, eff)
               U == Undeterminable(bundle, eff)
               S == Survivors(bundle, M)
    <2>1. /\ Integrity(bundle) /\ Ordered(bundle)
          /\ bundle \in Bundles /\ facts \in [Names -> Values \cup {None}]
      BY <1>1, ConsultationAssumptions, IntegrityOrders DEF CallerOK
    <2>2. M \subseteq DOMAIN bundle /\ U \subseteq DOMAIN bundle
      BY DEF Matched, Undeterminable
    <2>3. \A T : MissingIn(bundle, T, eff) \subseteq Declared
      BY DEF MissingIn, Missing
    <2>4. \A i \in DOMAIN bundle : bundle[i].kind \in OutcomeKinds /\ bundle[i].id \in Ids(bundle)
      BY <2>1 DEF Integrity, Ids
    <2> DEFINE Fine(out) == /\ out.kind \in OutcomeKinds
                            /\ out.escalation_reason \in EscalationReasons \cup {None}
                            /\ out.missing_facts \subseteq Declared
                            /\ out.conflict_between \subseteq Ids(bundle)
    <2>5. Fine(OutcomeOf(bundle, M, U, eff))
      <3>1. \A T : Fine(Escalate("missing_facts", MissingIn(bundle, T, eff), {}))
        BY <2>3 DEF Escalate, OutcomeKinds, EscalationReasons
      <3>2. Fine(Escalate("no_matching_policy", {}, {}))
        BY DEF Escalate, OutcomeKinds, EscalationReasons
      <3>3. Fine(Escalate("conflict", {}, {bundle[i].id : i \in S}))
        <4>1. S \subseteq M
          BY <2>1, <2>2, SurvivorCounts
        <4>2. {bundle[i].id : i \in S} \subseteq Ids(bundle)
          BY <2>2, <2>4, <4>1
        <4> QED
          BY <4>2 DEF Escalate, OutcomeKinds, EscalationReasons
      <3>4. \A i \in DOMAIN bundle : Fine(Decisive(bundle[i]))
        BY <2>4 DEF Decisive
      <3> HIDE DEF Fine, M, U, eff
      <3>5. CASE M = {}
        <4>1. OutcomeOf(bundle, M, U, eff) =
                IF U = {} THEN Escalate("no_matching_policy", {}, {})
                          ELSE Escalate("missing_facts", MissingIn(bundle, U, eff), {})
          BY <2>1, <3>5, NothingProven
        <4> QED
          BY <3>1, <3>2, <4>1
      <3>6. CASE \E i : S = {i}
        <4>1. PICK i : Survivors(bundle, M) = {i}
          BY <3>6
        <4>2. i \in DOMAIN bundle
          BY <2>1, <2>2, <4>1, SurvivorCounts
        <4>3. OutcomeOf(bundle, M, U, eff) =
                IF Blockers(bundle, M, U) = {}
                  THEN Decisive(bundle[i])
                  ELSE Escalate("missing_facts", MissingIn(bundle, Blockers(bundle, M, U), eff), {})
          BY <2>1, <2>2, <4>1, OneSurvivor
        <4> QED
          BY <3>1, <3>4, <4>2, <4>3
      <3>7. CASE M # {} /\ ~ (\E i : S = {i})
        <4>1. OutcomeOf(bundle, M, U, eff) =
                Escalate("conflict", {}, {bundle[j].id : j \in Survivors(bundle, M)})
          BY <2>1, <2>2, <3>7, SeveralSurvivors
        <4> QED
          BY <3>3, <4>1
      <3> QED
        BY <3>5, <3>6, <3>7
    <2>6. CASE Invalid(facts)
      <3>1. outcome = Raise("InvalidFactsError")
        BY <2>6 DEF outcome, evaluate
      <3> QED
        BY <2>1, <2>6, <3>1 DEF TypeOK, Raise
    <2>7. CASE ~ Invalid(facts)
      <3>1. outcome = OutcomeOf(bundle, M, U, eff)
        BY <2>7 DEF outcome, evaluate
      <3>2. Fine(outcome)
        BY <2>5, <3>1
      <3> QED
        BY <2>1, <2>7, <3>2 DEF TypeOK, OutcomeKinds
    <2> QED
      BY <2>6, <2>7
  <1> QED
    BY <1>1, CallerInvariant, PTL

-----------------------------------------------------------------------------
(* What a fact more can change. *)

(* While no known fact changes, a proven policy stays proven, and what is  *)
(* proven or may be proven was so before.                                  *)
LEMMA Learning ==
  ASSUME bundle \in Bundles, bundle' = bundle,
         \A n \in Declared : Known(n) => Effective(facts')[n] = Effective(facts)[n]
  PROVE  /\ Proven \subseteq Proven'
         /\ Unproven' \subseteq Unproven
         /\ Proven' \subseteq Proven \cup Unproven
  <1> DEFINE HoldsIn(e, c) == e[c.field] # None /\ Compare(c, e[c.field])
             HeldIn(e, p) == \A c \in ConditionsOf(p) : HoldsIn(e, c)
             OpenIn(e, p) == \A c \in ConditionsOf(p) : e[c.field] # None => HoldsIn(e, c)
  <1>1. PICK old, new : old = Effective(facts) /\ new = Effective(facts')
    OBVIOUS
  <1>2. /\ Proven = {i \in DOMAIN bundle : HeldIn(old, bundle[i])}
        /\ Unproven = {i \in DOMAIN bundle : OpenIn(old, bundle[i])} \ Proven
    BY <1>1 DEF Proven, Unproven, Holds, Known
  <1>3. /\ Proven' = {i \in DOMAIN bundle : HeldIn(new, bundle[i])}
        /\ Unproven' = {i \in DOMAIN bundle : OpenIn(new, bundle[i])} \ Proven'
    BY <1>1 DEF Proven, Unproven, Holds, Known
  <1>4. \A n \in Declared : old[n] # None => new[n] = old[n]
    BY <1>1 DEF Known
  <1>5. \A i \in DOMAIN bundle : \A c \in ConditionsOf(bundle[i]) : c.field \in Declared
    BY ConsultationAssumptions DEF Integrity, ConditionsOf
  <1>6. ASSUME NEW i \in DOMAIN bundle
        PROVE  /\ HeldIn(old, bundle[i]) => HeldIn(new, bundle[i])
               /\ OpenIn(new, bundle[i]) => OpenIn(old, bundle[i])
               /\ HeldIn(new, bundle[i]) => OpenIn(new, bundle[i])
    BY <1>4, <1>5
  <1> HIDE DEF HeldIn, OpenIn
  <1> QED
    BY <1>2, <1>3, <1>6

(* Only a single undefeated policy without open exceptions is decisive. *)
LEMMA DecisivePolicy ==
  ASSUME bundle \in Bundles, DecidesByPrecedence, ~ Invalid(facts),
         NEW i \in DOMAIN bundle, outcome = Decisive(bundle[i])
  PROVE  Undefeated = {i} /\ Exceptions(i) = {}
  <1>1. Integrity(bundle)
    BY ConsultationAssumptions
  <1>2. \A reason, S, T : reason \in EscalationReasons => outcome # Escalate(reason, S, T)
    BY ConsultationAssumptions DEF Decisive, Escalate
  <1>3. \A S, T : /\ outcome # Escalate("missing_facts", S, T)
                  /\ outcome # Escalate("no_matching_policy", S, T)
                  /\ outcome # Escalate("conflict", S, T)
    BY <1>2 DEF EscalationReasons
  <1>4. PICK k \in Undefeated : Undefeated = {k} /\ outcome = Decisive(bundle[k]) /\ Exceptions(k) = {}
    <2>1. Proven # {}
      BY <1>3 DEF DecidesByPrecedence
    <2>2. PICK k : k \in Undefeated
      BY <2>1 DEF DecidesByPrecedence
    <2>3. \/ /\ Undefeated = {k}
             /\ outcome = IF Exceptions(k) = {}
                            THEN Decisive(bundle[k])
                            ELSE Escalate("missing_facts", UnknownFields(Exceptions(k)), {})
          \/ outcome = Escalate("conflict", {}, {bundle[j].id : j \in Undefeated})
      BY <2>2 DEF DecidesByPrecedence
    <2> QED
      BY <1>3, <2>2, <2>3
  <1>5. k \in DOMAIN bundle
    BY <1>4 DEF Undefeated, Standing, Proven
  <1>6. Decisive(bundle[k]).policy_id = Decisive(bundle[i]).policy_id
    BY <1>4
  <1>7. bundle[k].id = bundle[i].id
    BY <1>6 DEF Decisive
  <1>8. k = i
    BY <1>1, <1>5, <1>7 DEF Integrity
  <1> QED
    BY <1>4, <1>8

(* Such a policy is decisive. *)
PolicyDecides ==
  bundle \in Bundles /\ ~ Invalid(facts) =>
    \A i : /\ Undefeated = {i}
           /\ {j \in Unproven : bundle[j].priority > bundle[i].priority} = {}
           => outcome = Decisive(bundle[i])

LEMMA DecidedByPolicy == PolicyDecides
  BY ByPrecedence DEF PolicyDecides, DecidesByPrecedence, Exceptions

(* A decision is lost to a newly proven policy, or not at all. *)
LEMMA DefeatNeedsProof == CallerOK /\ Next => LosesOnlyToProof
  <1> SUFFICES ASSUME CallerOK, Next,
                      NEW i \in DOMAIN bundle,
                      outcome = Decisive(bundle[i]),
                      ~ Invalid(facts'),
                      \A n \in Declared : Known(n) => Effective(facts')[n] = Effective(facts)[n],
                      \A j \in Unproven \cap Proven' :
                        bundle[i].id \notin bundle[j].overrides /\ Beats(i, j)
               PROVE  outcome' = outcome
    BY DEF LosesOnlyToProof
  <1>1. bundle \in Bundles /\ bundle' = bundle /\ Ordered(bundle)
    BY ConsultationAssumptions, IntegrityOrders DEF CallerOK, Next, Supply
  <1>2. ~ Invalid(facts)
    <2>1. PICK n \in Names, v \in Values : Supply(n, v)
      BY DEF Next
    <2>2. facts \in [Names -> Values \cup {None}] /\ facts[n] = None /\ facts' = [facts EXCEPT ![n] = v]
      BY <2>1 DEF CallerOK, Supply
    <2> QED
      BY <2>2, ConsultationAssumptions DEF Invalid
  <1>3. Undefeated = {i} /\ Exceptions(i) = {}
    BY <1>1, <1>2, ByPrecedence, DecisivePolicy
  <1>4. Proven \subseteq Proven' /\ Unproven' \subseteq Unproven /\ Proven' \subseteq Proven \cup Unproven
    BY <1>1, Learning
  <1>5. Standing' = {j \in Proven' : ~ OverriddenIn(Proven', j)}
    BY <1>1 DEF Standing, OverriddenIn
  <1>6. Undefeated' = {j \in Standing' : \A k \in Standing' : ~ Beats(k, j)}
    BY <1>1 DEF Undefeated, Beats
  <1>7. i \in Standing /\ i \in Proven
    BY <1>3 DEF Undefeated, Standing
  <1>8. i \in Standing'
    <2>1. ~ OverriddenIn(Proven, i)
      BY <1>7 DEF Standing
    <2>2. ~ OverriddenIn(Proven', i)
      BY <1>4, <2>1 DEF OverriddenIn
    <2> QED
      BY <1>4, <1>5, <1>7, <2>2
  <1>9. ASSUME NEW j \in DOMAIN bundle
        PROVE  bundle[j].priority \in Nat /\ specificity(bundle[j]) \in Nat
    BY <1>1, PositionsFinite
  <1>10. ASSUME NEW j \in Standing', j # i
         PROVE  Beats(i, j)
    <2>1. j \in Proven' /\ ~ OverriddenIn(Proven', j)
      BY <1>5, <1>10
    <2>2. CASE j \notin Proven
      BY <1>4, <2>1, <2>2
    <2>3. CASE j \in Proven
      <3>1. ~ OverriddenIn(Proven, j)
        BY <1>4, <2>1 DEF OverriddenIn
      <3>2. j \in Standing /\ j \notin Undefeated
        BY <1>3, <1>10, <2>3, <3>1 DEF Standing
      <3>3. PICK k \in Standing : Beats(k, j)
        BY <3>2 DEF Undefeated
      <3>4. ~ Beats(k, i) /\ ~ Beats(j, i)
        BY <1>3, <3>2, <3>3 DEF Undefeated
      <3>5. j \in DOMAIN bundle /\ k \in DOMAIN bundle
        BY <3>2, <3>3 DEF Standing, Proven
      <3> QED
        BY <1>9, <3>3, <3>4, <3>5 DEF Beats
    <2> QED
      BY <2>2, <2>3
  <1>11. Undefeated' = {i}
    <2>1. ASSUME NEW j \in Standing' PROVE ~ Beats(j, i)
      <3>1. j = i \/ Beats(i, j)
        BY <1>10
      <3>2. j \in DOMAIN bundle
        BY <1>1 DEF Standing, Proven
      <3> QED
        BY <1>9, <3>1, <3>2 DEF Beats
    <2> QED
      BY <1>6, <1>8, <1>10, <2>1
  <1>12. {j \in Unproven' : bundle'[j].priority > bundle'[i].priority} = {}
    BY <1>1, <1>3, <1>4 DEF Exceptions
  <1>13. outcome' = Decisive(bundle'[i])
    <2>1. PolicyDecides'
      BY DecidedByPolicy, PTL
    <2> QED
      BY <1>1, <1>11, <1>12, <2>1 DEF PolicyDecides
  <1> QED
    BY <1>1, <1>13

(* Exceptions must be proven to defeat a rule, in any bundle. *)
THEOREM OnlyProofDefeats == Spec => DefeatsAreProven
  <1>1. CallerOK /\ [Next]_vars => [LosesOnlyToProof]_vars
    BY DefeatNeedsProof
  <1> QED
    BY <1>1, CallerInvariant, PTL DEF Spec, DefeatsAreProven

-----------------------------------------------------------------------------
(* The order of the policies. *)

Policies(ps) == {ps[i] : i \in DOMAIN ps}

(* The positions in M and in N are those of the same policies. *)
SamePositions(ps, qs, M, N) ==
  /\ M \subseteq DOMAIN ps /\ N \subseteq DOMAIN qs
  /\ \A i \in DOMAIN ps, j \in DOMAIN qs : ps[i] = qs[j] => (i \in M <=> j \in N)

LEMMA Counterparts ==
  ASSUME NEW ps, NEW qs, Policies(ps) = Policies(qs), NEW M, NEW N, SamePositions(ps, qs, M, N)
  PROVE  /\ \A i \in M : \E j \in N : ps[i] = qs[j]
         /\ \A j \in N : \E i \in M : ps[i] = qs[j]
         /\ {ps[i].id : i \in M} = {qs[j].id : j \in N}
         /\ M = {} <=> N = {}
         /\ \A eff : MissingIn(ps, M, eff) = MissingIn(qs, N, eff)
  <1>1. ASSUME NEW i \in M PROVE \E j \in N : ps[i] = qs[j]
    <2>1. i \in DOMAIN ps /\ ps[i] \in Policies(qs)
      BY DEF SamePositions, Policies
    <2> QED
      BY <2>1 DEF SamePositions, Policies
  <1>2. ASSUME NEW j \in N PROVE \E i \in M : ps[i] = qs[j]
    <2>1. j \in DOMAIN qs /\ qs[j] \in Policies(ps)
      BY DEF SamePositions, Policies
    <2> QED
      BY <2>1 DEF SamePositions, Policies
  <1>3. {ps[i].id : i \in M} = {qs[j].id : j \in N}
    BY <1>1, <1>2
  <1>4. ASSUME NEW eff PROVE MissingIn(ps, M, eff) = MissingIn(qs, N, eff)
    BY <1>1, <1>2 DEF MissingIn
  <1> QED
    BY <1>1, <1>2, <1>3, <1>4

LEMMA SameSurvivorsInAnyOrder ==
  ASSUME NEW ps, NEW qs, Ordered(ps), Ordered(qs), Policies(ps) = Policies(qs),
         NEW M, NEW N, SamePositions(ps, qs, M, N)
  PROVE  SamePositions(ps, qs, Survivors(ps, M), Survivors(qs, N))
  <1> DEFINE C == M \ Overridden(ps, M)
             D == N \ Overridden(qs, N)
  <1>1. /\ \A i \in M : \E j \in N : ps[i] = qs[j]
        /\ \A j \in N : \E i \in M : ps[i] = qs[j]
    BY Counterparts
  <1>2. M \subseteq DOMAIN ps /\ N \subseteq DOMAIN qs
    BY DEF SamePositions
  <1>3. ASSUME NEW i \in DOMAIN ps, NEW j \in DOMAIN qs, ps[i] = qs[j]
        PROVE  i \in C <=> j \in D
    <2>1. i \in M <=> j \in N
      BY <1>3 DEF SamePositions
    <2>2. (\E k \in M : ps[i].id \in ps[k].overrides) <=> (\E k \in N : qs[j].id \in qs[k].overrides)
      BY <1>1, <1>3
    <2> QED
      BY <2>1, <2>2 DEF Overridden, Overriders
  <1>4. C \subseteq DOMAIN ps /\ D \subseteq DOMAIN qs
    BY <1>2
  <1>5. SamePositions(ps, qs, C, D)
    BY <1>3, <1>4 DEF SamePositions
  <1>6. /\ \A i \in C : \E j \in D : ps[i] = qs[j]
        /\ \A j \in D : \E i \in C : ps[i] = qs[j]
    <2> HIDE DEF C, D
    <2> QED
      BY <1>5, Counterparts
  <1>7. ASSUME NEW i \in DOMAIN ps, NEW j \in DOMAIN qs, ps[i] = qs[j]
        PROVE  i \in Survivors(ps, M) <=> j \in Survivors(qs, N)
    <2>1. i \in Survivors(ps, M) <=>
            /\ i \in C
            /\ \A k \in C : ~ \/ specificity(ps[k]) > specificity(ps[i])
                              \/ /\ specificity(ps[k]) = specificity(ps[i])
                                 /\ ps[k].priority > ps[i].priority
      BY <1>2, SurvivorsUndefeated
    <2>2. j \in Survivors(qs, N) <=>
            /\ j \in D
            /\ \A k \in D : ~ \/ specificity(qs[k]) > specificity(qs[j])
                              \/ /\ specificity(qs[k]) = specificity(qs[j])
                                 /\ qs[k].priority > qs[j].priority
      BY <1>2, SurvivorsUndefeated
    <2>3. i \in C <=> j \in D
      BY <1>3, <1>7
    <2> HIDE DEF C, D
    <2> QED
      BY <1>6, <1>7, <2>1, <2>2, <2>3
  <1>8. Survivors(ps, M) \subseteq DOMAIN ps /\ Survivors(qs, N) \subseteq DOMAIN qs
    BY <1>2, SurvivorCounts
  <1> QED
    BY <1>7, <1>8 DEF SamePositions

(* With unique ids a policy has one counterpart. *)
LEMMA OneCounterpart ==
  ASSUME NEW ps, NEW qs, Ordered(ps), Ordered(qs), Policies(ps) = Policies(qs),
         NEW M, NEW N, SamePositions(ps, qs, M, N), NEW i, M = {i}
  PROVE  \E j : N = {j} /\ j \in DOMAIN qs /\ qs[j] = ps[i]
  <1>1. i \in DOMAIN ps /\ N \subseteq DOMAIN qs
    BY DEF SamePositions
  <1>2. PICK j \in N : ps[i] = qs[j]
    BY Counterparts
  <1>3. ASSUME NEW k \in N PROVE k = j
    <2>1. ps[i] = qs[k]
      BY Counterparts
    <2>2. qs[k].id = qs[j].id
      BY <1>2, <2>1
    <2>3. \A a, b \in DOMAIN qs : qs[a].id = qs[b].id => a = b
      BY Zenon DEF Ordered
    <2> QED
      BY <1>1, <2>2, <2>3
  <1> QED
    BY <1>1, <1>2, <1>3

LEMMA SameOutcomeInAnyOrder ==
  ASSUME NEW ps, NEW qs, Ordered(ps), Ordered(qs), Policies(ps) = Policies(qs), NEW eff,
         NEW M, NEW N, SamePositions(ps, qs, M, N),
         NEW U, NEW V, SamePositions(ps, qs, U, V)
  PROVE  OutcomeOf(ps, M, U, eff) = OutcomeOf(qs, N, V, eff)
  <1> DEFINE S == Survivors(ps, M)
             T == Survivors(qs, N)
  <1>1. M \subseteq DOMAIN ps /\ N \subseteq DOMAIN qs /\ (M = {} <=> N = {}) /\ (U = {} <=> V = {})
    <2>1. M \subseteq DOMAIN ps /\ N \subseteq DOMAIN qs
      BY DEF SamePositions
    <2>2. M = {} <=> N = {}
      BY Counterparts
    <2>3. U = {} <=> V = {}
      BY Counterparts
    <2> QED
      BY <2>1, <2>2, <2>3
  <1>2. SamePositions(ps, qs, S, T) /\ SamePositions(qs, ps, T, S)
    <2>1. SamePositions(ps, qs, S, T)
      BY SameSurvivorsInAnyOrder
    <2> QED
      BY <2>1 DEF SamePositions
  <1>3. MissingIn(ps, U, eff) = MissingIn(qs, V, eff)
    BY Counterparts
  <1> HIDE DEF S, T
  <1>4. CASE M = {}
    <2>1. N = {}
      BY <1>1, <1>4
    <2> QED
      BY <1>1, <1>3, <1>4, <2>1, NothingProven
  <1>5. CASE \E i : S = {i}
    <2>1. PICK i : S = {i}
      BY <1>5
    <2>2. PICK j : T = {j} /\ j \in DOMAIN qs /\ qs[j] = ps[i]
      BY <1>2, <2>1, OneCounterpart
    <2>3. /\ Winner(ps, M) = i
          /\ OutcomeOf(ps, M, U, eff) =
               IF Blockers(ps, M, U) = {}
                 THEN Decisive(ps[i])
                 ELSE Escalate("missing_facts", MissingIn(ps, Blockers(ps, M, U), eff), {})
      BY <1>1, <2>1, OneSurvivor DEF S
    <2>4. /\ Winner(qs, N) = j
          /\ OutcomeOf(qs, N, V, eff) =
               IF Blockers(qs, N, V) = {}
                 THEN Decisive(qs[j])
                 ELSE Escalate("missing_facts", MissingIn(qs, Blockers(qs, N, V), eff), {})
      BY <1>1, <2>2, OneSurvivor DEF T
    <2> DEFINE A == Blockers(ps, M, U)
               B == Blockers(qs, N, V)
    <2>5. SamePositions(ps, qs, A, B)
      BY <2>2, <2>3, <2>4 DEF SamePositions, Blockers
    <2>6. (A = {} <=> B = {}) /\ MissingIn(ps, A, eff) = MissingIn(qs, B, eff)
      <3> HIDE DEF A, B
      <3> QED
        BY <2>5, Counterparts
    <2> QED
      BY <2>2, <2>3, <2>4, <2>6
  <1>6. CASE M # {} /\ ~ (\E i : S = {i})
    <2>1. N # {} /\ ~ (\E j : T = {j})
      <3>1. ASSUME NEW j, T = {j} PROVE FALSE
        <4>1. Policies(qs) = Policies(ps) /\ SamePositions(qs, ps, T, S)
          BY <1>2
        <4>2. \E i : S = {i} /\ i \in DOMAIN ps /\ ps[i] = qs[j]
          BY <3>1, <4>1, OneCounterpart
        <4> QED
          BY <1>6, <4>2
      <3> QED
        BY <1>1, <1>6, <3>1
    <2>2. OutcomeOf(ps, M, U, eff) = Escalate("conflict", {}, {ps[i].id : i \in S})
      BY <1>1, <1>6, SeveralSurvivors DEF S
    <2>3. OutcomeOf(qs, N, V, eff) = Escalate("conflict", {}, {qs[j].id : j \in T})
      BY <1>1, <2>1, SeveralSurvivors DEF T
    <2>4. {ps[i].id : i \in S} = {qs[j].id : j \in T}
      BY <1>2, Counterparts
    <2> QED
      BY <2>2, <2>3, <2>4
  <1> QED
    BY <1>4, <1>5, <1>6

(* The winner is survivors[0], and yet the answer does not depend on the   *)
(* order in which a bundle lists its policies, although the code works on  *)
(* lists throughout (_select_winner, evaluate); for any facts, ill-typed   *)
(* ones included.  (Who is named as the reason of an elimination does.)    *)
THEOREM OrderIrrelevant ==
  ASSUME NEW ps, NEW qs, Integrity(ps), Integrity(qs), Policies(ps) = Policies(qs), NEW f
  PROVE  evaluate(ps, f) = evaluate(qs, f)
  <1> DEFINE eff == Effective(f)
  <1>1. Ordered(ps) /\ Ordered(qs)
    BY IntegrityOrders
  <1>2. /\ SamePositions(ps, qs, Matched(ps, eff), Matched(qs, eff))
        /\ SamePositions(ps, qs, Undeterminable(ps, eff), Undeterminable(qs, eff))
    <2> HIDE DEF eff
    <2> QED
      BY DEF SamePositions, Matched, Undeterminable
  <1>3. OutcomeOf(ps, Matched(ps, eff), Undeterminable(ps, eff), eff)
          = OutcomeOf(qs, Matched(qs, eff), Undeterminable(qs, eff), eff)
    <2> HIDE DEF eff
    <2> QED
      BY <1>1, <1>2, SameOutcomeInAnyOrder
  <1> QED
    BY <1>3 DEF evaluate

-----------------------------------------------------------------------------
(* Questions and answers: why AskingEnds. *)

Unknown == {n \in Declared : ~ Known(n)}

(* A decision that asks names at least one declared fact that was not      *)
(* supplied and has no default, so that it can be answered.                *)
AsksForTheUnknown ==
  Asking =>
    /\ outcome.missing_facts # {}
    /\ \A n \in outcome.missing_facts :
         n \in Unknown /\ facts[n] = None /\ FactSpecs[n].default = None

(* Facts only become known, and whoever answers makes one more known.      *)
AnswersCount ==
  /\ Unknown' \subseteq Unknown
  /\ Answer => Unknown' # Unknown

LEMMA UnknownMissing ==
  ASSUME NEW n \in Unknown
  PROVE  facts[n] = None /\ FactSpecs[n].default = None
  BY DEF Unknown, Known, Effective

(* What cannot be determined lacks something. *)
LEMMA UnprovenLacks ==
  ASSUME bundle \in Bundles, NEW S, S \subseteq Unproven, S # {}
  PROVE  UnknownFields(S) # {} /\ UnknownFields(S) \subseteq Unknown
  <1>1. PICK i \in S : i \in Unproven
    OBVIOUS
  <1>2. Missing(bundle[i], Effective(facts)) # {}
    BY <1>1, Statuses DEF Undeterminable
  <1>3. MissingIn(bundle, S, Effective(facts)) # {}
    BY <1>2 DEF MissingIn
  <1> QED
    BY <1>3, FieldsAsked DEF UnknownFields, Unknown

(* A decision either asks, for what an unproven policy lacks, or not. *)
LEMMA AsksOrNot ==
  ASSUME bundle \in Bundles
  PROVE  \/ \E S : /\ S \subseteq Unproven /\ S # {}
                   /\ outcome = Escalate("missing_facts", UnknownFields(S), {})
         \/ outcome.missing_facts = {} /\ ~ Asking
  <1>1. None # "missing_facts"
    BY ConsultationAssumptions DEF EscalationReasons
  <1>2. CASE Invalid(facts)
    <2>1. outcome = Raise("InvalidFactsError")
      BY <1>2 DEF outcome, evaluate
    <2> QED
      BY <1>1, <2>1 DEF Raise, Asking
  <1>3. CASE Proven = {} /\ Unproven = {} /\ ~ Invalid(facts)
    <2>1. outcome = Escalate("no_matching_policy", {}, {})
      BY <1>3, ByPrecedence DEF DecidesByPrecedence
    <2> QED
      BY <2>1 DEF Escalate, Asking
  <1>4. CASE Proven = {} /\ Unproven # {} /\ ~ Invalid(facts)
    BY <1>4, ByPrecedence DEF DecidesByPrecedence
  <1>5. CASE Proven # {} /\ ~ Invalid(facts)
    <2>1. PICK i : i \in Undefeated
      BY <1>5, ByPrecedence DEF DecidesByPrecedence
    <2>2. \/ outcome = IF Exceptions(i) = {}
                         THEN Decisive(bundle[i])
                         ELSE Escalate("missing_facts", UnknownFields(Exceptions(i)), {})
          \/ outcome = Escalate("conflict", {}, {bundle[j].id : j \in Undefeated})
      BY <1>5, <2>1, ByPrecedence DEF DecidesByPrecedence
    <2>3. CASE outcome = Escalate("conflict", {}, {bundle[j].id : j \in Undefeated})
      BY <2>3 DEF Escalate, Asking
    <2>4. CASE outcome = Decisive(bundle[i])
      BY <1>1, <2>4 DEF Decisive, Asking
    <2>5. CASE /\ Exceptions(i) # {}
               /\ outcome = Escalate("missing_facts", UnknownFields(Exceptions(i)), {})
      <3>1. Exceptions(i) \subseteq Unproven
        BY DEF Exceptions
      <3> QED
        BY <2>5, <3>1
    <2> QED
      BY <2>2, <2>3, <2>4, <2>5
  <1> QED
    BY <1>2, <1>3, <1>4, <1>5

LEMMA Questions ==
  ASSUME bundle \in Bundles
  PROVE  /\ outcome.missing_facts \subseteq Unknown
         /\ Asking <=> outcome.missing_facts # {}
  <1>1. CASE outcome.missing_facts = {} /\ ~ Asking
    BY <1>1
  <1>2. CASE \E S : /\ S \subseteq Unproven /\ S # {}
                    /\ outcome = Escalate("missing_facts", UnknownFields(S), {})
    <2>1. PICK S : /\ S \subseteq Unproven /\ S # {}
                   /\ outcome = Escalate("missing_facts", UnknownFields(S), {})
      BY <1>2
    <2>2. outcome.missing_facts = UnknownFields(S) /\ Asking
      BY <2>1 DEF Escalate, Asking
    <2> QED
      BY <2>1, <2>2, UnprovenLacks
  <1> QED
    BY <1>1, <1>2, AsksOrNot

(* A caller who is asked can answer, and nobody is asked for what is known *)
(* (missing_facts of evaluate).                                            *)
THEOREM QuestionsCanBeAnswered == Spec => []AsksForTheUnknown
  <1>1. CallerOK => AsksForTheUnknown
    BY Questions, UnknownMissing DEF CallerOK, AsksForTheUnknown
  <1> QED
    BY <1>1, CallerInvariant, PTL

LEMMA Answers ==
  ASSUME CallerOK, Next
  PROVE  AnswersCount
  <1>1. /\ None \notin Values
        /\ facts \in [Names -> Values \cup {None}] /\ Declared \subseteq Names
    BY ConsultationAssumptions DEF CallerOK
  <1>2. ASSUME NEW n \in Names, NEW v \in Values, Supply(n, v)
        PROVE  /\ Unknown' \subseteq Unknown
               /\ n \in Unknown => n \notin Unknown'
    BY <1>1, <1>2 DEF Supply, Unknown, Known, Effective
  <1>3. Unknown' \subseteq Unknown
    BY <1>2 DEF Next
  <1>4. ASSUME Answer PROVE Unknown' # Unknown
    <2>1. PICK n \in outcome.missing_facts, v \in Values : Supply(n, v)
      BY <1>4 DEF Answer
    <2>2. n \in Unknown
      BY Questions DEF CallerOK
    <2>3. n \in Names
      BY <1>1, <2>2 DEF Unknown
    <2> QED
      BY <1>2, <2>1, <2>2, <2>3
  <1> QED
    BY <1>3, <1>4 DEF AnswersCount

(* Each answer brings the caller closer to a decision: the facts that are  *)
(* unknown become fewer with every answer and never more.                  *)
THEOREM AnswersBringCloser == Spec => [][AnswersCount]_vars
  <1>1. CallerOK /\ [Next]_vars => [AnswersCount]_vars
    BY Answers
  <1> QED
    BY <1>1, CallerInvariant, PTL DEF Spec

-----------------------------------------------------------------------------
(***************************************************************************)
(* The Rust port decides like the reference evaluator.                     *)
(***************************************************************************)

(* check_type and compare *)

(* Saturation keeps the order to every threshold strictly inside the range. *)
LEMMA SaturationKeepsOrder ==
  ASSUME NEW x \in Int, NEW e \in Int, -MaxInt64 - 1 < e, e < MaxInt64
  PROVE  /\ Edge!as_i64(x) \in Int
         /\ Edge!as_i64(x) > e <=> x > e
         /\ Edge!as_i64(x) >= e <=> x >= e
         /\ Edge!as_i64(x) < e <=> x < e
         /\ Edge!as_i64(x) <= e <=> x <= e
         /\ Edge!as_i64(x) = e <=> x = e
  BY EdgeAssumptions DEF Edge!as_i64

(* A condition of the given type, its threshold strictly inside the range. *)
Plain(c) ==
  /\ c.value_type \in {"number", "string", "boolean"}
  /\ c.value_type = "number" =>
       /\ c.value \in Int
       /\ -MaxInt64 - 1 < c.value /\ c.value < MaxInt64

(* On one value the two comparisons agree. *)
LEMMA SameComparison ==
  ASSUME NEW c, Plain(c), NEW v
  PROVE  Edge!compare(c, v.value) <=> Compare(c, v)
  <1>1. CASE c.value_type = "number"
    BY <1>1 DEF Edge!compare, Compare, CompareNumber
  <1>2. CASE c.value_type = "string"
    BY <1>2 DEF Edge!compare, Compare, CompareString
  <1>3. CASE c.value_type = "boolean"
    BY <1>3 DEF Edge!compare, Compare
  <1> QED
    BY <1>1, <1>2, <1>3 DEF Plain

(* The comparison with a cast value agrees, too. *)
LEMMA CastComparison ==
  ASSUME NEW c, Plain(c), NEW v \in Values, v.type = c.value_type
  PROVE  Edge!compare(c, Edge!check_type(v).value) <=> Compare(c, v)
  <1>1. CASE c.value_type = "number"
    <2>1. v.value \in Int /\ Edge!check_type(v).value = Edge!as_i64(v.value)
      BY <1>1, EdgeAssumptions DEF Edge!check_type
    <2>2. c.value \in Int /\ -MaxInt64 - 1 < c.value /\ c.value < MaxInt64
      BY <1>1 DEF Plain
    <2> DEFINE a == Edge!as_i64(v.value)
    <2>3. /\ a > c.value <=> v.value > c.value
          /\ a >= c.value <=> v.value >= c.value
          /\ a < c.value <=> v.value < c.value
          /\ a <= c.value <=> v.value <= c.value
          /\ a = c.value <=> v.value = c.value
      BY <2>1, <2>2, SaturationKeepsOrder
    <2>4. Edge!compare(c, a) <=> CompareNumber(c.operator, v.value, c.value)
      <3> HIDE DEF a
      <3> QED
        BY <1>1, <2>3 DEF Edge!compare, CompareNumber
    <2> QED
      BY <1>1, <2>1, <2>4 DEF Compare
  <1>2. CASE c.value_type # "number"
    BY <1>2, SameComparison DEF Edge!check_type
  <1> QED
    BY <1>1, <1>2

-----------------------------------------------------------------------------
(* evaluate_policy *)

(* What both see of a state of the caller. *)
PortAsked ==
  /\ CallerOK
  /\ InRange(bundle)
  /\ ~ Invalid(facts)

LEMMA FactsSeen ==
  ASSUME PortAsked, NEW n \in Declared
  PROVE  /\ Edge!effective(facts)[n] = None <=> Effective(facts)[n] = None
         /\ \A c : Plain(c) /\ c.value_type = FactSpecs[n].value_type
                    /\ Effective(facts)[n] # None =>
              (Edge!compare(c, Edge!effective(facts)[n].value)
                 <=> Compare(c, Effective(facts)[n]))
  <1>1. CASE facts[n] = None
    <2>1. Edge!effective(facts)[n] = FactSpecs[n].default
          /\ Effective(facts)[n] = FactSpecs[n].default
      BY <1>1 DEF Edge!effective, Effective, Declared
    <2> QED
      BY <2>1, SameComparison
  <1>2. CASE facts[n] # None
    <2>1. facts[n] \in Values /\ facts[n].type = FactSpecs[n].value_type
      BY <1>2, ConsultationAssumptions DEF PortAsked, CallerOK, Invalid
    <2>2. Edge!effective(facts)[n] = Edge!check_type(facts[n])
          /\ Effective(facts)[n] = facts[n]
      BY <1>2 DEF Edge!effective, Effective, Declared
    <2>3. Edge!check_type(facts[n]) # None
      BY <2>1, EdgeAssumptions
    <2> QED
      BY <1>2, <2>1, <2>2, <2>3, CastComparison
  <1> QED
    BY <1>1, <1>2

(* The conditions of a bundle are about declared facts and of their type. *)
LEMMA ConditionsPlain ==
  ASSUME PortAsked, NEW i \in DOMAIN bundle, NEW k \in DOMAIN bundle[i].conditions
  PROVE  LET c == bundle[i].conditions[k]
         IN  Plain(c) /\ c.field \in Declared /\ c.value_type = FactSpecs[c.field].value_type
  <1> DEFINE c == bundle[i].conditions[k]
  <1>1. c.field \in Declared /\ c.value_type = FactSpecs[c.field].value_type
    BY ConsultationAssumptions DEF PortAsked, CallerOK, Integrity
  <1>2. c.value_type = "number" =>
          c.value \in Int /\ -MaxInt64 - 1 < c.value /\ c.value < MaxInt64
    BY DEF PortAsked, InRange
  <1>3. c.value_type \in {"number", "string", "boolean"}
    BY <1>1, EdgeAssumptions
  <1> HIDE DEF c
  <1>4. Plain(c)
    BY <1>2, <1>3 DEF Plain
  <1> QED
    BY <1>1, <1>4 DEF c

LEMMA SamePolicyStatus ==
  ASSUME PortAsked, NEW i \in DOMAIN bundle
  PROVE  /\ Edge!any_fail(bundle[i], Edge!effective(facts)) <=> Fails(bundle[i], Effective(facts))
         /\ Edge!missing_fields(bundle[i], Edge!effective(facts)) = Missing(bundle[i], Effective(facts))
  <1>1. PICK old, new : old = Effective(facts) /\ new = Edge!effective(facts)
    OBVIOUS
  <1> DEFINE C == bundle[i].conditions
  <1>2. ASSUME NEW k \in DOMAIN C
        PROVE  /\ C[k].field \in Declared
               /\ new[C[k].field] = None <=> old[C[k].field] = None
               /\ old[C[k].field] # None =>
                    (Edge!compare(C[k], new[C[k].field].value) <=> Compare(C[k], old[C[k].field]))
    <2> DEFINE c == C[k]
    <2>1. Plain(c) /\ c.field \in Declared /\ c.value_type = FactSpecs[c.field].value_type
      BY ConditionsPlain
    <2> HIDE DEF c
    <2>2. /\ new[c.field] = None <=> old[c.field] = None
          /\ old[c.field] # None => (Edge!compare(c, new[c.field].value) <=> Compare(c, old[c.field]))
      BY <1>1, <2>1, FactsSeen
    <2> QED
      BY <2>1, <2>2 DEF c
  <1>3. Edge!any_fail(bundle[i], new) <=> Fails(bundle[i], old)
    BY <1>2 DEF Edge!any_fail, Fails
  <1>4. Edge!missing_fields(bundle[i], new) = Missing(bundle[i], old)
    BY <1>2 DEF Edge!missing_fields, Missing
  <1> QED
    BY <1>1, <1>3, <1>4

LEMMA SameStatuses ==
  ASSUME PortAsked
  PROVE  /\ Edge!with_status(bundle, Edge!effective(facts), "Matched")
              = Matched(bundle, Effective(facts))
         /\ Edge!with_status(bundle, Edge!effective(facts), "Undeterminable")
              = Undeterminable(bundle, Effective(facts))
  <1>1. \A i \in DOMAIN bundle :
          Edge!status(bundle[i], Edge!effective(facts)) =
            IF Fails(bundle[i], Effective(facts)) THEN "Failed"
            ELSE IF Missing(bundle[i], Effective(facts)) # {} THEN "Undeterminable"
            ELSE "Matched"
    BY SamePolicyStatus DEF Edge!status
  <1> QED
    BY <1>1 DEF Edge!with_status, Matched, Undeterminable

-----------------------------------------------------------------------------
(* select_winner *)

(* By ids or by positions, the same policies survive. *)
LEMMA SameSurvivors ==
  ASSUME NEW ps, NEW M, M \subseteq DOMAIN ps
  PROVE  Edge!survivors(ps, M) = Survivors(ps, M)
  <1>1. Edge!unoverridden(ps, M) = M \ Overridden(ps, M)
    BY DEF Edge!unoverridden, Edge!overridden, Edge!ids, Overridden, Overriders
  <1>2. \A S : Edge!retain_specific(ps, S) = MostSpecific(ps, S)
    BY DEF Edge!retain_specific, MostSpecific, specificity
  <1>3. \A S : Edge!retain_priority(ps, S) = TopPriority(ps, S)
    BY DEF Edge!retain_priority, TopPriority
  <1> QED
    BY <1>1, <1>2, <1>3 DEF Edge!survivors, Survivors, Specific

LEMMA SameFieldsAsked ==
  ASSUME PortAsked, NEW S, S \subseteq DOMAIN bundle
  PROVE  Edge!missing_of(bundle, S, Edge!effective(facts))
           = MissingIn(bundle, S, Effective(facts))
  BY SamePolicyStatus DEF Edge!missing_of, MissingIn

-----------------------------------------------------------------------------
(* evaluate *)

LEMMA SameDecision ==
  ASSUME PortAsked
  PROVE  Edge!decide(bundle, Edge!effective(facts)) = outcome
  <1> DEFINE eff == Effective(facts)
             new == Edge!effective(facts)
             M == Matched(bundle, eff)
             U == Undeterminable(bundle, eff)
             S == Survivors(bundle, M)
             edge == Edge!decide(bundle, new)
  <1>1. /\ Ordered(bundle)
        /\ M \subseteq DOMAIN bundle
        /\ U \subseteq DOMAIN bundle
    BY ConsultationAssumptions, IntegrityOrders DEF PortAsked, CallerOK, Matched, Undeterminable
  <1>2. /\ Edge!with_status(bundle, new, "Matched") = M
        /\ Edge!with_status(bundle, new, "Undeterminable") = U
        /\ Edge!survivors(bundle, M) = S
    BY <1>1, SameStatuses, SameSurvivors
  <1>3. outcome = OutcomeOf(bundle, M, U, eff)
    BY DEF PortAsked, outcome, evaluate
  <1>4. \A T \in SUBSET DOMAIN bundle :
          Edge!missing_of(bundle, T, new) = MissingIn(bundle, T, eff)
    BY SameFieldsAsked
  <1>5. /\ S \subseteq M
        /\ M # {} => S # {}
    BY <1>1, SurvivorCounts
  <1>6. /\ \A missing : Edge!Outcome("escalate", None, "missing_facts", missing, {})
                          = Escalate("missing_facts", missing, {})
        /\ Edge!Outcome("escalate", None, "no_matching_policy", {}, {})
             = Escalate("no_matching_policy", {}, {})
        /\ Edge!Outcome("escalate", None, "conflict", {}, Edge!ids(bundle, S))
             = Escalate("conflict", {}, {bundle[j].id : j \in S})
        /\ \A i : Edge!Outcome(bundle[i].kind, bundle[i].id, None, {}, {}) = Decisive(bundle[i])
    BY DEF Edge!Outcome, Escalate, Decisive, Edge!ids
  <1>7. CASE M = {}
    <2>1. S = {}
      BY <1>5, <1>7
    <2>2. edge = IF U = {} THEN Escalate("no_matching_policy", {}, {})
                          ELSE Escalate("missing_facts", MissingIn(bundle, U, eff), {})
      <3> HIDE DEF M, U, S, eff, new
      <3> QED
        BY <1>1, <1>2, <1>4, <1>6, <2>1 DEF Edge!decide
    <2>3. OutcomeOf(bundle, M, U, eff) =
            IF U = {} THEN Escalate("no_matching_policy", {}, {})
                      ELSE Escalate("missing_facts", MissingIn(bundle, U, eff), {})
      <3> HIDE DEF M, U, eff
      <3> QED
        BY <1>1, <1>7, NothingProven
    <2> HIDE DEF M, U, S, eff, edge
    <2> QED
      BY <1>3, <2>2, <2>3 DEF edge
  <1>8. CASE \E i : S = {i}
    <2>1. PICK i : S = {i}
      BY <1>8
    <2>2. ~ (\E k, j \in S : k # j) /\ S # {} /\ Edge!only(S) = i /\ i \in DOMAIN bundle
      BY <1>1, <1>5, <2>1 DEF Edge!only
    <2> DEFINE B == {j \in U : bundle[j].priority > bundle[i].priority}
    <2>3. edge = IF B = {} THEN Decisive(bundle[i])
                          ELSE Escalate("missing_facts", MissingIn(bundle, B, eff), {})
      <3>1. B \in SUBSET DOMAIN bundle
        BY <1>1
      <3>2. edge = IF B # {}
                     THEN Edge!Outcome("escalate", None, "missing_facts",
                                       Edge!missing_of(bundle, B, new), {})
                     ELSE Edge!Outcome(bundle[i].kind, bundle[i].id, None, {}, {})
        <4> HIDE DEF M, U, S, eff, new
        <4> QED
          BY <1>2, <2>2 DEF Edge!decide
      <3> HIDE DEF edge, B, eff, new
      <3> QED
        BY <1>4, <1>6, <3>1, <3>2
    <2>4. /\ Winner(bundle, M) = i
          /\ OutcomeOf(bundle, M, U, eff) =
               IF Blockers(bundle, M, U) = {}
                 THEN Decisive(bundle[i])
                 ELSE Escalate("missing_facts", MissingIn(bundle, Blockers(bundle, M, U), eff), {})
      <3> HIDE DEF U, eff
      <3> QED
        BY <1>1, <2>1, OneSurvivor
    <2>5. Blockers(bundle, M, U) = B
      BY <2>4 DEF Blockers
    <2> HIDE DEF M, U, S, eff, new, edge, B
    <2> QED
      BY <1>3, <2>3, <2>4, <2>5 DEF edge, new
  <1>9. CASE M # {} /\ ~ (\E i : S = {i})
    <2>1. \E i, j \in S : i # j
      <3>1. PICK i : i \in S
        BY <1>5, <1>9
      <3>2. S # {i}
        BY <1>9
      <3> HIDE DEF S
      <3> QED
        BY <3>1, <3>2
    <2>2. edge = Escalate("conflict", {}, {bundle[j].id : j \in S})
      <3> HIDE DEF M, U, S, eff, new
      <3> QED
        BY <1>2, <1>6, <2>1 DEF Edge!decide
    <2>3. OutcomeOf(bundle, M, U, eff) = Escalate("conflict", {}, {bundle[j].id : j \in S})
      <3> HIDE DEF U, eff
      <3> QED
        BY <1>1, <1>9, SeveralSurvivors
    <2> HIDE DEF M, U, S, eff, new, edge
    <2> QED
      BY <1>3, <2>2, <2>3 DEF edge, new
  <1> QED
    BY <1>7, <1>8, <1>9

(* OUTCOME-EXACT (edge-evaluator/src/eval.rs:1-7), for every bundle whose  *)
(* thresholds lie strictly inside the range of the port's integers.        *)
THEOREM EdgeExact == Spec => []EdgeAgrees
  <1>1. ASSUME CallerOK, InRange(bundle)
        PROVE  Edge!evaluate(bundle, facts) = outcome
    <2>1. Edge!InvalidFacts(facts) <=> Invalid(facts)
      BY DEF Edge!InvalidFacts, Invalid, Declared
    <2>2. CASE Invalid(facts)
      BY <2>1, <2>2 DEF Edge!evaluate, Edge!Outcome, outcome, evaluate, Raise
    <2>3. CASE ~ Invalid(facts)
      <3>1. Edge!evaluate(bundle, facts) = Edge!decide(bundle, Edge!effective(facts))
        BY <2>1, <2>3 DEF Edge!evaluate
      <3> QED
        BY <1>1, <2>3, <3>1, SameDecision DEF PortAsked
    <2> QED
      BY <2>2, <2>3
  <1>2. CallerOK => EdgeAgrees
    BY <1>1 DEF EdgeAgrees
  <1> QED
    BY <1>2, CallerInvariant, PTL

-----------------------------------------------------------------------------
(* The reference tenants: their facts and policies, for any request.  The  *)
(* evaluator under the facts of a workflow has the same precedence.        *)

LEMMA SamePrecedence ==
  ASSUME NEW fs, NEW ps, NEW M
  PROVE  /\ Under(fs)!Survivors(ps, M) = Survivors(ps, M)
         /\ Under(fs)!Winner(ps, M) = Winner(ps, M)
         /\ \A U : Under(fs)!Blockers(ps, M, U) = Blockers(ps, M, U)
         /\ \A S : Under(fs)!Cardinality(S) = Cardinality(S)
  <1>1. Under(fs)!Survivors(ps, M) = Survivors(ps, M)
    BY DEF Under!Survivors, Under!TopPriority, Under!Specific, Under!MostSpecific,
           Under!Overridden, Under!Overriders, Under!specificity,
           Survivors, TopPriority, Specific, MostSpecific, Overridden, Overriders, specificity
  <1>2. Under(fs)!Winner(ps, M) = Winner(ps, M)
    BY <1>1, Zenon DEF Under!Winner, Under!First, Winner, First
  <1>3. \A U : Under(fs)!Blockers(ps, M, U) = Blockers(ps, M, U)
    BY <1>2 DEF Under!Blockers, Blockers
  <1>4. \A S : Under(fs)!Cardinality(S) = Cardinality(S)
    BY Zenon DEF Under!Cardinality, Cardinality
  <1> QED
    BY <1>1, <1>2, <1>3, <1>4

(* The decision o that the matched policies M lead to, case by case, where *)
(* S are the n survivors and B what blocks the winner.                     *)
DecidedCase(ps, M, S, n, B, o) ==
  /\ n > 1 => o.kind = "escalate"
  /\ ~ (n > 1) /\ M = {} => o.kind = "escalate"
  /\ ~ (n > 1) /\ M # {} /\ S = {} => o.kind = "IndexError"
  /\ n = 1 /\ ~ (n > 1) /\ M # {} /\ S # {} /\ B # {} => o.kind = "escalate"
  /\ n = 1 /\ ~ (n > 1) /\ M # {} /\ S # {} /\ B = {} => o = Decisive(ps[Winner(ps, M)])

LEMMA CasesUnder ==
  ASSUME NEW fs, NEW ps, NEW M, NEW U, NEW eff,
         NEW S, S = Survivors(ps, M), NEW n, n = Cardinality(S), NEW B, B = Blockers(ps, M, U),
         NEW o, o = Under(fs)!OutcomeOf(ps, M, U, eff)
  PROVE  DecidedCase(ps, M, S, n, B, o)
  <1>1. /\ \A reason, X, Y : Under(fs)!Escalate(reason, X, Y).kind = "escalate"
        /\ \A e : Under(fs)!Raise(e).kind = e
        /\ \A p : Under(fs)!Decisive(p) = Decisive(p)
    BY DEF Under!Escalate, Under!Raise, Under!Decisive, Decisive
  <1>2. /\ Under(fs)!Survivors(ps, M) = S /\ Under(fs)!Cardinality(S) = n
        /\ Under(fs)!Blockers(ps, M, U) = B /\ Under(fs)!Winner(ps, M) = Winner(ps, M)
    BY SamePrecedence, Zenon
  <1>3. o = CASE n > 1 -> Under(fs)!Escalate("conflict", {}, {ps[i].id : i \in S})
              [] M = {} /\ U # {} ->
                   Under(fs)!Escalate("missing_facts", Under(fs)!MissingIn(ps, U, eff), {})
              [] M = {} /\ U = {} -> Under(fs)!Escalate("no_matching_policy", {}, {})
              [] M # {} /\ S = {} -> Under(fs)!Raise("IndexError")
              [] n = 1 /\ B # {} ->
                   Under(fs)!Escalate("missing_facts", Under(fs)!MissingIn(ps, B, eff), {})
              [] OTHER -> Under(fs)!Decisive(ps[Winner(ps, M)])
    BY <1>2, Zenon DEF Under!OutcomeOf
  <1>4. /\ S = {} => ~ (n > 1) /\ n # 1
        /\ n = 1 => ~ (n > 1)
    BY FS_EmptySet
  <1>5. n > 1 => o.kind = "escalate"
    <2> SUFFICES ASSUME n > 1 PROVE o.kind = "escalate"
      OBVIOUS
    <2>1. S # {} /\ n # 1
      BY <1>4, Zenon
    <2>2. \/ o = Under(fs)!Escalate("conflict", {}, {ps[i].id : i \in S})
          \/ o = Under(fs)!Escalate("missing_facts", Under(fs)!MissingIn(ps, U, eff), {})
          \/ o = Under(fs)!Escalate("no_matching_policy", {}, {})
      BY <1>3, <2>1, Zenon
    <2> QED
      BY <1>1, <2>2
  <1>6. ~ (n > 1) /\ M = {} => o.kind = "escalate"
    BY <1>1, <1>3
  <1>7. ~ (n > 1) /\ M # {} /\ S = {} => o.kind = "IndexError"
    BY <1>1, <1>3, <1>4
  <1>8. n = 1 /\ ~ (n > 1) /\ M # {} /\ S # {} /\ B # {} => o.kind = "escalate"
    BY <1>1, <1>3
  <1>9. n = 1 /\ ~ (n > 1) /\ M # {} /\ S # {} /\ B = {} => o = Decisive(ps[Winner(ps, M)])
    BY <1>1, <1>3
  <1> QED
    BY <1>5, <1>6, <1>7, <1>8, <1>9 DEF DecidedCase

LEMMA RuledBy ==
  ASSUME NEW fs, NEW ps, Ordered(ps), NEW M, M \subseteq DOMAIN ps, NEW U, NEW eff,
         NEW w, Survivors(ps, M) = {w}, Blockers(ps, M, U) = {}
  PROVE  Under(fs)!OutcomeOf(ps, M, U, eff) = Decisive(ps[w])
  <1>1. w \in M /\ w \in Nat
    BY SurvivorCounts, PositionsFinite
  <1>2. Cardinality(Survivors(ps, M)) = 1 /\ Survivors(ps, M) # {}
    BY SurvivorCounts
  <1>3. Winner(ps, M) = w
    BY <1>1 DEF Winner, First
  <1>4. PICK S, n, B, o : /\ S = Survivors(ps, M) /\ n = Cardinality(S)
                          /\ B = Blockers(ps, M, U)
                          /\ o = Under(fs)!OutcomeOf(ps, M, U, eff)
    OBVIOUS
  <1>5. n = 1 /\ M # {} /\ ~ (n > 1) /\ S # {} /\ B = {}
    BY <1>1, <1>2, <1>4
  <1>6. DecidedCase(ps, M, S, n, B, o)
    BY <1>4, CasesUnder
  <1> QED
    BY <1>3, <1>4, <1>5, <1>6 DEF DecidedCase

LEMMA ApprovedBy ==
  ASSUME NEW fs, NEW ps, Ordered(ps), NEW M, M \subseteq DOMAIN ps, NEW U, NEW eff,
         Under(fs)!OutcomeOf(ps, M, U, eff).kind = "approve"
  PROVE  \E w \in M : /\ Survivors(ps, M) = {w}
                      /\ Blockers(ps, M, U) = {}
                      /\ ps[w].kind = "approve"
  <1>1. PICK S, n, B, o : /\ S = Survivors(ps, M) /\ n = Cardinality(S)
                          /\ B = Blockers(ps, M, U)
                          /\ o = Under(fs)!OutcomeOf(ps, M, U, eff)
    OBVIOUS
  <1>2. n \in Nat /\ (n = 0 <=> S = {}) /\ (n = 1 <=> \E i : S = {i}) /\ S \subseteq M
    BY <1>1, SurvivorCounts, Zenon
  <1>3. DecidedCase(ps, M, S, n, B, o)
    BY <1>1, CasesUnder
  <1>4. o.kind = "approve"
    BY <1>1
  <1>5. ~ (n > 1) /\ M # {} /\ S # {}
    BY <1>3, <1>4 DEF DecidedCase
  <1>6. n = 1
    BY <1>2, <1>5
  <1>7. B = {} /\ ps[Winner(ps, M)].kind = "approve"
    BY <1>3, <1>4, <1>5, <1>6 DEF Decisive, DecidedCase
  <1>8. PICK w : S = {w}
    BY <1>2, <1>6
  <1>9. w \in M /\ w \in Nat
    BY <1>2, <1>8, PositionsFinite
  <1>10. Winner(ps, M) = w
    BY <1>1, <1>8, <1>9 DEF Winner, First
  <1> QED
    BY <1>1, <1>7, <1>8, <1>9, <1>10

LEMMA Unrivalled ==
  ASSUME NEW ps, Ordered(ps), NEW M, M \subseteq DOMAIN ps, NEW w \in M,
         \A j \in M : ps[w].id \notin ps[j].overrides,
         \A j \in M : j # w =>
           \/ specificity(ps[w]) > specificity(ps[j])
           \/ specificity(ps[w]) = specificity(ps[j]) /\ ps[w].priority > ps[j].priority
  PROVE  Survivors(ps, M) = {w}
  <1>1. \A j \in M : ps[j].priority \in Nat /\ specificity(ps[j]) \in Nat
    BY PositionsFinite
  <1>2. w \in M \ Overridden(ps, M)
    BY DEF Overridden, Overriders
  <1>3. w \in Survivors(ps, M)
    BY <1>1, <1>2, SurvivorsUndefeated
  <1>4. ASSUME NEW i \in Survivors(ps, M) PROVE i = w
    <2>1. i \in M
      BY SurvivorCounts
    <2> QED
      BY <1>1, <1>2, <2>1, SurvivorsUndefeated
  <1> QED
    BY <1>3, <1>4

(* What is proven and what is open, condition by condition. *)
Met(eff, c) == eff[c.field] # None /\ Compare(c, eff[c.field])

Unmet(eff, c) == eff[c.field] # None /\ ~ Compare(c, eff[c.field])

LEMMA StatusUnder ==
  ASSUME NEW fs, NEW ps, NEW eff, NEW i \in DOMAIN ps,
         \A c \in ConditionsOf(ps[i]) : c.field \in DOMAIN fs
  PROVE  /\ i \in Under(fs)!Matched(ps, eff) <=> \A c \in ConditionsOf(ps[i]) : Met(eff, c)
         /\ i \in Under(fs)!Undeterminable(ps, eff) <=>
              /\ \A c \in ConditionsOf(ps[i]) : ~ Unmet(eff, c)
              /\ \E c \in ConditionsOf(ps[i]) : eff[c.field] = None
  <1>1. \A c, v : Under(fs)!Compare(c, v) = Compare(c, v)
    BY Zenon DEF Under!Compare, Under!CompareNumber, Under!CompareString,
                 Compare, CompareNumber, CompareString
  <1>2. Under(fs)!Fails(ps[i], eff) <=> \E c \in ConditionsOf(ps[i]) : Unmet(eff, c)
    BY <1>1 DEF Under!Fails, ConditionsOf, Unmet
  <1>3. Under(fs)!Missing(ps[i], eff) # {} <=> \E c \in ConditionsOf(ps[i]) : eff[c.field] = None
    BY DEF Under!Missing, Under!Declared, ConditionsOf
  <1> QED
    BY <1>2, <1>3 DEF Under!Matched, Under!Undeterminable, Met, Unmet

LEMMA ConditionMet ==
  ASSUME NEW eff, NEW n, NEW x
  PROVE  /\ Met(eff, Num(n, "gt", x)) <=> eff[n] # None /\ eff[n].value > x
         /\ Met(eff, Num(n, "gte", x)) <=> eff[n] # None /\ eff[n].value >= x
         /\ Met(eff, Num(n, "lt", x)) <=> eff[n] # None /\ eff[n].value < x
         /\ Met(eff, Num(n, "lte", x)) <=> eff[n] # None /\ eff[n].value <= x
         /\ Met(eff, Str(n, "eq", x)) <=> eff[n] # None /\ NormStr(eff[n].value) = NormStr(x)
         /\ Met(eff, Truth(n, x)) <=> eff[n] # None /\ eff[n].value = x
  BY DEF Met, Num, Str, Truth, Compare, CompareNumber, CompareString

-----------------------------------------------------------------------------
(* Requests. *)

RequestOK ==
  /\ company \in DOMAIN Tenants
  /\ workflow \in DOMAIN Tenants[company]
  /\ \A n \in DOMAIN request :
       /\ n \in DOMAIN Tenants[company][workflow].facts
       /\ Typed(request[n], Tenants[company][workflow].facts[n].value_type)

LEMMA RequestInvariance == TenantSpec => []RequestOK
  <1>1. TenantInit => RequestOK
    BY DEF TenantInit, RequestOK, NoFacts
  <1>2. RequestOK /\ [TenantNext]_tenantVars => RequestOK'
    <2> SUFFICES ASSUME RequestOK, [TenantNext]_tenantVars PROVE RequestOK'
      OBVIOUS
    <2>1. CASE UNCHANGED <<company, workflow, request>>
      BY <2>1 DEF RequestOK
    <2>2. ASSUME NEW n \in DOMAIN Live(company)[workflow].facts,
                 NEW v \in Samples(workflow, n), Bring(n, v)
          PROVE  RequestOK'
      <3>1. Live(company)[workflow].facts = Tenants[company][workflow].facts
        BY DEF RequestOK, Live, LiveBundles
      <3>2. Typed(v, Tenants[company][workflow].facts[n].value_type)
        BY <3>1, ReferenceAssumptions DEF RequestOK
      <3>3. UNCHANGED <<company, workflow>> /\ n \notin DOMAIN request
        BY <2>2 DEF Bring
      <3>4. /\ DOMAIN request' = DOMAIN request \cup {n}
            /\ \A m \in DOMAIN request' : request'[m] = IF m \in DOMAIN request THEN request[m] ELSE v
        BY <2>2 DEF Bring
      <3> QED
        BY <3>1, <3>2, <3>3, <3>4 DEF RequestOK
    <2>3. Edit => UNCHANGED <<company, workflow, request>>
      BY DEF Edit
    <2> QED
      BY <2>1, <2>2, <2>3 DEF TenantNext, tenantVars
  <1> QED
    BY <1>1, <1>2, PTL DEF TenantSpec
(* What the conditions of a workflow see. *)
Seen(fs) == [n \in DOMAIN fs |-> IF n \in DOMAIN request THEN request[n] ELSE fs[n].default]

Out(fs, ps) ==
  Under(fs)!OutcomeOf(ps, Under(fs)!Matched(ps, Seen(fs)), Under(fs)!Undeterminable(ps, Seen(fs)),
                      Seen(fs))

LEMMA Deciding ==
  ASSUME RequestOK, NEW fs, fs = Tenants[company][workflow].facts,
         NEW ps, ps = Tenants[company][workflow].policies
  PROVE  /\ Decision.kind = Out(fs, ps).kind
         /\ Decision.action = ActionOf(ps, Out(fs, ps))
  <1>1. /\ DOMAIN request \subseteq DOMAIN fs
        /\ \A n \in DOMAIN request : request[n] # None /\ request[n].type = fs[n].value_type
    BY DEF RequestOK, Typed
  <1>2. /\ workflow \in DOMAIN Live(company)
        /\ Live(company)[workflow].facts = fs
        /\ Live(company)[workflow].policies = ps
    BY DEF RequestOK, Live, LiveBundles
  <1> DEFINE f == Supplied(request, fs)
  <1>3. \A n \in DOMAIN fs : f[n] = IF n \in DOMAIN request THEN request[n] ELSE None
    BY DEF Supplied
  <1> HIDE DEF f
  <1>4. ~ Under(fs)!Invalid(f)
    BY <1>1, <1>3 DEF Under!Invalid, Under!Declared
  <1>5. Under(fs)!Effective(f) = Seen(fs)
    BY <1>1, <1>3 DEF Under!Effective, Under!Declared, Seen
  <1>6. Under(fs)!evaluate(ps, f) = Out(fs, ps)
    BY <1>4, <1>5, Zenon DEF Under!evaluate, Out
  <1>7. Decision = [kind |-> Out(fs, ps).kind, action |-> ActionOf(ps, Out(fs, ps)),
                    escalation_reason |-> Out(fs, ps).escalation_reason,
                    policy_id |-> Out(fs, ps).policy_id]
    BY <1>2, <1>6, Zenon DEF Decision, Decide, f
  <1> QED
    BY <1>7

LEMMA ActionOfPolicy ==
  ASSUME NEW ps, Ordered(ps), NEW i \in DOMAIN ps, ps[i].id # None
  PROVE  ActionOf(ps, Decisive(ps[i])) = ps[i].action
  <1>1. Decisive(ps[i]).policy_id = ps[i].id
    BY DEF Decisive
  <1>2. \A k \in DOMAIN ps : ps[k].id = ps[i].id => k = i
    BY DEF Ordered
  <1>3. (CHOOSE k \in DOMAIN ps : ps[k].id = ps[i].id) = i
    BY <1>2
  <1> QED
    BY <1>1, <1>3, Zenon DEF ActionOf

(* A matched policy that nothing overrides, beats or blocks decides. *)
LEMMA DecidedBy ==
  ASSUME RequestOK, NEW fs, fs = Tenants[company][workflow].facts,
         NEW ps, ps = Tenants[company][workflow].policies, Ordered(ps),
         NEW M, M = Under(fs)!Matched(ps, Seen(fs)),
         NEW U, U = Under(fs)!Undeterminable(ps, Seen(fs)),
         NEW w \in M, \A j \in M : ps[w].id \notin ps[j].overrides,
         \A j \in M : j # w =>
           \/ specificity(ps[w]) > specificity(ps[j])
           \/ specificity(ps[w]) = specificity(ps[j]) /\ ps[w].priority > ps[j].priority,
         \A i \in U : ~ ps[i].priority > ps[w].priority
  PROVE  Decision.kind = ps[w].kind /\ Decision.action = ps[w].action
  <1>1. M \subseteq DOMAIN ps /\ Ordered(ps)
    BY DEF Under!Matched
  <1>2. Survivors(ps, M) = {w}
    BY <1>1, Unrivalled
  <1>3. w \in DOMAIN ps /\ w \in Nat
    BY <1>1, PositionsFinite
  <1>4. Winner(ps, M) = w
    BY <1>2, <1>3 DEF Winner, First
  <1>5. Blockers(ps, M, U) = {}
    BY <1>4, Zenon DEF Blockers
  <1>6. Out(fs, ps) = Decisive(ps[w])
    <2>1. PICK eff : eff = Seen(fs)
      OBVIOUS
    <2>2. Under(fs)!OutcomeOf(ps, M, U, eff) = Decisive(ps[w])
      BY ONLY <1>1, <1>2, <1>5, RuledBy
    <2>3. Out(fs, ps) = Under(fs)!OutcomeOf(ps, M, U, eff)
      BY <2>1 DEF Out
    <2> QED
      BY <2>2, <2>3
  <1>7. ps[w].id # None
    <2>1. company \in DOMAIN Tenants /\ workflow \in DOMAIN Tenants[company]
      BY DEF RequestOK
    <2>2. \A i \in DOMAIN Tenants[company][workflow].policies :
            Tenants[company][workflow].policies[i].id # None
      BY <2>1, ReferenceAssumptions
    <2> QED
      BY <1>3, <2>2, Zenon
  <1>8. ActionOf(ps, Out(fs, ps)) = ps[w].action
    BY <1>3, <1>6, <1>7, ActionOfPolicy
  <1> QED
    BY <1>6, <1>8, Deciding DEF Decisive

(* The conditions of a policy that lists them. *)
LEMMA ListOf ==
  ASSUME NEW p
  PROVE  /\ \A x : p.conditions = <<x>> =>
              specificity(p) = 1 /\ ConditionsOf(p) = {x} /\ IsList(p.conditions)
         /\ \A x, y : p.conditions = <<x, y>> =>
              specificity(p) = 2 /\ ConditionsOf(p) = {x, y} /\ IsList(p.conditions)
         /\ \A x, y, z : p.conditions = <<x, y, z>> =>
              specificity(p) = 3 /\ ConditionsOf(p) = {x, y, z} /\ IsList(p.conditions)
  <1>1. ASSUME NEW x, p.conditions = <<x>>
        PROVE  specificity(p) = 1 /\ ConditionsOf(p) = {x} /\ IsList(p.conditions)
    BY <1>1 DEF specificity, ConditionsOf, IsList
  <1>2. ASSUME NEW x, NEW y, p.conditions = <<x, y>>
        PROVE  specificity(p) = 2 /\ ConditionsOf(p) = {x, y} /\ IsList(p.conditions)
    BY <1>2 DEF specificity, ConditionsOf, IsList
  <1>3. ASSUME NEW x, NEW y, NEW z, p.conditions = <<x, y, z>>
        PROVE  specificity(p) = 3 /\ ConditionsOf(p) = {x, y, z} /\ IsList(p.conditions)
    BY <1>3 DEF specificity, ConditionsOf, IsList
  <1> QED
    BY <1>1, <1>2, <1>3

-----------------------------------------------------------------------------
(* rivanly-inc, refund. *)

LEMMA RefundPolicies ==
  ASSUME NEW ps, ps = RivanlyRefundPolicies
  PROVE  /\ Len(ps) = 7 /\ DOMAIN ps = 1 .. 7
         /\ ps[1].kind = "deny" /\ ps[2].kind = "escalate" /\ ps[3].kind = "deny"
         /\ ps[4].kind = "escalate"
         /\ ps[1].priority = 100 /\ ps[2].priority = 90 /\ ps[3].priority = 110
         /\ ps[4].priority = 80 /\ ps[5].priority = 70 /\ ps[6].priority = 60
         /\ ps[7].priority = 55
  BY DEF RivanlyRefundPolicies, DenyAfter60, Policy, Overriding

LEMMA RefundIds ==
  ASSUME NEW ps, ps = RivanlyRefundPolicies
  PROVE  /\ ps[1].id = "refund.deny_after_60_days"
         /\ ps[2].id = "refund.enterprise_escalate"
         /\ ps[3].id = "refund.lifetime_deal_deny"
         /\ ps[4].id = "refund.monthly_new_large_founder"
         /\ ps[5].id = "refund.annual_full_14d"
         /\ ps[6].id = "refund.annual_prorate"
         /\ ps[7].id = "refund.loyalty_precedent"
         /\ ps[1].overrides = {ps[5].id, ps[6].id, ps[7].id, ps[4].id}
         /\ ps[2].overrides = {} /\ ps[3].overrides = {} /\ ps[4].overrides = {}
         /\ ps[5].overrides = {} /\ ps[6].overrides = {}
         /\ ps[7].overrides = {ps[6].id}
  BY DEF RivanlyRefundPolicies, DenyAfter60, Policy, Overriding

LEMMA RefundConditions ==
  ASSUME NEW ps, ps = RivanlyRefundPolicies
  PROVE  /\ specificity(ps[1]) = 1 /\ specificity(ps[2]) = 1 /\ specificity(ps[3]) = 1
         /\ specificity(ps[4]) = 3 /\ specificity(ps[5]) = 2 /\ specificity(ps[6]) = 2
         /\ specificity(ps[7]) = 1
         /\ ConditionsOf(ps[1]) = {Num("days_since_purchase", "gt", 60)}
         /\ ConditionsOf(ps[2]) = {Str("plan_type", "eq", "enterprise")}
         /\ ConditionsOf(ps[3]) = {Str("plan_type", "eq", "lifetime_deal")}
         /\ ConditionsOf(ps[4]) =
              {Str("plan_type", "eq", "monthly"), Num("tenure_months", "lt", 3),
               Num("refund_amount", "gt", 500)}
         /\ ConditionsOf(ps[5]) =
              {Str("plan_type", "eq", "annual"), Num("days_since_purchase", "lte", 14)}
         /\ ConditionsOf(ps[6]) =
              {Str("plan_type", "eq", "annual"), Num("days_since_purchase", "gt", 14)}
         /\ ConditionsOf(ps[7]) = {Num("tenure_years", "gt", 2)}
         /\ \A i \in 1 .. 7 : IsList(ps[i].conditions)
  <1>1. /\ ps[1].conditions = <<Num("days_since_purchase", "gt", 60)>>
        /\ ps[2].conditions = <<Str("plan_type", "eq", "enterprise")>>
        /\ ps[3].conditions = <<Str("plan_type", "eq", "lifetime_deal")>>
        /\ ps[4].conditions =
             <<Str("plan_type", "eq", "monthly"), Num("tenure_months", "lt", 3),
               Num("refund_amount", "gt", 500)>>
        /\ ps[5].conditions =
             <<Str("plan_type", "eq", "annual"), Num("days_since_purchase", "lte", 14)>>
        /\ ps[6].conditions =
             <<Str("plan_type", "eq", "annual"), Num("days_since_purchase", "gt", 14)>>
        /\ ps[7].conditions = <<Num("tenure_years", "gt", 2)>>
    BY DEF RivanlyRefundPolicies, DenyAfter60, Policy, Overriding
  <1>2. \A i \in 1 .. 7 : i \in {1, 2, 3, 4, 5, 6, 7}
    OBVIOUS
  <1>3. \A i \in 1 .. 7 : IsList(ps[i].conditions)
    BY <1>1, <1>2, ListOf
  <1> QED
    BY <1>1, <1>3, ListOf

LEMMA RefundOrdered ==
  ASSUME NEW ps, ps = RivanlyRefundPolicies
  PROVE  Ordered(ps)
  <1>1. IsList(ps)
    BY RefundPolicies DEF IsList
  <1>2. \A i \in DOMAIN ps : ps[i].priority \in 0 .. 1000
    BY RefundPolicies
  <1>3. \A i \in DOMAIN ps : IsList(ps[i].conditions)
    BY RefundPolicies, RefundConditions
  <1>4. \A i, j \in DOMAIN ps : ps[i].id = ps[j].id => i = j
    BY RefundPolicies, RefundIds
  <1>5. AcyclicOverrides(ps)
    <2> DEFINE rank == [i \in 1 .. 7 |-> IF i = 1 THEN 1 ELSE IF i = 7 THEN 2 ELSE 3]
    <2>1. rank \in [DOMAIN ps -> 1 .. Len(ps)]
      BY RefundPolicies
    <2>2. ASSUME NEW i \in DOMAIN ps, NEW j \in DOMAIN ps, ps[j].id \in ps[i].overrides
          PROVE  rank[i] < rank[j]
      BY <2>2, RefundPolicies, RefundIds
    <2> HIDE DEF rank
    <2> QED
      BY <2>1, <2>2 DEF AcyclicOverrides
  <1> QED
    BY <1>1, <1>2, <1>3, <1>4, <1>5 DEF Ordered

(* The plans are compared as they are written. *)
LEMMA RefundNormal ==
  /\ NormStr("enterprise") = "enterprise" /\ NormStr("lifetime_deal") = "lifetime_deal"
  /\ NormStr("monthly") = "monthly" /\ NormStr("annual") = "annual"
  <1>1. PICK ps : ps = RivanlyRefundPolicies
    OBVIOUS
  <1>2. /\ "rivanly" \in DOMAIN Tenants /\ "refund" \in DOMAIN Tenants["rivanly"]
        /\ Tenants["rivanly"]["refund"].policies = ps
    BY <1>1 DEF Tenants, RivanlyBundle, Workflow
  <1>3. \A i \in DOMAIN ps : \A k \in DOMAIN ps[i].conditions :
          ps[i].conditions[k].value_type = "string" /\ ps[i].conditions[k].operator = "eq" =>
            NormStr(ps[i].conditions[k].value) = ps[i].conditions[k].value
    BY <1>2, ReferenceAssumptions
  <1>4. \A i \in DOMAIN ps : \A c \in ConditionsOf(ps[i]) :
          c.value_type = "string" /\ c.operator = "eq" => NormStr(c.value) = c.value
    BY <1>3 DEF ConditionsOf
  <1>5. \A i \in 1 .. 7 : \A n, x : Str(n, "eq", x) \in ConditionsOf(ps[i]) => NormStr(x) = x
    BY <1>1, <1>4, RefundPolicies DEF Str
  <1> QED
    BY <1>1, <1>5, RefundConditions

LEMMA RefundSeen ==
  ASSUME RequestOK, company = "rivanly", workflow = "refund",
         NEW fs, fs = RivanlyRefundFacts
  PROVE  /\ fs = Tenants[company][workflow].facts
         /\ RivanlyRefundPolicies = Tenants[company][workflow].policies
         /\ DOMAIN fs = {"plan_type", "days_since_purchase", "refund_amount",
                         "tenure_months", "tenure_years"}
         /\ \A n \in DOMAIN fs : Seen(fs)[n] = IF Given(n) THEN request[n] ELSE None
         /\ \A n \in DOMAIN request : n \in DOMAIN fs /\ request[n] # None
         /\ \A n \in DOMAIN request : n # "plan_type" => request[n].value \in Int
  <1>1. /\ fs = Tenants[company][workflow].facts
        /\ RivanlyRefundPolicies = Tenants[company][workflow].policies
    BY DEF Tenants, RivanlyBundle, Workflow
  <1>2. /\ DOMAIN fs = {"plan_type", "days_since_purchase", "refund_amount",
                        "tenure_months", "tenure_years"}
        /\ \A n \in DOMAIN fs : fs[n].default = None
        /\ \A n \in DOMAIN fs : n # "plan_type" => fs[n].value_type = "number"
    BY DEF RivanlyRefundFacts, Required
  <1>3. \A n \in DOMAIN request : n \in DOMAIN fs /\ Typed(request[n], fs[n].value_type)
    BY <1>1 DEF RequestOK
  <1>4. \A n \in DOMAIN fs : Seen(fs)[n] = IF Given(n) THEN request[n] ELSE None
    BY <1>2 DEF Seen, Given
  <1> QED
    BY <1>1, <1>2, <1>3, <1>4 DEF Typed

LEMMA RefundStatus ==
  ASSUME RequestOK, company = "rivanly", workflow = "refund",
         NEW fs, fs = RivanlyRefundFacts, NEW ps, ps = RivanlyRefundPolicies,
         NEW M, M = Under(fs)!Matched(ps, Seen(fs)),
         NEW U, U = Under(fs)!Undeterminable(ps, Seen(fs))
  PROVE  /\ 1 \in M <=> MoreThan("days_since_purchase", 60)
         /\ 1 \in U <=> ~ Given("days_since_purchase")
         /\ Has("plan_type", "enterprise") => 2 \in M
         /\ 2 \in U <=> ~ Given("plan_type")
         /\ Has("plan_type", "lifetime_deal") => 3 \in M
         /\ Has("plan_type", "monthly") /\ AtMost("tenure_months", 2)
              /\ MoreThan("refund_amount", 500) => 4 \in M
         /\ 5 \in M \/ 6 \in M =>
              Given("plan_type") /\ NormStr(request["plan_type"].value) = "annual"
  <1> DEFINE eff == Seen(fs)
  <1>1. /\ DOMAIN fs = {"plan_type", "days_since_purchase", "refund_amount",
                        "tenure_months", "tenure_years"}
        /\ \A n \in DOMAIN fs : eff[n] = IF Given(n) THEN request[n] ELSE None
        /\ \A n \in DOMAIN request : n \in DOMAIN fs /\ request[n] # None
        /\ \A n \in DOMAIN request : n # "plan_type" => request[n].value \in Int
    BY RefundSeen
  <1>2. \A i \in 1 .. 6 : \A c \in ConditionsOf(ps[i]) : c.field \in DOMAIN fs
    <2>1. \A i \in 1 .. 6 : i \in {1, 2, 3, 4, 5, 6}
      OBVIOUS
    <2> QED
      BY <1>1, <2>1, RefundConditions DEF Num, Str
  <1> HIDE DEF eff
  <1>3. \A i \in 1 .. 6 :
          /\ i \in M <=> \A c \in ConditionsOf(ps[i]) : Met(eff, c)
          /\ i \in U <=> /\ \A c \in ConditionsOf(ps[i]) : ~ Unmet(eff, c)
                         /\ \E c \in ConditionsOf(ps[i]) : eff[c.field] = None
    BY <1>2, StatusUnder, RefundPolicies DEF eff
  <1>4. \A n \in DOMAIN fs : Given(n) <=> eff[n] # None
    BY <1>1 DEF Given
  <1>5. 1 \in M <=> MoreThan("days_since_purchase", 60)
    BY <1>1, <1>3, <1>4, ConditionMet, RefundConditions DEF MoreThan
  <1>6. \A i \in 1 .. 6 : \A c :
           ConditionsOf(ps[i]) = {c} => (i \in U <=> eff[c.field] = None)
    BY <1>3 DEF Unmet
  <1>7. 1 \in U <=> ~ Given("days_since_purchase")
    <2>1. 1 \in U <=> eff[Num("days_since_purchase", "gt", 60).field] = None
      BY <1>6, RefundConditions
    <2> QED
      BY <1>1, <1>4, <2>1 DEF Num
  <1>8. Has("plan_type", "enterprise") => 2 \in M
    BY <1>1, <1>3, <1>4, ConditionMet, RefundConditions DEF Has
  <1>9. 2 \in U <=> ~ Given("plan_type")
    <2>1. 2 \in U <=> eff[Str("plan_type", "eq", "enterprise").field] = None
      BY <1>6, RefundConditions
    <2> QED
      BY <1>1, <1>4, <2>1 DEF Str
  <1>10. Has("plan_type", "lifetime_deal") => 3 \in M
    BY <1>1, <1>3, <1>4, ConditionMet, RefundConditions DEF Has
  <1>11. ASSUME Has("plan_type", "monthly"), AtMost("tenure_months", 2),
                MoreThan("refund_amount", 500)
         PROVE  4 \in M
    <2>1. Met(eff, Str("plan_type", "eq", "monthly"))
      BY <1>1, <1>4, <1>11, ConditionMet DEF Has
    <2>2. Met(eff, Num("tenure_months", "lt", 3))
      BY <1>1, <1>4, <1>11, ConditionMet DEF AtMost, Given
    <2>3. Met(eff, Num("refund_amount", "gt", 500))
      BY <1>1, <1>4, <1>11, ConditionMet DEF MoreThan
    <2> QED
      BY <1>3, <2>1, <2>2, <2>3, RefundConditions
  <1>12. 5 \in M \/ 6 \in M =>
           Given("plan_type") /\ NormStr(request["plan_type"].value) = "annual"
    <2>1. 5 \in M \/ 6 \in M => Met(eff, Str("plan_type", "eq", "annual"))
      BY <1>3, RefundConditions
    <2> QED
      BY <1>1, <1>4, <2>1, ConditionMet, RefundNormal
  <1> QED
    BY <1>5, <1>7, <1>8, <1>9, <1>10, <1>11, <1>12

LEMMA RefundsLimited == RequestOK => RefundLimits
  <1> SUFFICES ASSUME RequestOK, company = "rivanly", workflow = "refund",
                      Decision.kind = "approve"
               PROVE  /\ AtMost("days_since_purchase", 60)
                      /\ Given("plan_type")
                      /\ request.plan_type.value \notin {"enterprise", "lifetime_deal"}
                      /\ ~ /\ Has("plan_type", "monthly")
                           /\ AtMost("tenure_months", 2)
                           /\ MoreThan("refund_amount", 500)
    BY DEF RefundLimits, Asked
  <1>1. PICK fs, ps : fs = RivanlyRefundFacts /\ ps = RivanlyRefundPolicies
    OBVIOUS
  <1>2. PICK M, U : /\ M = Under(fs)!Matched(ps, Seen(fs))
                    /\ U = Under(fs)!Undeterminable(ps, Seen(fs))
    OBVIOUS
  <1>3. /\ M \subseteq DOMAIN ps
        /\ Ordered(ps)
    BY <1>1, <1>2, RefundOrdered DEF Under!Matched
  <1>4. Under(fs)!OutcomeOf(ps, M, U, Seen(fs)).kind = "approve"
    BY <1>1, <1>2, Deciding, RefundSeen DEF Out
  <1>5. PICK w \in M : /\ Survivors(ps, M) = {w}
                       /\ Blockers(ps, M, U) = {}
                       /\ ps[w].kind = "approve"
    BY <1>3, <1>4, ApprovedBy
  <1>6. /\ w \in {5, 6, 7}
        /\ DOMAIN ps = 1 .. 7
    BY <1>1, <1>3, <1>5, RefundPolicies
  <1>7. w \in Survivors(ps, M) /\ Winner(ps, M) = w
    BY <1>5, <1>6 DEF Winner, First
  <1>8. 1 \notin U /\ 2 \notin U
    BY <1>1, <1>5, <1>6, <1>7, RefundPolicies DEF Blockers
  <1>9. /\ w \notin Overridden(ps, M)
        /\ \A j \in M \ Overridden(ps, M) :
             ~ \/ specificity(ps[j]) > specificity(ps[w])
               \/ specificity(ps[j]) = specificity(ps[w]) /\ ps[j].priority > ps[w].priority
    <2>1. w \in DOMAIN ps
      BY <1>3
    <2> QED
      BY <1>3, <1>7, <2>1, SurvivorsUndefeated
  <1>10. 1 \notin M
    BY <1>1, <1>5, <1>6, <1>9, RefundIds DEF Overridden, Overriders
  <1>11. \A i \in {2, 3, 4} : i \in M => i \notin Overridden(ps, M)
    <2>1. ASSUME NEW i \in {2, 3, 4}, NEW j \in M PROVE ps[i].id \notin ps[j].overrides
      <3>1. j \in {2, 3, 4, 5, 6, 7}
        BY <1>3, <1>6, <1>10
      <3> QED
        BY <1>1, <3>1, RefundIds
    <2> QED
      BY <2>1 DEF Overridden, Overriders
  <1>12. w = 7 => 2 \notin M /\ 3 \notin M /\ 4 \notin M
    BY <1>1, <1>9, <1>11, RefundPolicies, RefundConditions
  <1>13. /\ 1 \in M <=> MoreThan("days_since_purchase", 60)
         /\ 1 \in U <=> ~ Given("days_since_purchase")
         /\ Has("plan_type", "enterprise") => 2 \in M
         /\ 2 \in U <=> ~ Given("plan_type")
         /\ Has("plan_type", "lifetime_deal") => 3 \in M
         /\ Has("plan_type", "monthly") /\ AtMost("tenure_months", 2)
              /\ MoreThan("refund_amount", 500) => 4 \in M
         /\ 5 \in M \/ 6 \in M =>
              Given("plan_type") /\ NormStr(request["plan_type"].value) = "annual"
    BY <1>1, <1>2, RefundStatus
  <1>14. AtMost("days_since_purchase", 60) /\ Given("plan_type")
    <2>1. Given("days_since_purchase") => request["days_since_purchase"].value \in Int
      BY RefundSeen DEF Given
    <2> QED
      BY <1>8, <1>10, <1>13, <2>1 DEF AtMost, MoreThan
  <1>15. CASE w = 7
    BY <1>12, <1>13, <1>14, <1>15 DEF Has
  <1>16. CASE w \in {5, 6}
    BY <1>5, <1>13, <1>14, <1>16, RefundNormal DEF Has
  <1> QED
    BY <1>6, <1>15, <1>16

(* The limits of the refund SOP hold for every request, whatever the       *)
(* requester supplies and in whatever order: for all numbers and plans,    *)
(* and not only for the samples of the model checker.                      *)
THEOREM RefundsAlwaysLimited == TenantSpec => []RefundLimits
  BY RequestInvariance, RefundsLimited, PTL

-----------------------------------------------------------------------------
(* higgsfield. *)

LEMMA ScreenPolicies ==
  ASSUME NEW ps, ps = HiggsfieldRefundPolicies
  PROVE  /\ Len(ps) = 8 /\ DOMAIN ps = 1 .. 8
         /\ ps[1].kind = "escalate" /\ ps[2].kind = "escalate"
         /\ ps[1].action = "escalate_to_fraud_review"
         /\ ps[1].priority = 100 /\ ps[2].priority = 90
         /\ \A i \in {3, 4, 5, 6, 7, 8} : ps[i].priority = 70
         /\ \A i \in {1, 2, 3, 4, 5, 6, 7, 8} : ps[i].overrides = {}
  BY DEF HiggsfieldRefundPolicies, FraudScreen, Policy

LEMMA ScreenIds ==
  ASSUME NEW ps, ps = HiggsfieldRefundPolicies
  PROVE  /\ ps[1].id = "refund.fraud_new_account_large"
         /\ ps[2].id = "refund.enterprise_escalate_ae"
         /\ ps[3].id = "refund.annual_full_14d"
         /\ ps[4].id = "refund.annual_prorated_low_usage"
         /\ ps[5].id = "refund.annual_high_usage_extension"
         /\ ps[6].id = "refund.monthly_48h_window"
         /\ ps[7].id = "refund.monthly_after_48h_credit"
         /\ ps[8].id = "refund.api_unused_prepaid_30d"
  BY DEF HiggsfieldRefundPolicies, FraudScreen, Policy

LEMMA ScreenConditions ==
  ASSUME NEW ps, ps = HiggsfieldRefundPolicies
  PROVE  /\ specificity(ps[2]) = 1
         /\ \A i \in {1, 3, 6, 7, 8} : specificity(ps[i]) = 2
         /\ \A i \in {1, 2, 3, 4, 5, 6, 7, 8} : IsList(ps[i].conditions)
         /\ ConditionsOf(ps[1]) =
              {Num("account_age_days", "lt", 7), Num("refund_amount", "gt", 200)}
         /\ ConditionsOf(ps[2]) = {Str("plan_type", "eq", "enterprise")}
         /\ ConditionsOf(ps[3]) =
              {Str("plan_type", "eq", "annual"), Num("days_since_purchase", "lte", 14)}
         /\ ConditionsOf(ps[4]) =
              {Str("plan_type", "eq", "annual"), Num("days_since_purchase", "gt", 14),
               Num("credit_usage_percent", "lte", 20)}
         /\ ConditionsOf(ps[5]) =
              {Str("plan_type", "eq", "annual"), Num("days_since_purchase", "gt", 14),
               Num("credit_usage_percent", "gt", 20)}
         /\ ConditionsOf(ps[6]) =
              {Str("plan_type", "eq", "monthly"), Num("hours_since_purchase", "lte", 48)}
         /\ ConditionsOf(ps[7]) =
              {Str("plan_type", "eq", "monthly"), Num("hours_since_purchase", "gt", 48)}
         /\ ConditionsOf(ps[8]) =
              {Str("plan_type", "eq", "api"), Num("days_since_purchase", "lte", 30)}
  <1>1. /\ ps[1].conditions =
             <<Num("account_age_days", "lt", 7), Num("refund_amount", "gt", 200)>>
        /\ ps[2].conditions = <<Str("plan_type", "eq", "enterprise")>>
        /\ ps[3].conditions =
             <<Str("plan_type", "eq", "annual"), Num("days_since_purchase", "lte", 14)>>
        /\ ps[4].conditions =
             <<Str("plan_type", "eq", "annual"), Num("days_since_purchase", "gt", 14),
               Num("credit_usage_percent", "lte", 20)>>
        /\ ps[5].conditions =
             <<Str("plan_type", "eq", "annual"), Num("days_since_purchase", "gt", 14),
               Num("credit_usage_percent", "gt", 20)>>
        /\ ps[6].conditions =
             <<Str("plan_type", "eq", "monthly"), Num("hours_since_purchase", "lte", 48)>>
        /\ ps[7].conditions =
             <<Str("plan_type", "eq", "monthly"), Num("hours_since_purchase", "gt", 48)>>
        /\ ps[8].conditions =
             <<Str("plan_type", "eq", "api"), Num("days_since_purchase", "lte", 30)>>
    BY DEF HiggsfieldRefundPolicies, FraudScreen, Policy
  <1> QED
    BY <1>1, ListOf

LEMMA ScreenOrdered ==
  ASSUME NEW ps, ps = HiggsfieldRefundPolicies
  PROVE  Ordered(ps)
  <1>1. \A i \in DOMAIN ps : i \in {1, 2, 3, 4, 5, 6, 7, 8}
    BY ScreenPolicies
  <1>2. IsList(ps)
    BY ScreenPolicies DEF IsList
  <1>3. \A i \in DOMAIN ps : ps[i].priority \in 0 .. 1000
    BY <1>1, ScreenPolicies
  <1>4. \A i \in DOMAIN ps : IsList(ps[i].conditions)
    BY <1>1, ScreenConditions
  <1>5. \A i, j \in DOMAIN ps : ps[i].id = ps[j].id => i = j
    BY <1>1, ScreenIds
  <1>6. AcyclicOverrides(ps)
    <2>1. [i \in 1 .. 8 |-> 1] \in [DOMAIN ps -> 1 .. Len(ps)]
      BY ScreenPolicies
    <2>2. \A i, j \in DOMAIN ps : ps[j].id \notin ps[i].overrides
      BY <1>1, ScreenPolicies
    <2> QED
      BY <2>1, <2>2 DEF AcyclicOverrides
  <1> QED
    BY <1>2, <1>3, <1>4, <1>5, <1>6 DEF Ordered

LEMMA ScreenNormal ==
  /\ NormStr("enterprise") = "enterprise" /\ NormStr("annual") = "annual"
  /\ NormStr("monthly") = "monthly" /\ NormStr("api") = "api"
  <1>1. PICK ps : ps = HiggsfieldRefundPolicies
    OBVIOUS
  <1>2. /\ "higgsfield" \in DOMAIN Tenants /\ "refund" \in DOMAIN Tenants["higgsfield"]
        /\ Tenants["higgsfield"]["refund"].policies = ps
    BY <1>1 DEF Tenants, HiggsfieldBundle, Workflow
  <1>3. \A i \in DOMAIN ps : \A k \in DOMAIN ps[i].conditions :
          ps[i].conditions[k].value_type = "string" /\ ps[i].conditions[k].operator = "eq" =>
            NormStr(ps[i].conditions[k].value) = ps[i].conditions[k].value
    BY <1>2, ReferenceAssumptions
  <1>4. \A i \in DOMAIN ps : \A c \in ConditionsOf(ps[i]) :
          c.value_type = "string" /\ c.operator = "eq" => NormStr(c.value) = c.value
    BY <1>3 DEF ConditionsOf
  <1>5. \A i \in 1 .. 8 : \A n, x : Str(n, "eq", x) \in ConditionsOf(ps[i]) => NormStr(x) = x
    BY <1>1, <1>4, ScreenPolicies DEF Str
  <1> QED
    BY <1>1, <1>5, ScreenConditions

LEMMA ScreenSeen ==
  ASSUME RequestOK, company = "higgsfield", workflow = "refund",
         NEW fs, fs = HiggsfieldRefundFacts
  PROVE  /\ fs = Tenants[company][workflow].facts
         /\ HiggsfieldRefundPolicies = Tenants[company][workflow].policies
         /\ DOMAIN fs = {"plan_type", "days_since_purchase", "hours_since_purchase",
                         "credit_usage_percent", "account_age_days", "refund_amount"}
         /\ \A n \in DOMAIN request : n \in DOMAIN fs /\ request[n] # None
         /\ \A n \in DOMAIN request : n # "plan_type" => request[n].value \in Int
         /\ \A n \in DOMAIN request : Seen(fs)[n] = request[n]
         /\ \A n \in {"plan_type", "days_since_purchase", "hours_since_purchase"} :
              n \notin DOMAIN request => Seen(fs)[n] = None
         /\ Seen(fs)["account_age_days"] # None /\ Seen(fs)["refund_amount"] # None
         /\ Seen(fs)["credit_usage_percent"] # None
  <1>1. /\ fs = Tenants[company][workflow].facts
        /\ HiggsfieldRefundPolicies = Tenants[company][workflow].policies
    BY DEF Tenants, HiggsfieldBundle, Workflow
  <1>2. /\ DOMAIN fs = {"plan_type", "days_since_purchase", "hours_since_purchase",
                        "credit_usage_percent", "account_age_days", "refund_amount"}
        /\ \A n \in {"plan_type", "days_since_purchase", "hours_since_purchase"} :
             fs[n].default = None
        /\ \A n \in DOMAIN fs : n # "plan_type" => fs[n].value_type = "number"
    BY DEF HiggsfieldRefundFacts, Required, Defaults, Number
  <1>3. \A n \in DOMAIN request : n \in DOMAIN fs /\ Typed(request[n], fs[n].value_type)
    BY <1>1 DEF RequestOK
  <1>4. \A n \in DOMAIN request : n \in DOMAIN fs /\ request[n] # None
    BY <1>3 DEF Typed
  <1>5. \A n \in DOMAIN request : n # "plan_type" => request[n].value \in Int
    BY <1>2, <1>3 DEF Typed
  <1>6. \A n \in DOMAIN fs : Seen(fs)[n] = IF n \in DOMAIN request THEN request[n] ELSE fs[n].default
    BY DEF Seen
  <1>7. \A n \in DOMAIN fs \ {"plan_type", "days_since_purchase", "hours_since_purchase"} :
          fs[n].default # None
    BY ReferenceAssumptions DEF HiggsfieldRefundFacts, Required, Defaults
  <1> QED
    BY <1>1, <1>2, <1>4, <1>5, <1>6, <1>7

LEMMA ScreenStatus ==
  ASSUME RequestOK, company = "higgsfield", workflow = "refund",
         NEW fs, fs = HiggsfieldRefundFacts, NEW ps, ps = HiggsfieldRefundPolicies,
         NEW M, M = Under(fs)!Matched(ps, Seen(fs)),
         NEW U, U = Under(fs)!Undeterminable(ps, Seen(fs)),
         NEW eff, eff = Seen(fs),
         NEW i \in 1 .. 8
  PROVE  /\ i \in M <=> \A c \in ConditionsOf(ps[i]) : Met(eff, c)
         /\ i \in U <=> /\ \A c \in ConditionsOf(ps[i]) : ~ Unmet(eff, c)
                        /\ \E c \in ConditionsOf(ps[i]) : eff[c.field] = None
  <1>1. i \in {1, 2, 3, 4, 5, 6, 7, 8} /\ i \in DOMAIN ps
    BY ScreenPolicies
  <1>2. \A c \in ConditionsOf(ps[i]) : c.field \in DOMAIN fs
    BY <1>1, ScreenSeen, ScreenConditions DEF Num, Str
  <1> QED
    BY <1>1, <1>2, StatusUnder

LEMMA EnterpriseEscalates ==
  ASSUME RequestOK, company = "higgsfield", workflow = "refund", Has("plan_type", "enterprise")
  PROVE  Decision.kind = "escalate"
  <1>1. PICK fs, ps : fs = HiggsfieldRefundFacts /\ ps = HiggsfieldRefundPolicies
    OBVIOUS
  <1>2. PICK M, U, eff : /\ M = Under(fs)!Matched(ps, Seen(fs))
                         /\ U = Under(fs)!Undeterminable(ps, Seen(fs))
                         /\ eff = Seen(fs)
    OBVIOUS
  <1>3. M \subseteq 1 .. 8 /\ U \subseteq 1 .. 8 /\ DOMAIN ps = 1 .. 8
    BY <1>1, <1>2, ScreenPolicies DEF Under!Matched, Under!Undeterminable
  <1>4. \A i \in 1 .. 8 :
          /\ i \in M <=> \A c \in ConditionsOf(ps[i]) : Met(eff, c)
          /\ i \in U <=> /\ \A c \in ConditionsOf(ps[i]) : ~ Unmet(eff, c)
                         /\ \E c \in ConditionsOf(ps[i]) : eff[c.field] = None
    BY <1>1, <1>2, ScreenStatus
  <1>5. /\ eff["plan_type"] # None /\ eff["plan_type"].value = "enterprise"
    BY <1>1, <1>2, ScreenSeen DEF Has, Given
  <1>6. /\ Met(eff, Str("plan_type", "eq", "enterprise"))
        /\ \A x \in {"annual", "monthly", "api"} :
             /\ ~ Met(eff, Str("plan_type", "eq", x))
             /\ Unmet(eff, Str("plan_type", "eq", x))
    <2>1. \A x : Unmet(eff, Str("plan_type", "eq", x)) <=> ~ Met(eff, Str("plan_type", "eq", x))
      BY <1>5 DEF Met, Unmet, Str
    <2> QED
      BY <1>5, <2>1, ConditionMet, ScreenNormal
  <1>7. \A i \in 3 .. 8 : \E x \in {"annual", "monthly", "api"} :
          Str("plan_type", "eq", x) \in ConditionsOf(ps[i])
    <2>1. \A i \in 3 .. 8 : i \in {3, 4, 5, 6, 7, 8}
      OBVIOUS
    <2> QED
      BY <1>1, <2>1, ScreenConditions
  <1>8. 2 \in M
    BY <1>1, <1>4, <1>6, ScreenConditions
  <1>9. M \subseteq {1, 2}
    BY <1>3, <1>4, <1>6, <1>7
  <1>10. U \subseteq {1, 2}
    BY <1>3, <1>4, <1>6, <1>7
  <1>11. Ordered(ps)
    BY <1>1, ScreenOrdered
  <1>12. \A j \in M : ps[1].id \notin ps[j].overrides /\ ps[2].id \notin ps[j].overrides
    BY <1>1, <1>9, ScreenPolicies
  <1>13. 2 \notin U
    BY <1>1, <1>4, <1>5, ScreenConditions DEF Str
  <1>14. 1 \notin U
    BY <1>1, <1>2, <1>4, ScreenSeen, ScreenConditions DEF Num
  <1>15. U = {}
    BY <1>10, <1>13, <1>14
  <1>16. PICK w \in M : \A j \in M : j # w => specificity(ps[w]) > specificity(ps[j])
    <2>1. specificity(ps[1]) > specificity(ps[2])
      BY <1>1, ScreenConditions
    <2>2. 1 \in M \/ M = {2}
      BY <1>8, <1>9
    <2> QED
      BY <1>9, <2>1, <2>2
  <1>17. w \in {1, 2}
    BY <1>9
  <1>18. Decision.kind = ps[w].kind
    <2>1. /\ RequestOK /\ Ordered(ps) /\ w \in M
          /\ fs = Tenants[company][workflow].facts
          /\ ps = Tenants[company][workflow].policies
      BY <1>1, <1>11, ScreenSeen
    <2>2. /\ M = Under(fs)!Matched(ps, Seen(fs))
          /\ U = Under(fs)!Undeterminable(ps, Seen(fs))
      BY <1>2
    <2>3. \A j \in M : ps[w].id \notin ps[j].overrides
      BY <1>12, <1>17
    <2>4. \A j \in M : j # w =>
            \/ specificity(ps[w]) > specificity(ps[j])
            \/ specificity(ps[w]) = specificity(ps[j]) /\ ps[w].priority > ps[j].priority
      BY <1>16
    <2>5. \A i \in U : ~ ps[i].priority > ps[w].priority
      BY <1>15
    <2> QED
      BY ONLY <2>1, <2>2, <2>3, <2>4, <2>5, DecidedBy
  <1> QED
    BY <1>1, <1>17, <1>18, ScreenPolicies

LEMMA FraudReviewed ==
  ASSUME RequestOK, company = "higgsfield", workflow = "refund",
         AtMost("account_age_days", 6), MoreThan("refund_amount", 200), NothingBoughtBefore
  PROVE  Decision.action = "escalate_to_fraud_review"
  <1>1. PICK fs, ps : fs = HiggsfieldRefundFacts /\ ps = HiggsfieldRefundPolicies
    OBVIOUS
  <1>2. PICK M, U, eff : /\ M = Under(fs)!Matched(ps, Seen(fs))
                         /\ U = Under(fs)!Undeterminable(ps, Seen(fs))
                         /\ eff = Seen(fs)
    OBVIOUS
  <1>3. M \subseteq 1 .. 8 /\ U \subseteq 1 .. 8
    BY <1>1, <1>2, ScreenPolicies DEF Under!Matched, Under!Undeterminable
  <1>4. \A i \in 1 .. 8 : i \in M <=> \A c \in ConditionsOf(ps[i]) : Met(eff, c)
    BY <1>1, <1>2, ScreenStatus
  <1>5. /\ eff["account_age_days"] # None /\ eff["account_age_days"].value \in Int
        /\ eff["account_age_days"].value <= 6
        /\ eff["refund_amount"] # None /\ eff["refund_amount"].value > 200
    BY <1>1, <1>2, ScreenSeen DEF AtMost, MoreThan, Given
  <1>6. eff["days_since_purchase"] # None =>
          /\ eff["days_since_purchase"].value \in Int
          /\ eff["days_since_purchase"].value <= 6
    <2> SUFFICES ASSUME eff["days_since_purchase"] # None
                 PROVE  /\ eff["days_since_purchase"].value \in Int
                        /\ eff["days_since_purchase"].value <= 6
      OBVIOUS
    <2>1. "days_since_purchase" \in DOMAIN request
      BY <1>1, <1>2, ScreenSeen
    <2>2. /\ request["days_since_purchase"].value \in Int
          /\ request["account_age_days"].value \in Int
          /\ request["account_age_days"].value <= 6
      BY <1>1, <2>1, ScreenSeen DEF AtMost, Given
    <2>3. request["days_since_purchase"].value <= request["account_age_days"].value
      BY <2>1 DEF NothingBoughtBefore, Given
    <2>4. eff["days_since_purchase"] = request["days_since_purchase"]
      BY <1>1, <1>2, <2>1, ScreenSeen
    <2> QED
      BY <2>2, <2>3, <2>4
  <1>7. 1 \in M
    <2>1. Met(eff, Num("account_age_days", "lt", 7)) /\ Met(eff, Num("refund_amount", "gt", 200))
      BY <1>5, ConditionMet
    <2> QED
      BY <1>1, <1>4, <2>1, ScreenConditions
  <1>8. 4 \notin M /\ 5 \notin M
    <2>1. ~ Met(eff, Num("days_since_purchase", "gt", 14))
      BY <1>6, ConditionMet
    <2> QED
      BY <1>1, <1>4, <2>1, ScreenConditions
  <1>9. \A j \in M : j \in {1, 2, 3, 6, 7, 8}
    BY <1>3, <1>8
  <1>10. \A i \in U : i \in {1, 2, 3, 4, 5, 6, 7, 8}
    BY <1>3
  <1>11. Decision.action = ps[1].action
    <2>1. /\ RequestOK /\ Ordered(ps) /\ 1 \in M
          /\ fs = Tenants[company][workflow].facts
          /\ ps = Tenants[company][workflow].policies
      BY <1>1, <1>7, ScreenOrdered, ScreenSeen
    <2>2. /\ M = Under(fs)!Matched(ps, Seen(fs))
          /\ U = Under(fs)!Undeterminable(ps, Seen(fs))
      BY <1>2
    <2>3. \A j \in M : ps[1].id \notin ps[j].overrides
      BY <1>1, <1>9, ScreenPolicies
    <2>4. \A j \in M : j # 1 =>
            \/ specificity(ps[1]) > specificity(ps[j])
            \/ specificity(ps[1]) = specificity(ps[j]) /\ ps[1].priority > ps[j].priority
      <3>1. specificity(ps[1]) > specificity(ps[2])
        BY <1>1, ScreenConditions
      <3>2. \A j \in {3, 6, 7, 8} : specificity(ps[1]) = specificity(ps[j])
        BY <1>1, ScreenConditions
      <3>3. \A j \in {3, 6, 7, 8} : ps[1].priority > ps[j].priority
        BY <1>1, ScreenPolicies
      <3> QED
        BY <1>9, <3>1, <3>2, <3>3
    <2>5. \A i \in U : ~ ps[i].priority > ps[1].priority
      BY <1>1, <1>10, ScreenPolicies
    <2> QED
      BY ONLY <2>1, <2>2, <2>3, <2>4, <2>5, DecidedBy
  <1> QED
    BY <1>1, <1>11, ScreenPolicies

-----------------------------------------------------------------------------
(* The ladder. *)

LEMMA LadderPolicies ==
  ASSUME NEW ps, ps = ExpensePolicies
  PROVE  /\ Len(ps) = 5 /\ DOMAIN ps = 1 .. 5
         /\ ps[1].priority = 100 /\ ps[2].priority = 70 /\ ps[3].priority = 70
         /\ ps[4].priority = 70 /\ ps[5].priority = 80
         /\ ps[2].action = "approve_by_manager"
         /\ ps[3].action = "route_to_department_head"
         /\ ps[4].action = "require_cfo_approval"
         /\ ps[5].action = "require_cfo_and_ceo_approval"
         /\ \A i \in {1, 2, 3, 4, 5} : ps[i].overrides = {}
         /\ ps[1].id = "expense.new_saas_cfo"
         /\ ps[2].id = "expense.manager_under_500"
         /\ ps[3].id = "expense.dept_head_500_to_2500"
         /\ ps[4].id = "expense.cfo_2500_to_10000"
         /\ ps[5].id = "expense.cfo_ceo_above_10000"
  BY DEF ExpensePolicies, CfoRung, Policy

LEMMA LadderConditions ==
  ASSUME NEW ps, ps = ExpensePolicies
  PROVE  /\ ConditionsOf(ps[1]) = {NewSaas}
         /\ ConditionsOf(ps[2]) = {Num("amount", "lt", 500)}
         /\ ConditionsOf(ps[3]) = {Num("amount", "gte", 500), Num("amount", "lte", 2500)}
         /\ ConditionsOf(ps[4]) = {Num("amount", "gt", 2500), Num("amount", "lte", 10000)}
         /\ ConditionsOf(ps[5]) = {Num("amount", "gt", 10000)}
         /\ \A i \in {1, 2, 3, 4, 5} : IsList(ps[i].conditions)
  <1>1. /\ ps[1].conditions = <<NewSaas>>
        /\ ps[2].conditions = <<Num("amount", "lt", 500)>>
        /\ ps[3].conditions = <<Num("amount", "gte", 500), Num("amount", "lte", 2500)>>
        /\ ps[4].conditions = <<Num("amount", "gt", 2500), Num("amount", "lte", 10000)>>
        /\ ps[5].conditions = <<Num("amount", "gt", 10000)>>
    BY DEF ExpensePolicies, CfoRung, Policy
  <1> QED
    BY <1>1, ListOf

LEMMA LadderOrdered ==
  ASSUME NEW ps, ps = ExpensePolicies
  PROVE  Ordered(ps)
  <1>1. \A i \in DOMAIN ps : i \in {1, 2, 3, 4, 5}
    BY LadderPolicies
  <1>2. IsList(ps)
    BY LadderPolicies DEF IsList
  <1>3. \A i \in DOMAIN ps : ps[i].priority \in 0 .. 1000
    BY <1>1, LadderPolicies
  <1>4. \A i \in DOMAIN ps : IsList(ps[i].conditions)
    BY <1>1, LadderConditions
  <1>5. \A i, j \in DOMAIN ps : ps[i].id = ps[j].id => i = j
    BY <1>1, LadderPolicies
  <1>6. AcyclicOverrides(ps)
    <2>1. [i \in 1 .. 5 |-> 1] \in [DOMAIN ps -> 1 .. Len(ps)]
      BY LadderPolicies
    <2>2. \A i, j \in DOMAIN ps : ps[j].id \notin ps[i].overrides
      BY <1>1, LadderPolicies
    <2> QED
      BY <2>1, <2>2 DEF AcyclicOverrides
  <1> QED
    BY <1>2, <1>3, <1>4, <1>5, <1>6 DEF Ordered

LEMMA LadderSeen ==
  ASSUME RequestOK, company = "higgsfield", workflow = "expense",
         Given("amount"), ~ Has("is_new_saas", TRUE),
         NEW fs, fs = ExpenseFacts
  PROVE  /\ fs = Tenants[company][workflow].facts
         /\ ExpensePolicies = Tenants[company][workflow].policies
         /\ DOMAIN fs = {"amount", "is_new_saas"}
         /\ Seen(fs)["amount"] = request["amount"] /\ request["amount"] # None
         /\ request["amount"].value \in Int
         /\ Seen(fs)["is_new_saas"] # None /\ Seen(fs)["is_new_saas"].value = FALSE
  <1>1. /\ fs = Tenants[company][workflow].facts
        /\ ExpensePolicies = Tenants[company][workflow].policies
    BY DEF Tenants, HiggsfieldBundle, Workflow
  <1>2. /\ DOMAIN fs = {"amount", "is_new_saas"}
        /\ fs["amount"].value_type = "number" /\ fs["is_new_saas"].value_type = "boolean"
        /\ fs["is_new_saas"].default = Flag(FALSE)
    BY DEF ExpenseFacts, Required, Defaults, Flag
  <1>3. \A n \in DOMAIN request : n \in DOMAIN fs /\ Typed(request[n], fs[n].value_type)
    BY <1>1 DEF RequestOK
  <1>4. /\ Seen(fs)["amount"] = request["amount"] /\ request["amount"] # None
        /\ request["amount"].value \in Int
    BY <1>2, <1>3 DEF Seen, Given, Typed
  <1>5. Seen(fs)["is_new_saas"] # None /\ Seen(fs)["is_new_saas"].value = FALSE
    <2>1. CASE "is_new_saas" \in DOMAIN request
      <3>1. /\ request["is_new_saas"] # None /\ request["is_new_saas"].value \in BOOLEAN
            /\ request["is_new_saas"].value # TRUE
        BY <1>2, <1>3, <2>1 DEF Typed, Has, Given
      <3>2. Seen(fs)["is_new_saas"] = request["is_new_saas"]
        BY <1>2, <2>1 DEF Seen
      <3> QED
        BY <3>1, <3>2
    <2>2. CASE "is_new_saas" \notin DOMAIN request
      <3>1. Seen(fs)["is_new_saas"] = Flag(FALSE)
        BY <1>2, <2>2 DEF Seen
      <3> QED
        BY <3>1, ReferenceAssumptions DEF Flag
    <2> QED
      BY <2>1, <2>2
  <1> QED
    BY <1>1, <1>2, <1>4, <1>5

LEMMA Rungs ==
  ASSUME NEW x \in Int
  PROVE  /\ x < 500 => Rung(x) = "approve_by_manager"
         /\ x >= 500 /\ x <= 2500 => Rung(x) = "route_to_department_head"
         /\ x > 2500 /\ x <= 10000 => Rung(x) = "require_cfo_approval"
         /\ x > 10000 => Rung(x) = "require_cfo_and_ceo_approval"
  <1>1. ASSUME x < 500 PROVE Rung(x) = "approve_by_manager"
    <2>1. ~ (x >= 500 /\ x <= 2500) /\ ~ (x > 2500 /\ x <= 10000) /\ ~ x > 10000
      BY <1>1
    <2> QED
      BY <1>1, <2>1 DEF Rung
  <1>2. ASSUME x >= 500, x <= 2500 PROVE Rung(x) = "route_to_department_head"
    <2>1. x >= 500 /\ x <= 2500 /\ ~ x < 500 /\ ~ (x > 2500 /\ x <= 10000) /\ ~ x > 10000
      BY <1>2
    <2> QED
      BY <2>1 DEF Rung
  <1>3. ASSUME x > 2500, x <= 10000 PROVE Rung(x) = "require_cfo_approval"
    <2>1. x > 2500 /\ x <= 10000 /\ ~ x < 500 /\ ~ (x >= 500 /\ x <= 2500) /\ ~ x > 10000
      BY <1>3
    <2> QED
      BY <2>1 DEF Rung
  <1>4. ASSUME x > 10000 PROVE Rung(x) = "require_cfo_and_ceo_approval"
    <2>1. x > 10000 /\ ~ x < 500 /\ ~ (x >= 500 /\ x <= 2500) /\ ~ (x > 2500 /\ x <= 10000)
      BY <1>4
    <2> QED
      BY <2>1 DEF Rung
  <1> QED
    BY <1>1, <1>2, <1>3, <1>4

LEMMA RungTaken ==
  ASSUME RequestOK, company = "higgsfield", workflow = "expense",
         Given("amount"), ~ Has("is_new_saas", TRUE)
  PROVE  Decision.action = Rung(request.amount.value)
  <1>1. PICK fs, ps : fs = ExpenseFacts /\ ps = ExpensePolicies
    OBVIOUS
  <1>2. PICK M, U, eff, x : /\ M = Under(fs)!Matched(ps, Seen(fs))
                            /\ U = Under(fs)!Undeterminable(ps, Seen(fs))
                            /\ eff = Seen(fs)
                            /\ x = request["amount"].value
    OBVIOUS
  <1>3. /\ x \in Int /\ eff["amount"] # None /\ eff["amount"].value = x
        /\ eff["is_new_saas"] # None /\ eff["is_new_saas"].value = FALSE
        /\ DOMAIN fs = {"amount", "is_new_saas"}
    BY <1>1, <1>2, LadderSeen
  <1>4. \A i \in 1 .. 5 : i \in {1, 2, 3, 4, 5}
    OBVIOUS
  <1>5. \A i \in 1 .. 5 : \A c \in ConditionsOf(ps[i]) : c.field \in DOMAIN fs
    BY <1>1, <1>3, <1>4, LadderConditions DEF Num, NewSaas, Truth
  <1>6. \A i \in 1 .. 5 :
          /\ i \in M <=> \A c \in ConditionsOf(ps[i]) : Met(eff, c)
          /\ i \in U => \E c \in ConditionsOf(ps[i]) : eff[c.field] = None
    BY <1>1, <1>2, <1>5, StatusUnder, LadderPolicies
  <1>7. M \subseteq 1 .. 5 /\ U \subseteq 1 .. 5
    BY <1>1, <1>2, LadderPolicies DEF Under!Matched, Under!Undeterminable
  <1>8. U = {}
    BY <1>3, <1>5, <1>6, <1>7
  <1>9. 1 \notin M
    <2>1. ~ Met(eff, NewSaas)
      BY <1>3 DEF NewSaas, Met, Truth, Compare
    <2> QED
      BY <1>1, <1>6, <2>1, LadderConditions
  <1>10. 2 \in M <=> x < 500
    <2>1. Met(eff, Num("amount", "lt", 500)) <=> x < 500
      BY <1>3, ConditionMet
    <2> QED
      BY <1>1, <1>6, <2>1, LadderConditions
  <1>11. 3 \in M <=> x >= 500 /\ x <= 2500
    <2>1. /\ Met(eff, Num("amount", "gte", 500)) <=> x >= 500
          /\ Met(eff, Num("amount", "lte", 2500)) <=> x <= 2500
      BY <1>3, ConditionMet
    <2> QED
      BY <1>1, <1>6, <2>1, LadderConditions
  <1>12. 4 \in M <=> x > 2500 /\ x <= 10000
    <2>1. /\ Met(eff, Num("amount", "gt", 2500)) <=> x > 2500
          /\ Met(eff, Num("amount", "lte", 10000)) <=> x <= 10000
      BY <1>3, ConditionMet
    <2> QED
      BY <1>1, <1>6, <2>1, LadderConditions
  <1>13. 5 \in M <=> x > 10000
    <2>1. Met(eff, Num("amount", "gt", 10000)) <=> x > 10000
      BY <1>3, ConditionMet
    <2> QED
      BY <1>1, <1>6, <2>1, LadderConditions
  <1>14. PICK w : w \in {2, 3, 4, 5} /\ M = {w}
    <2>1. \E w \in {2, 3, 4, 5} : M = {w}
      BY <1>3, <1>7, <1>9, <1>10, <1>11, <1>12, <1>13
    <2> QED
      BY <2>1
  <1>15. Decision.kind = ps[w].kind /\ Decision.action = ps[w].action
    <2>1. /\ RequestOK /\ Ordered(ps) /\ w \in M
          /\ fs = Tenants[company][workflow].facts
          /\ ps = Tenants[company][workflow].policies
      BY <1>1, <1>14, LadderOrdered, LadderSeen
    <2>2. /\ M = Under(fs)!Matched(ps, Seen(fs))
          /\ U = Under(fs)!Undeterminable(ps, Seen(fs))
      BY <1>2
    <2>3. \A j \in M : ps[w].id \notin ps[j].overrides
      BY <1>1, <1>14, LadderPolicies
    <2>4. \A j \in M : j # w =>
            \/ specificity(ps[w]) > specificity(ps[j])
            \/ specificity(ps[w]) = specificity(ps[j]) /\ ps[w].priority > ps[j].priority
      BY <1>14
    <2>5. \A i \in U : ~ ps[i].priority > ps[w].priority
      BY <1>8
    <2> QED
      BY ONLY <2>1, <2>2, <2>3, <2>4, <2>5, DecidedBy
  <1>16. ps[w].action = Rung(x)
    BY <1>1, <1>3, <1>10, <1>11, <1>12, <1>13, <1>14, Rungs, LadderPolicies
  <1> QED
    BY <1>2, <1>15, <1>16

(* What Higgsfield's seed gates stays gated for every request, whatever    *)
(* the requester supplies: the ladder decides every amount, and no refund  *)
(* of an enterprise or of a young account escapes its screen.              *)
THEOREM GatesAlwaysHold == TenantSpec => []HiggsfieldGates
  <1>1. RequestOK => HiggsfieldGates
    BY EnterpriseEscalates, FraudReviewed, RungTaken
       DEF HiggsfieldGates, FraudScreened, LadderComplete, Asked
  <1> QED
    BY <1>1, RequestInvariance, PTL

-----------------------------------------------------------------------------
(* What the counts of a replay tell. *)

LEMMA CountsOfPositions ==
  ASSUME NEW s, IsList(s), NEW T, T \subseteq DOMAIN s
  PROVE  /\ IsFiniteSet(T) /\ Cardinality(T) \in Nat
         /\ Cardinality(T) = 0 <=> T = {}
         /\ Cardinality(DOMAIN s) = Len(s)
  <1>1. DOMAIN s = 1 .. Len(s) /\ Len(s) \in Nat
    BY DEF IsList
  <1>2. IsFiniteSet(1 .. Len(s))
    BY <1>1, FS_Interval
  <1>3. Cardinality(1 .. Len(s)) = IF 1 > Len(s) THEN 0 ELSE Len(s) - 1 + 1
    BY <1>1, FS_Interval
  <1>4. IsFiniteSet(T)
    BY <1>1, <1>2, FS_Subset
  <1>5. Cardinality(T) \in Nat
    BY <1>4, FS_CardinalityType
  <1>6. Cardinality(T) = 0 <=> T = {}
    BY <1>4, FS_EmptySet
  <1>7. Cardinality(DOMAIN s) = Len(s)
    BY <1>1, <1>3
  <1> QED
    BY <1>4, <1>5, <1>6, <1>7

LEMMA DisjointCounts ==
  ASSUME NEW S, NEW T, IsFiniteSet(S), IsFiniteSet(T), S \cap T = {}
  PROVE  Cardinality(S \cup T) = Cardinality(S) + Cardinality(T)
  <1>1. Cardinality(S \cup T) = Cardinality(S) + Cardinality(T) - Cardinality(S \cap T)
    BY FS_Union
  <1>2. Cardinality(S \cap T) = 0
    BY FS_EmptySet
  <1>3. Cardinality(S) \in Nat
    BY FS_CardinalityType
  <1>4. Cardinality(T) \in Nat
    BY FS_CardinalityType
  <1> QED
    BY <1>1, <1>2, <1>3, <1>4

(* The summary of a replay leaves no case out and counts none twice: every *)
(* case passed, failed or had an error, only a case that had none flips,   *)
(* and only a flip is a new escalation.                                    *)
THEOREM SummaryAddsUp ==
  ASSUME NEW draft, NEW reference, NEW list, IsList(list)
  PROVE  LET sum == Summary(draft, reference, list) IN
           /\ sum.golden_passed + sum.golden_failed + sum.errors = sum.total
           /\ sum.flips + sum.errors <= sum.total
           /\ sum.new_escalations <= sum.flips
  <1> DEFINE result == [i \in DOMAIN list |-> CaseResult(draft, reference, list[i])]
             Passed  == {i \in DOMAIN list : result[i].golden_pass}
             Failed  == {i \in DOMAIN list : ~ result[i].error /\ ~ result[i].golden_pass}
             Erred   == {i \in DOMAIN list : result[i].error}
             Flips   == {i \in DOMAIN list : result[i].flipped}
             News    == {i \in DOMAIN list : result[i].new_escalation}
             sum     == Summary(draft, reference, list)
  <1>1. /\ sum.total = Len(list)
        /\ sum.golden_passed = Cardinality(Passed)
        /\ sum.golden_failed = Cardinality(Failed)
        /\ sum.errors = Cardinality(Erred)
        /\ sum.flips = Cardinality(Flips)
        /\ sum.new_escalations = Cardinality(News)
    BY DEF Summary
  <1>2. ASSUME NEW i \in DOMAIN list
        PROVE  /\ result[i].golden_pass => ~ result[i].error
               /\ result[i].flipped => ~ result[i].error
               /\ result[i].new_escalation => result[i].flipped
    BY DEF CaseResult
  <1> HIDE DEF result, sum
  <1>3. /\ Passed \cap Failed = {} /\ (Passed \cup Failed) \cap Erred = {}
        /\ (Passed \cup Failed) \cup Erred = DOMAIN list
    BY <1>2
  <1>4. Flips \cap Erred = {} /\ Flips \cup Erred \in SUBSET DOMAIN list /\ News \in SUBSET Flips
    BY <1>2
  <1>5. /\ Passed \subseteq DOMAIN list /\ Failed \subseteq DOMAIN list
        /\ Erred \subseteq DOMAIN list /\ Flips \subseteq DOMAIN list
        /\ Passed \cup Failed \subseteq DOMAIN list
    OBVIOUS
  <1> HIDE DEF Passed, Failed, Erred, Flips, News
  <1>6. /\ IsFiniteSet(Passed) /\ IsFiniteSet(Failed) /\ IsFiniteSet(Erred) /\ IsFiniteSet(Flips)
        /\ IsFiniteSet(Passed \cup Failed)
    BY <1>5, CountsOfPositions
  <1>7. Cardinality(Passed \cup Failed) = Cardinality(Passed) + Cardinality(Failed)
    BY <1>3, <1>6, DisjointCounts
  <1>8. Cardinality((Passed \cup Failed) \cup Erred) = Cardinality(Passed \cup Failed) + Cardinality(Erred)
    BY <1>3, <1>6, DisjointCounts
  <1>9. Cardinality(DOMAIN list) = Len(list)
    BY <1>5, CountsOfPositions
  <1>10. Cardinality(Flips \cup Erred) = Cardinality(Flips) + Cardinality(Erred)
    BY <1>4, <1>6, DisjointCounts
  <1>11. Cardinality(Flips \cup Erred) <= Cardinality(DOMAIN list)
    <2>1. IsFiniteSet(DOMAIN list)
      BY CountsOfPositions
    <2> QED
      BY <1>4, <2>1, FS_Subset
  <1>12. Cardinality(News) <= Cardinality(Flips)
    BY <1>4, <1>6, FS_Subset
  <1>13. sum.golden_passed + sum.golden_failed + sum.errors = sum.total
    BY <1>1, <1>3, <1>7, <1>8, <1>9
  <1>14. sum.flips + sum.errors <= sum.total
    BY <1>1, <1>9, <1>10, <1>11
  <1>15. sum.new_escalations <= sum.flips
    BY <1>1, <1>12
  <1> QED
    BY <1>13, <1>14, <1>15 DEF sum

(* A clean summary is what it is read as, by the owner who acknowledges it *)
(* and by the bootstrap that publishes on it: without failures and errors, *)
(* every case is decided as it expects; without flips and errors, it is    *)
(* decided as it is live, with the same kind and the same action, wherever *)
(* the live bundle has an answer.                                          *)
THEOREM CleanSummaryMeansIt ==
  ASSUME NEW draft, NEW reference, NEW list, IsList(list),
         Summary(draft, reference, list).errors = 0
  PROVE  LET sum     == Summary(draft, reference, list)
             mine(i) == Decide(draft, list[i].workflow, list[i].facts)
             live(i) == Decide(reference, list[i].workflow, list[i].facts)
         IN  /\ sum.golden_failed = 0 =>
                  \A i \in DOMAIN list : GoldenPass(mine(i), list[i].expected)
             /\ sum.flips = 0 /\ reference # None =>
                  \A i \in DOMAIN list :
                    ~ Errs(live(i)) => mine(i).kind = live(i).kind /\ mine(i).action = live(i).action
  <1> DEFINE result  == [i \in DOMAIN list |-> CaseResult(draft, reference, list[i])]
             Failed  == {i \in DOMAIN list : ~ result[i].error /\ ~ result[i].golden_pass}
             Erred   == {i \in DOMAIN list : result[i].error}
             Flips   == {i \in DOMAIN list : result[i].flipped}
             sum     == Summary(draft, reference, list)
             mine(i) == Decide(draft, list[i].workflow, list[i].facts)
             live(i) == Decide(reference, list[i].workflow, list[i].facts)
  <1>1. /\ sum.golden_failed = Cardinality(Failed)
        /\ sum.errors = Cardinality(Erred)
        /\ sum.flips = Cardinality(Flips)
    BY DEF Summary
  <1>2. ASSUME NEW i \in DOMAIN list
        PROVE  /\ result[i].error <=> Errs(mine(i))
               /\ result[i].golden_pass <=> ~ Errs(mine(i)) /\ GoldenPass(mine(i), list[i].expected)
               /\ result[i].flipped <=>
                    ~ Errs(mine(i)) /\ reference # None /\ Flipped(mine(i), live(i))
    BY DEF CaseResult
  <1>3. Failed \subseteq DOMAIN list /\ Erred \subseteq DOMAIN list /\ Flips \subseteq DOMAIN list
    OBVIOUS
  <1> HIDE DEF result, mine, live
  <1>4. Erred = {}
    <2> HIDE DEF Erred, Failed, Flips
    <2> QED
      BY <1>1, <1>3, CountsOfPositions
  <1>5. \A i \in DOMAIN list : ~ Errs(mine(i))
    BY <1>2, <1>4
  <1>6. ASSUME sum.golden_failed = 0, NEW i \in DOMAIN list
        PROVE  GoldenPass(mine(i), list[i].expected)
    <2>1. Failed = {}
      <3> HIDE DEF Erred, Failed, Flips
      <3> QED
        BY <1>1, <1>3, <1>6, CountsOfPositions
    <2> QED
      BY <1>2, <1>5, <2>1
  <1>7. ASSUME sum.flips = 0, reference # None, NEW i \in DOMAIN list, ~ Errs(live(i))
        PROVE  mine(i).kind = live(i).kind /\ mine(i).action = live(i).action
    <2>1. Flips = {}
      <3> HIDE DEF Erred, Failed, Flips
      <3> QED
        BY <1>1, <1>3, <1>7, CountsOfPositions
    <2>2. ~ Flipped(mine(i), live(i))
      BY <1>2, <1>5, <1>7, <2>1
    <2> QED
      BY <1>7, <2>2 DEF Flipped
  <1>8. sum.golden_failed = 0 => \A i \in DOMAIN list : GoldenPass(mine(i), list[i].expected)
    BY ONLY <1>6
  <1>9. sum.flips = 0 /\ reference # None =>
          \A i \in DOMAIN list :
            ~ Errs(live(i)) => mine(i).kind = live(i).kind /\ mine(i).action = live(i).action
    BY ONLY <1>7
  <1> QED
    BY ONLY <1>8, <1>9, Zenon DEF mine, live, sum
=============================================================================
