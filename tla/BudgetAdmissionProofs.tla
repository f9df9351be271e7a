------------------------- MODULE BudgetAdmissionProofs -------------------------
(***************************************************************************)
(* The reservation for every number of triggers and every cap, ceiling and *)
(* price of a turn: what is reserved is what is granted, and the runs that *)
(* reserve pass a cap by less than a turn each, whatever runs started by   *)
(* hand, chats and judges spend beside them.                               *)
(*                                                                         *)
(* Sums over the triggers are cardinalities (Total), so that what one      *)
(* trigger's step does to them follows from facts about finite sets.       *)
(***************************************************************************)
EXTENDS BudgetAdmission, FiniteSetTheorems, TLAPS

Granted == [x \in Tasks |-> task[x].grant]

\* What a run has spent that a period will be charged for, and what it may
\* still be charged at the most.
Ub(r, periods) == IF r.st = "running" /\ r.when \in periods THEN r.spent ELSE 0
Mc(r, periods) == IF \/ r.st = "admitted"
                     \/ r.st = "running" /\ r.when \in periods
                  THEN r.grant + (MaxTurn - 1) ELSE 0

MayCost(periods) == [x \in Tasks |-> Mc(task[x], periods)]

\* A task that holds nothing and a run started by hand have no grant; a run that
\* reserved is past its grant by less than
\* one turn.
TaskOK(r) ==
    /\ r.st \in {"idle", "due", "interrupted", "manual", "manual_running"} => r.grant = 0
    /\ r.st \in {"idle", "due", "interrupted", "admitted", "manual"} => r.spent = 0
    /\ r.st = "running" => r.spent <= r.grant + (MaxTurn - 1)

Calls == [st : {"none", "allowed", "booked"}, amount : Nat, when : Periods]

Slack == Cardinality(Tasks) * (MaxTurn - 1)

\* The account of a period: what the runs that reserve booked is part of the recorded
\* spend, and with what the others may still cost it stays near the cap.
Account(recorded, cap, spent, gone, periods) ==
    LET booked == spent - gone - Total(Unbooked(periods))
    IN  /\ booked <= recorded
        /\ booked + Total(MayCost(periods)) <= cap + Slack

BudgetInv ==
    /\ TypeOK
    /\ \A x \in Tasks : TaskOK(task[x])
    /\ ReservedIsGranted
    /\ reserved <= DailyCap /\ reserved <= MonthlyCap
    /\ Account(today, DailyCap, bg.day, lost.day, {"today"})
    /\ Account(month, MonthlyCap, bg.month, lost.month, {"today", "month"})

-----------------------------------------------------------------------------
(* Totals.                                                                  *)

Units(f) == UNION {{x} \X (1 .. f[x]) : x \in Tasks}

\* The units of a task that has f[x] of them.
LEMMA UnitsOf ==
    ASSUME NEW f \in [Tasks -> Nat], NEW u
    PROVE  u \in Units(f) <=> \E x \in Tasks, i \in Nat : /\ u = <<x, i>>
                                                          /\ 1 <= i /\ i <= f[x]
<1>1. ASSUME u \in Units(f)
      PROVE  \E x \in Tasks, i \in Nat : u = <<x, i>> /\ 1 <= i /\ i <= f[x]
  <2>1. PICK x \in Tasks : u \in {x} \X (1 .. f[x])
    BY <1>1 DEF Units
  <2>2. PICK i \in 1 .. f[x] : u = <<x, i>>
    BY <2>1
  <2>3. f[x] \in Nat
    OBVIOUS
  <2>4. i \in Nat /\ 1 <= i /\ i <= f[x]
    BY <2>2, <2>3
  <2> QED
    BY <2>2, <2>4
<1>2. ASSUME NEW x \in Tasks, NEW i \in Nat, u = <<x, i>>, 1 <= i, i <= f[x]
      PROVE  u \in Units(f)
  <2>1. f[x] \in Nat
    OBVIOUS
  <2>2. i \in 1 .. f[x]
    BY <1>2, <2>1
  <2>3. u \in {x} \X (1 .. f[x])
    BY <1>2, <2>2
  <2> QED
    BY <2>3 DEF Units
<1> QED
  BY <1>1, <1>2

\* One task's units are as many as its amount.
LEMMA ColumnSize ==
    ASSUME NEW x, NEW n \in Nat
    PROVE  IsFiniteSet({x} \X (1 .. n)) /\ Cardinality({x} \X (1 .. n)) = n
<1>1. IsFiniteSet({x}) /\ Cardinality({x}) = 1
  BY FS_Singleton
<1>2. IsFiniteSet(1 .. n) /\ Cardinality(1 .. n) = n
  BY FS_Interval
<1>3. /\ IsFiniteSet({x} \X (1 .. n))
      /\ Cardinality({x} \X (1 .. n)) = Cardinality({x}) * Cardinality(1 .. n)
  BY <1>1, <1>2, FS_Product
<1> QED
  BY <1>1, <1>2, <1>3

\* There are finitely many units, because there are finitely many triggers.
LEMMA UnitsFinite ==
    ASSUME NEW f \in [Tasks -> Nat]
    PROVE  IsFiniteSet(Units(f)) /\ Total(f) = Cardinality(Units(f)) /\ Total(f) \in Nat
<1> DEFINE col == [x \in Tasks |-> {x} \X (1 .. f[x])]
           S == {{x} \X (1 .. f[x]) : x \in Tasks}
<1>1. col \in Surjection(Tasks, S)
  BY DEF Surjection
<1>2. IsFiniteSet(S)
  BY <1>1, BudgetAssumption, FS_Surjection
<1>3. ASSUME NEW T \in S PROVE IsFiniteSet(T)
  <2>1. PICK x \in Tasks : T = {x} \X (1 .. f[x])
    BY <1>3
  <2>2. f[x] \in Nat
    OBVIOUS
  <2> QED
    BY <2>1, <2>2, ColumnSize
<1>4. IsFiniteSet(UNION S)
  BY <1>2, <1>3, FS_UNION
<1> QED
  BY <1>4, FS_CardinalityType DEF Units, Total

\* One task's amount changes: the total changes by as much.
LEMMA TotalUpdate ==
    ASSUME NEW f \in [Tasks -> Nat], NEW g \in [Tasks -> Nat], NEW x \in Tasks,
           \A y \in Tasks \ {x} : g[y] = f[y]
    PROVE  Total(g) = Total(f) - f[x] + g[x] /\ Total(f) >= f[x]
<1> DEFINE n == g[x]
           X == {x} \X (1 .. f[x])
           Y == {x} \X (1 .. n)
           R == Units(f) \ X
<1>1. g[x] = n /\ \A y \in Tasks \ {x} : g[y] = f[y]
  OBVIOUS
<1>2. f[x] \in Nat /\ n \in Nat
  OBVIOUS
<1>a. ASSUME NEW m \in Nat, NEW u
      PROVE  u \in {x} \X (1 .. m) <=> \E i \in Nat : u = <<x, i>> /\ 1 <= i /\ i <= m
  OBVIOUS
<1> HIDE DEF n
<1>3. X \subseteq Units(f)
  BY <1>2, <1>a, UnitsOf
<1>4. \A u \in R : \E y \in Tasks \ {x}, i \in Nat : u = <<y, i>> /\ 1 <= i /\ i <= f[y]
  BY <1>2, <1>a, UnitsOf
<1>5. R \cap Y = {}
  BY <1>4
<1>6. Units(g) = R \cup Y
  <2>1. ASSUME NEW u \in Units(g) PROVE u \in R \cup Y
    <3>1. PICK y \in Tasks, i \in Nat : u = <<y, i>> /\ 1 <= i /\ i <= g[y]
      BY <1>1, <2>1, UnitsOf
    <3>2. CASE y = x
      BY <1>1, <1>a, <3>1, <3>2
    <3>3. CASE y # x
      <4>1. u \in Units(f)
        BY <1>1, <3>1, <3>3, UnitsOf
      <4>2. u \notin X
        BY <3>1, <3>3
      <4> QED
        BY <4>1, <4>2
    <3> QED
      BY <3>2, <3>3
  <2>2. ASSUME NEW u \in R PROVE u \in Units(g)
    BY <1>1, <1>4, <2>2, UnitsOf
  <2>3. ASSUME NEW u \in Y PROVE u \in Units(g)
    BY <1>1, <1>a, <2>3, UnitsOf
  <2> QED
    BY <2>1, <2>2, <2>3
<1>7. /\ IsFiniteSet(X) /\ Cardinality(X) = f[x]
      /\ IsFiniteSet(Y) /\ Cardinality(Y) = n
  BY <1>2, ColumnSize
<1>8. /\ IsFiniteSet(Units(f)) /\ Total(f) = Cardinality(Units(f)) /\ Total(f) \in Nat
      /\ Total(g) = Cardinality(Units(g))
  BY <1>1, UnitsFinite
<1>9. Units(f) \cap X = X
  BY <1>3
<1> HIDE DEF X, Y
<1>b. IsFiniteSet(R) /\ Cardinality(R) = Cardinality(Units(f)) - Cardinality(Units(f) \cap X)
  BY <1>8, FS_Difference
<1>c. Cardinality(R) \in Nat
  BY <1>b, FS_CardinalityType
<1>10. IsFiniteSet(R) /\ Cardinality(R) = Total(f) - f[x] /\ Cardinality(R) \in Nat
  BY <1>7, <1>8, <1>9, <1>b, <1>c
<1> HIDE DEF R
<1>11. Cardinality(R \cup Y) = Cardinality(R) + Cardinality(Y) - Cardinality(R \cap Y)
  BY <1>7, <1>10, FS_Union
<1>12. Cardinality(R \cap Y) = 0
  BY <1>5, FS_EmptySet
<1>13. Total(g) = Total(f) - f[x] + n /\ Total(f) >= f[x]
  BY <1>2, <1>6, <1>7, <1>8, <1>10, <1>11, <1>12
<1> QED
  BY <1>1, <1>13

\* Nobody has anything: nothing together.
LEMMA TotalZero ==
    ASSUME NEW f \in [Tasks -> Nat], \A x \in Tasks : f[x] = 0
    PROVE  Total(f) = 0
<1>1. Units(f) = {}
  BY UnitsOf
<1> QED
  BY <1>1, UnitsFinite, FS_EmptySet

\* Everybody has at most k more: so much more together, at most.
LEMMA TotalBound ==
    ASSUME NEW f \in [Tasks -> Nat], NEW g \in [Tasks -> Nat], NEW k \in Nat,
           \A x \in Tasks : f[x] <= g[x] + k
    PROVE  Total(f) <= Total(g) + Cardinality(Tasks) * k
<1> DEFINE D == Tasks \X (1 .. k)
           h == [u \in D |-> <<u[1], g[u[1]] + u[2]>>]
           E == {h[u] : u \in D}
<1>1. IsFiniteSet(D) /\ Cardinality(D) = Cardinality(Tasks) * k
  <2>1. IsFiniteSet(1 .. k) /\ Cardinality(1 .. k) = k
    BY FS_Interval
  <2> QED
    BY <2>1, BudgetAssumption, FS_Product
<1>2. h \in Surjection(D, E)
  BY DEF Surjection
<1>3. IsFiniteSet(E) /\ Cardinality(E) <= Cardinality(D)
  BY <1>1, <1>2, FS_Surjection
<1>4. Units(f) \subseteq Units(g) \cup E
  <2> SUFFICES ASSUME NEW u \in Units(f), u \notin Units(g) PROVE u \in E
    OBVIOUS
  <2>1. PICK x \in Tasks, i \in Nat : u = <<x, i>> /\ 1 <= i /\ i <= f[x]
    BY UnitsOf
  <2>2. g[x] \in Nat /\ f[x] \in Nat /\ f[x] <= g[x] + k
    OBVIOUS
  <2>3. ~(i <= g[x])
    BY <2>1, UnitsOf
  <2>4. i - g[x] \in 1 .. k /\ g[x] + (i - g[x]) = i
    BY <2>1, <2>2, <2>3
  <2>5. <<x, i - g[x]>> \in D
    BY <2>4
  <2>6. h[<<x, i - g[x]>>] = <<x, i>>
    BY <2>4, <2>5
  <2> QED
    BY <2>1, <2>5, <2>6
<1>5. /\ IsFiniteSet(Units(f)) /\ Total(f) = Cardinality(Units(f)) /\ Total(f) \in Nat
      /\ IsFiniteSet(Units(g)) /\ Total(g) = Cardinality(Units(g)) /\ Total(g) \in Nat
  BY UnitsFinite
<1> HIDE DEF D, E
<1>6. /\ IsFiniteSet(Units(g) \cup E)
      /\ Cardinality(Units(g) \cup E)
            = Cardinality(Units(g)) + Cardinality(E) - Cardinality(Units(g) \cap E)
  BY <1>3, <1>5, FS_Union
<1>7. Cardinality(Units(f)) <= Cardinality(Units(g) \cup E)
  BY <1>4, <1>6, FS_Subset
<1>8. /\ Cardinality(E) \in Nat /\ Cardinality(D) \in Nat
      /\ IsFiniteSet(Units(g) \cap E) /\ Cardinality(Units(g) \cap E) \in Nat
  BY <1>1, <1>3, <1>5, FS_CardinalityType, FS_Intersection
<1>9. Total(f) <= Total(g) + Cardinality(D)
  BY <1>3, <1>5, <1>6, <1>7, <1>8
<1> QED
  BY <1>1, <1>9

\* Nobody has more: nor have all together.
LEMMA TotalMonotone ==
    ASSUME NEW f \in [Tasks -> Nat], NEW g \in [Tasks -> Nat],
           \A x \in Tasks : f[x] <= g[x]
    PROVE  Total(f) <= Total(g)
<1>1. Cardinality(Tasks) \in Nat /\ Cardinality(Tasks) * 0 = 0
  BY BudgetAssumption, FS_CardinalityType
<1>2. \A x \in Tasks : f[x] <= g[x] + 0
  OBVIOUS
<1>3. Total(f) <= Total(g) + Cardinality(Tasks) * 0
  BY <1>2, TotalBound
<1>4. Total(g) \in Nat /\ Total(f) \in Nat
  BY UnitsFinite
<1> QED
  BY <1>1, <1>3, <1>4

-----------------------------------------------------------------------------
(* One task's step.                                                         *)

TaskRow == [st : {"idle", "due", "admitted", "manual", "ended", "interrupted"} \cup Running,
            grant : Nat, spent : Nat, when : Periods]

\* The constants, and the slack of one turn each, are natural numbers.
LEMMA Numbers ==
    /\ DailyCap \in Nat /\ MonthlyCap \in Nat /\ MaxTurn - 1 \in Nat
    /\ Cardinality(Tasks) \in Nat /\ Slack \in Nat
<1>1. DailyCap \in Nat /\ MonthlyCap \in Nat /\ MaxTurn \in Nat \ {0}
  BY BudgetAssumption
<1>2. MaxTurn - 1 \in Nat
  BY <1>1
<1>3. Cardinality(Tasks) \in Nat
  BY BudgetAssumption, FS_CardinalityType
<1>4. \A a, b \in Nat : a * b \in Nat
  OBVIOUS
<1> QED
  BY <1>1, <1>2, <1>3, <1>4 DEF Slack

\* So is what a task has spent and may cost.
LEMMA RowNumbers ==
    ASSUME NEW r \in TaskRow, NEW P
    PROVE  Ub(r, P) \in Nat /\ Mc(r, P) \in Nat
BY Numbers DEF TaskRow, Ub, Mc

\* The three sums are of natural numbers.
LEMMA SumsTyped ==
    ASSUME task \in [Tasks -> TaskRow], NEW P
    PROVE  /\ Unbooked(P) \in [Tasks -> Nat] /\ Total(Unbooked(P)) \in Nat
           /\ MayCost(P) \in [Tasks -> Nat] /\ Total(MayCost(P)) \in Nat
           /\ Granted \in [Tasks -> Nat] /\ Total(Granted) \in Nat
           /\ Unbooked(P) = [x \in Tasks |-> Ub(task[x], P)]
<1>1. Unbooked(P) = [x \in Tasks |-> Ub(task[x], P)]
  BY DEF Unbooked, Ub
<1>2. \A x \in Tasks : Ub(task[x], P) \in Nat /\ Mc(task[x], P) \in Nat
  BY RowNumbers
<1>3. \A x \in Tasks : task[x].grant \in Nat
  BY DEF TaskRow
<1>4. Unbooked(P) \in [Tasks -> Nat] /\ MayCost(P) \in [Tasks -> Nat] /\ Granted \in [Tasks -> Nat]
  BY <1>1, <1>2, <1>3 DEF MayCost, Granted
<1> QED
  BY <1>1, <1>4, UnitsFinite

\* One task's row changes: so do the sums, by as much.
LEMMA SumsMove ==
    ASSUME task \in [Tasks -> TaskRow], NEW P, NEW x \in Tasks, NEW r \in TaskRow,
           task' = [task EXCEPT ![x] = r]
    PROVE  /\ Total(Unbooked(P))' = Total(Unbooked(P)) - Ub(task[x], P) + Ub(r, P)
           /\ Total(MayCost(P))' = Total(MayCost(P)) - Mc(task[x], P) + Mc(r, P)
           /\ Total(Granted)' = Total(Granted) - task[x].grant + r.grant
           /\ Total(Granted) >= task[x].grant
<1>1. Ub(r, P) \in Nat /\ Mc(r, P) \in Nat /\ r.grant \in Nat
  BY RowNumbers DEF TaskRow
<1>2. /\ Unbooked(P) \in [Tasks -> Nat] /\ MayCost(P) \in [Tasks -> Nat]
      /\ Granted \in [Tasks -> Nat]
      /\ Unbooked(P) = [y \in Tasks |-> Ub(task[y], P)]
  BY SumsTyped
<1>3. ASSUME NEW f \in [Tasks -> Nat], NEW g, NEW n \in Nat, g = [f EXCEPT ![x] = n]
      PROVE  Total(g) = Total(f) - f[x] + n /\ Total(f) >= f[x]
  <2>1. g \in [Tasks -> Nat] /\ g[x] = n /\ \A y \in Tasks \ {x} : g[y] = f[y]
    BY <1>3
  <2> QED
    BY <2>1, TotalUpdate
<1>4. Total(Unbooked(P))' = Total(Unbooked(P)) - Ub(task[x], P) + Ub(r, P)
  <2>1. PICK f \in [Tasks -> Nat] : f = Unbooked(P)
    BY <1>2
  <2>2. PICK g : g = Unbooked(P)'
    OBVIOUS
  <2>3. g = [f EXCEPT ![x] = Ub(r, P)] /\ f[x] = Ub(task[x], P)
    BY <2>1, <2>2 DEF Unbooked, Ub
  <2>4. Total(g) = Total(f) - f[x] + Ub(r, P)
    BY <1>1, <1>3, <2>3
  <2>5. Total(Unbooked(P))' = Total(g)
    BY <2>2 DEF Total
  <2> QED
    BY <2>1, <2>3, <2>4, <2>5
<1>5. Total(MayCost(P))' = Total(MayCost(P)) - Mc(task[x], P) + Mc(r, P)
  <2>1. PICK f \in [Tasks -> Nat] : f = MayCost(P)
    BY <1>2
  <2>2. PICK g : g = MayCost(P)'
    OBVIOUS
  <2>3. g = [f EXCEPT ![x] = Mc(r, P)] /\ f[x] = Mc(task[x], P)
    BY <2>1, <2>2 DEF MayCost, Mc
  <2>4. Total(g) = Total(f) - f[x] + Mc(r, P)
    BY <1>1, <1>3, <2>3
  <2>5. Total(MayCost(P))' = Total(g)
    BY <2>2 DEF Total
  <2> QED
    BY <2>1, <2>3, <2>4, <2>5
<1>6. /\ Total(Granted)' = Total(Granted) - task[x].grant + r.grant
      /\ Total(Granted) >= task[x].grant
  <2>1. PICK f \in [Tasks -> Nat] : f = Granted
    BY <1>2
  <2>2. PICK g : g = Granted'
    OBVIOUS
  <2>3. g = [f EXCEPT ![x] = r.grant] /\ f[x] = task[x].grant
    BY <2>1, <2>2 DEF Granted
  <2>4. Total(g) = Total(f) - f[x] + r.grant /\ Total(f) >= f[x]
    BY <1>1, <1>3, <2>3
  <2>5. Total(Granted)' = Total(g)
    BY <2>2 DEF Total
  <2> QED
    BY <2>1, <2>3, <2>4, <2>5
<1> QED
  BY <1>4, <1>5, <1>6

\* The account of a period after one task's step: what the step books is
\* recorded, and comes out of what the task might have cost.
LEMMA AccountMoves ==
    ASSUME task \in [Tasks -> TaskRow], NEW P, NEW x \in Tasks, NEW r \in TaskRow,
           task' = [task EXCEPT ![x] = r],
           NEW cap \in Nat,
           NEW rec \in Nat, NEW sp \in Nat, NEW gone \in Nat,
           NEW rec2 \in Nat, NEW sp2 \in Nat, NEW gone2 \in Nat,
           NEW e \in Int,
           Account(rec, cap, sp, gone, P),
           sp2 - gone2 = sp - gone + e + Ub(r, P) - Ub(task[x], P),
           rec + e <= rec2,
           e + Mc(r, P) <= Mc(task[x], P)
    PROVE  Account(rec2, cap, sp2, gone2, P)'
<1>1. PICK u : u = Total(Unbooked(P))'
  OBVIOUS
<1>2. PICK m : m = Total(MayCost(P))'
  OBVIOUS
<1>3. /\ u = Total(Unbooked(P)) - Ub(task[x], P) + Ub(r, P)
      /\ m = Total(MayCost(P)) - Mc(task[x], P) + Mc(r, P)
  BY <1>1, <1>2, SumsMove
<1>4. /\ Total(Unbooked(P)) \in Nat /\ Total(MayCost(P)) \in Nat
      /\ Ub(task[x], P) \in Nat /\ Mc(task[x], P) \in Nat
      /\ Ub(r, P) \in Nat /\ Mc(r, P) \in Nat /\ Slack \in Nat
  BY SumsTyped, RowNumbers, Numbers
<1>5. /\ sp - gone - Total(Unbooked(P)) <= rec
      /\ sp - gone - Total(Unbooked(P)) + Total(MayCost(P)) <= cap + Slack
  BY DEF Account
<1>6. sp2 - gone2 - u <= rec2 /\ sp2 - gone2 - u + m <= cap + Slack
  BY <1>3, <1>4, <1>5
<1> QED
  BY <1>1, <1>2, <1>6 DEF Account, Slack

\* Where what is recorded and what is granted fit under a cap, so does the
\* account: a run costs at most its grant and less than a turn.
LEMMA FreshAccount ==
    ASSUME task' \in [Tasks -> TaskRow], NEW P, NEW cap \in Nat,
           NEW rec \in Nat, NEW sp \in Nat, NEW gone \in Nat,
           NEW u \in Nat, u = Total(Unbooked(P))',
           NEW t \in Nat, t = Total(Granted)',
           sp - gone - u <= rec,
           rec + t <= cap
    PROVE  Account(rec, cap, sp, gone, P)'
<1>1. PICK f : f = MayCost(P)'
  OBVIOUS
<1>2. PICK g : g = Granted'
  OBVIOUS
<1>k. PICK k \in Nat : k = MaxTurn - 1
  BY Numbers
<1>3. f = [x \in Tasks |-> Mc(task'[x], P)] /\ g = [x \in Tasks |-> task'[x].grant]
  BY <1>1, <1>2 DEF MayCost, Mc, Granted
<1>4. \A r \in TaskRow : /\ Mc(r, P) \in Nat /\ r.grant \in Nat
                         /\ Mc(r, P) <= r.grant + k
  <2> SUFFICES ASSUME NEW r \in TaskRow
               PROVE  Mc(r, P) \in Nat /\ r.grant \in Nat /\ Mc(r, P) <= r.grant + k
    OBVIOUS
  <2>1. r.grant \in Nat
    BY DEF TaskRow
  <2>2. Mc(r, P) = r.grant + k \/ Mc(r, P) = 0
    BY <1>k DEF Mc
  <2> QED
    BY <2>1, <2>2
<1>5. f \in [Tasks -> Nat] /\ g \in [Tasks -> Nat] /\ \A x \in Tasks : f[x] <= g[x] + k
  BY <1>3, <1>4
<1>6. Total(f) <= Total(g) + Cardinality(Tasks) * k
  BY <1>5, TotalBound
<1>7. Total(f) \in Nat /\ Total(g) \in Nat
  BY <1>5, UnitsFinite
<1>8. Total(f) = Total(MayCost(P))' /\ Total(g) = t
  BY <1>1, <1>2 DEF Total
<1>9. Cardinality(Tasks) * k = Slack /\ Slack \in Nat
  BY <1>k, Numbers DEF Slack
<1>10. sp - gone - u + Total(f) <= cap + Slack
  BY <1>6, <1>7, <1>8, <1>9
<1> QED
  BY <1>8, <1>10 DEF Account, Slack

\* The greater of zero and a number.
LEMMA MaxZero ==
    ASSUME NEW a \in Int
    PROVE  Max({0, a}) \in Nat /\ (a >= 0 => Max({0, a}) = a)
<1>1. \E y \in {0, a} : \A z \in {0, a} : y >= z
  OBVIOUS
<1>2. Max({0, a}) \in {0, a} /\ \A z \in {0, a} : Max({0, a}) >= z
  BY <1>1 DEF Max
<1> QED
  BY <1>2

\* What is recorded is a natural number, and at least what the runs' rows say.
LEMMA RecordedNat ==
    ASSUME TypeOK
    PROVE  /\ computeRecordedSpend.day \in Nat /\ computeRecordedSpend.month \in Nat
           /\ computeRecordedSpend.day >= today /\ computeRecordedSpend.month >= month
<1>1. call.amount \in Nat /\ today \in Nat /\ month \in Nat
  BY DEF TypeOK
<1>2. /\ computeRecordedSpend.day = today + (IF call.when = "today" THEN call.amount ELSE 0)
      /\ computeRecordedSpend.month = month + (IF call.when # "past" THEN call.amount ELSE 0)
  BY DEF computeRecordedSpend, AddTo
<1> QED
  BY <1>1, <1>2

\* So is what the tick would grant.
LEMMA GrantNat ==
    ASSUME TypeOK, NEW x \in Tasks
    PROVE  grantOf(x) \in Nat
<1>1. /\ today \in Nat /\ month \in Nat /\ reserved \in Nat
      /\ DailyCap \in Nat /\ MonthlyCap \in Nat
      /\ WORKER_MAX_COST_USD \in Nat /\ SessionCeiling \in Nat
  BY BudgetAssumption DEF TypeOK
<1>2. ASSUME NEW a \in Int, NEW b \in Int PROVE Min({a, b}) \in Int
  <2>1. \E y \in {a, b} : \A z \in {a, b} : y <= z
    OBVIOUS
  <2>2. Min({a, b}) \in {a, b}
    BY <2>1 DEF Min
  <2> QED
    BY <2>2
<1>3. persistentBudgetHeadroom \in Nat
  <2>1. PICK a \in Nat, b \in Nat : a = computeRecordedSpend.day /\ b = computeRecordedSpend.month
    BY RecordedNat
  <2> QED
    BY <1>1, <1>2, <2>1, MaxZero DEF persistentBudgetHeadroom
<1>4. ASSUME NEW a \in Nat, NEW b \in Nat, NEW c \in Nat PROVE Min({a, b, c}) \in Nat
  <2>1. \E y \in {a, b, c} : \A z \in {a, b, c} : y <= z
    OBVIOUS
  <2>2. Min({a, b, c}) \in {a, b, c}
    BY <2>1 DEF Min
  <2> QED
    BY <2>2
<1> QED
  BY <1>1, <1>3, <1>4 DEF grantOf

-----------------------------------------------------------------------------
(* Every step.                                                              *)

Days == {"today"}
Months == {"today", "month"}

\* At the start nothing is granted, spent or booked.
LEMMA BudgetInit == Init => BudgetInv
<1> SUFFICES ASSUME Init PROVE BudgetInv
  OBVIOUS
<1>1. Idle \in TaskRow /\ Idle.st = "idle" /\ Idle.grant = 0 /\ Idle.spent = 0
  BY DEF Idle, TaskRow, Running, Periods
<1>2. task \in [Tasks -> TaskRow] /\ \A x \in Tasks : task[x] = Idle
  BY <1>1 DEF Init
<1>3. TypeOK
  <2>1. call \in Calls /\ {today, month, reserved, losses} \subseteq Nat
    BY DEF Init, NoCall, Calls, Periods
  <2> QED
    BY <1>2, <2>1 DEF Init, TypeOK, TaskRow, Calls, Amounts, Zero
<1>4. \A x \in Tasks : TaskOK(task[x])
  BY <1>1, <1>2 DEF TaskOK
<1>5. ASSUME NEW P PROVE Total(Unbooked(P)) = 0 /\ Total(MayCost(P)) = 0 /\ Total(Granted) = 0
  <2>1. \A x \in Tasks : Unbooked(P)[x] = 0 /\ MayCost(P)[x] = 0 /\ Granted[x] = 0
    BY <1>1, <1>2 DEF Unbooked, MayCost, Mc, Granted
  <2> QED
    BY <1>2, <2>1, SumsTyped, TotalZero
<1>6. ReservedIsGranted
  BY <1>5 DEF Init, ReservedIsGranted, Granted
<1>7. ASSUME NEW P, NEW cap \in Nat PROVE Account(0, cap, 0, 0, P)
  BY <1>5, Numbers DEF Account
<1> QED
  BY <1>3, <1>4, <1>6, <1>7, Numbers DEF Init, BudgetInv, Zero

\* Every step keeps the invariant; one step per action.
LEMMA BudgetStep == BudgetInv /\ [Next]_vars => BudgetInv'
<1> SUFFICES ASSUME BudgetInv, [Next]_vars PROVE BudgetInv'
  OBVIOUS
<1>a. /\ TypeOK /\ ReservedIsGranted /\ task \in [Tasks -> TaskRow]
      /\ \A x \in Tasks : task[x] \in TaskRow /\ TaskOK(task[x])
      /\ today \in Nat /\ month \in Nat /\ reserved \in Nat /\ losses \in Nat
      /\ call \in Calls
      /\ bg \in Amounts /\ lost \in Amounts
      /\ bg.day \in Nat /\ bg.month \in Nat /\ lost.day \in Nat /\ lost.month \in Nat
      /\ reserved <= DailyCap /\ reserved <= MonthlyCap
      /\ reserved = Total(Granted)
  BY DEF BudgetInv, TypeOK, TaskRow, Calls, Amounts, ReservedIsGranted, Granted
<1>b. /\ Account(today, DailyCap, bg.day, lost.day, Days)
      /\ Account(month, MonthlyCap, bg.month, lost.month, Months)
  BY DEF BudgetInv, Days, Months
<1>n. DailyCap \in Nat /\ MonthlyCap \in Nat /\ MaxTurn - 1 \in Nat /\ MaxTurn \in Nat \ {0}
  BY Numbers, BudgetAssumption
\* Collecting the parts after one task's step.
<1>c. ASSUME NEW x \in Tasks, NEW r \in TaskRow, TaskOK(r), task' = [task EXCEPT ![x] = r],
             reserved' \in Nat, today' \in Nat, month' \in Nat, losses' \in Nat,
             bg' \in Amounts, lost' \in Amounts, chat' = chat, call' = call,
             reserved' = reserved - task[x].grant + r.grant,
             reserved' <= DailyCap, reserved' <= MonthlyCap,
             Account(today, DailyCap, bg.day, lost.day, Days)',
             Account(month, MonthlyCap, bg.month, lost.month, Months)'
      PROVE  BudgetInv'
  <2>1. task' \in [Tasks -> TaskRow]
    BY <1>a, <1>c
  <2>2. TypeOK'
    BY <1>a, <1>c, <2>1 DEF TypeOK, TaskRow, Calls
  <2>3. \A y \in Tasks : TaskOK(task[y])'
    <3>1. \A y \in Tasks : task'[y] = r \/ task'[y] = task[y]
      BY <1>a, <1>c
    <3>2. \A y \in Tasks : TaskOK(task'[y])
      BY <1>a, <1>c, <3>1
    <3> QED
      BY <3>2 DEF TaskOK
  <2>4. Total(Granted)' = Total(Granted) - task[x].grant + r.grant
    BY <1>a, <1>c, SumsMove
  <2>5. ReservedIsGranted'
    BY <1>a, <1>c, <2>4 DEF ReservedIsGranted, Granted
  <2> QED
    BY <1>c, <2>2, <2>3, <2>5 DEF BudgetInv, Days, Months
\* A step that spends and books nothing.
<1>d. ASSUME NEW x \in Tasks, NEW r \in TaskRow, task' = [task EXCEPT ![x] = r],
             UNCHANGED <<today, month, bg, lost>>,
             \A P : Ub(r, P) = Ub(task[x], P) /\ Mc(r, P) <= Mc(task[x], P)
      PROVE  /\ Account(today, DailyCap, bg.day, lost.day, Days)'
             /\ Account(month, MonthlyCap, bg.month, lost.month, Months)'
  <2>1. \A P : Ub(r, P) \in Nat /\ Mc(r, P) \in Nat /\ Ub(task[x], P) \in Nat
               /\ Mc(task[x], P) \in Nat
    BY <1>a, RowNumbers
  <2>2. ASSUME NEW P, NEW cap \in Nat, NEW rec \in Nat, NEW sp \in Nat, NEW gone \in Nat,
               Account(rec, cap, sp, gone, P)
        PROVE  Account(rec, cap, sp, gone, P)'
    <3>e. PICK e \in Int : e = 0
      OBVIOUS
    <3>1. sp - gone = sp - gone + e + Ub(r, P) - Ub(task[x], P)
      BY <1>d, <2>1, <3>e
    <3>2. rec + e <= rec /\ e + Mc(r, P) <= Mc(task[x], P)
      BY <1>d, <2>1, <3>e
    <3> QED
      BY <1>a, <1>d, <2>2, <3>1, <3>2, AccountMoves
  <2>3. PICK p1 \in Nat, q1 \in Nat, g1 \in Nat : p1 = today /\ q1 = bg.day /\ g1 = lost.day
    BY <1>a
  <2>4. PICK p2 \in Nat, q2 \in Nat, g2 \in Nat : p2 = month /\ q2 = bg.month /\ g2 = lost.month
    BY <1>a
  <2>5. Account(p1, DailyCap, q1, g1, Days)' /\ Account(p2, MonthlyCap, q2, g2, Months)'
    BY <1>b, <1>n, <2>2, <2>3, <2>4
  <2>6. /\ p1 = today' /\ q1 = bg'.day /\ g1 = lost'.day
        /\ p2 = month' /\ q2 = bg'.month /\ g2 = lost'.month
    BY <1>d, <2>3, <2>4
  <2> QED
    BY <2>5, <2>6 DEF Account
<1>i. /\ Idle \in TaskRow /\ Idle.st = "idle" /\ Idle.grant = 0 /\ Idle.spent = 0
      /\ Idle.when = "today"
  BY DEF Idle, TaskRow, Running, Periods
<1>z. ASSUME NEW st \in {"idle", "due", "interrupted", "manual"}
      PROVE  /\ [Idle EXCEPT !.st = st] \in TaskRow /\ TaskOK([Idle EXCEPT !.st = st])
             /\ [Idle EXCEPT !.st = st].st = st
             /\ [Idle EXCEPT !.st = st].grant = 0
  BY DEF Idle, TaskRow, Running, Periods, TaskOK
\* The task is left without anything: nothing of it counts any more.
<1>e. ASSUME NEW x \in Tasks, NEW r \in TaskRow, r.st \in {"idle", "due", "manual"},
             task[x].st \in {"idle", "due", "ended", "interrupted"}
      PROVE  \A P : Ub(r, P) = Ub(task[x], P) /\ Mc(r, P) <= Mc(task[x], P)
  BY <1>e DEF Ub, Mc
<1>1. ASSUME NEW x \in Tasks, BecomesDue(x) PROVE BudgetInv'
  <2>1. PICK r : r = [Idle EXCEPT !.st = "due"]
    OBVIOUS
  <2>2. r \in TaskRow /\ TaskOK(r) /\ r.st = "due" /\ r.grant = 0
    BY <1>z, <2>1
  <2>3. /\ task[x].st = "idle" /\ task' = [task EXCEPT ![x] = r]
        /\ UNCHANGED <<today, month, reserved, chat, call, bg, lost, losses>>
    BY <1>1, <2>1 DEF BecomesDue
  <2>4. task[x].grant = 0
    BY <1>a, <2>3 DEF TaskOK
  <2>5. \A P : Ub(r, P) = Ub(task[x], P) /\ Mc(r, P) <= Mc(task[x], P)
    BY <1>e, <2>2, <2>3
  <2>6. /\ Account(today, DailyCap, bg.day, lost.day, Days)'
        /\ Account(month, MonthlyCap, bg.month, lost.month, Months)'
    BY <1>d, <2>2, <2>3, <2>5
  <2>7. reserved' = reserved - task[x].grant + r.grant
    BY <1>a, <2>2, <2>3, <2>4
  <2> QED
    BY <1>a, <1>c, <2>2, <2>3, <2>6, <2>7
<1>2. ASSUME NEW x \in Tasks, LeaseRefused(x) PROVE BudgetInv'
  <2>1. /\ task[x].st \in {"due", "interrupted"} /\ task' = [task EXCEPT ![x] = Idle]
        /\ reserved' = releasePersistentBudget(reserved + grantOf(x), grantOf(x))
        /\ UNCHANGED <<today, month, chat, call, bg, lost, losses>>
    BY <1>2 DEF LeaseRefused
  <2>2. PICK n \in Nat : n = grantOf(x)
    BY <1>a, GrantNat
  <2>3. reserved' = reserved
    BY <1>a, <2>1, <2>2, MaxZero DEF releasePersistentBudget
  <2>4. task[x].grant = 0 /\ TaskOK(Idle)
    BY <1>a, <1>i, <2>1 DEF TaskOK
  <2>5. \A P : Ub(Idle, P) = Ub(task[x], P) /\ Mc(Idle, P) <= Mc(task[x], P)
    BY <1>e, <1>i, <2>1
  <2>6. /\ Account(today, DailyCap, bg.day, lost.day, Days)'
        /\ Account(month, MonthlyCap, bg.month, lost.month, Months)'
    BY <1>d, <1>i, <2>1, <2>5
  <2>7. reserved' = reserved - task[x].grant + Idle.grant
    BY <1>a, <1>i, <2>3, <2>4
  <2> QED
    BY <1>a, <1>c, <1>i, <2>1, <2>3, <2>4, <2>6, <2>7
<1>3. ASSUME NEW x \in Tasks, Settle(x) PROVE BudgetInv'
  <2>1. /\ task[x].st = "ended" /\ task' = [task EXCEPT ![x] = Idle]
        /\ reserved' = Max({0, reserved - task[x].grant})
        /\ UNCHANGED <<today, month, chat, call, bg, lost, losses>>
    BY <1>3 DEF Settle, releasePersistentBudget
  <2>2. task[x].grant \in Nat /\ TaskOK(Idle)
    BY <1>a, <1>i DEF TaskRow, TaskOK
  <2>3. reserved >= task[x].grant
    BY <1>a, <1>i, <2>1, SumsMove
  <2>4. reserved' = reserved - task[x].grant /\ reserved' \in Nat
    BY <1>a, <2>1, <2>2, <2>3, MaxZero
  <2>5. \A P : Ub(Idle, P) = Ub(task[x], P) /\ Mc(Idle, P) <= Mc(task[x], P)
    BY <1>e, <1>i, <2>1
  <2>6. /\ Account(today, DailyCap, bg.day, lost.day, Days)'
        /\ Account(month, MonthlyCap, bg.month, lost.month, Months)'
    BY <1>d, <1>i, <2>1, <2>5
  <2>7. reserved' <= DailyCap /\ reserved' <= MonthlyCap /\ reserved' = reserved - task[x].grant + Idle.grant
    BY <1>a, <1>i, <1>n, <2>2, <2>4
  <2> QED
    BY <1>a, <1>c, <1>i, <2>1, <2>2, <2>4, <2>6, <2>7
<1>4. ASSUME NEW x \in Tasks, Enter(x), task[x].st = "admitted" PROVE BudgetInv'
  <2>1. PICK r : r = [task[x] EXCEPT !.st = IF checkPersistentBudget THEN "running" ELSE "ended"]
    OBVIOUS
  <2>2. /\ task[x].st = "admitted" /\ task' = [task EXCEPT ![x] = r]
        /\ UNCHANGED <<today, month, reserved, chat, call, bg, lost, losses>>
    BY <1>4, <2>1 DEF Enter
  <2>3. task[x].spent = 0 /\ task[x].grant \in Nat
    BY <1>a, <2>2 DEF TaskOK, TaskRow
  <2>4. r \in TaskRow /\ r.st \in {"running", "ended"} /\ r.grant = task[x].grant /\ r.spent = 0
    BY <1>a, <2>1, <2>3 DEF TaskRow, Running
  <2>5. TaskOK(r)
    BY <1>n, <2>3, <2>4 DEF TaskOK
  <2>6. \A P : Ub(r, P) = Ub(task[x], P) /\ Mc(r, P) <= Mc(task[x], P)
    <3> SUFFICES ASSUME NEW P PROVE Ub(r, P) = Ub(task[x], P) /\ Mc(r, P) <= Mc(task[x], P)
      OBVIOUS
    <3>1. Ub(r, P) = 0 /\ Ub(task[x], P) = 0
      BY <2>2, <2>4 DEF Ub
    <3>2. Mc(task[x], P) = task[x].grant + (MaxTurn - 1)
      BY <2>2 DEF Mc
    <3>3. Mc(r, P) = task[x].grant + (MaxTurn - 1) \/ Mc(r, P) = 0
      BY <2>4 DEF Mc
    <3> QED
      BY <1>n, <2>3, <3>1, <3>2, <3>3
  <2>7. /\ Account(today, DailyCap, bg.day, lost.day, Days)'
        /\ Account(month, MonthlyCap, bg.month, lost.month, Months)'
    BY <1>d, <2>2, <2>4, <2>6
  <2>8. reserved' = reserved - task[x].grant + r.grant
    BY <1>a, <2>2, <2>3, <2>4
  <2> QED
    BY <1>a, <1>c, <2>2, <2>4, <2>5, <2>7, <2>8
<1>5. ASSUME NEW x \in Tasks, Admit(x) PROVE BudgetInv'
  <2>1. PICK n \in Nat : n = grantOf(x)
    BY <1>a, GrantNat
  <2>2. PICK r : r = [task[x] EXCEPT !.st = "admitted", !.grant = n]
    OBVIOUS
  <2>3. /\ task[x].st = "due" /\ projectionFits(n)
        /\ reserved' = reserved + n
        /\ UNCHANGED <<today, month, chat, call, bg, lost, losses>>
    BY <1>5, <2>1 DEF Admit, Admits
  <2>4. task' = [task EXCEPT ![x] = r]
    BY <1>5, <2>1, <2>2 DEF Admit
  <2>5. task[x].spent = 0 /\ task[x].grant = 0
    BY <1>a, <2>3 DEF TaskOK
  <2>6. r \in TaskRow /\ r.st = "admitted" /\ r.grant = n /\ r.spent = 0 /\ r.when = task[x].when
    BY <1>a, <2>2, <2>5 DEF TaskRow
  <2>7. TaskOK(r)
    BY <2>6 DEF TaskOK
  <2>8. /\ today + (reserved + n) <= DailyCap /\ month + (reserved + n) <= MonthlyCap
        /\ reserved' \in Nat /\ reserved' = reserved - task[x].grant + r.grant
    <3>1. PICK a \in Nat, b \in Nat : /\ a = computeRecordedSpend.day /\ a >= today
                                      /\ b = computeRecordedSpend.month /\ b >= month
      BY <1>a, RecordedNat
    <3>2. a + reserved + n <= DailyCap /\ b + reserved + n <= MonthlyCap
      BY <2>3, <3>1 DEF projectionFits
    <3> QED
      BY <1>a, <1>n, <2>3, <2>5, <2>6, <3>1, <3>2
  <2>9. reserved' <= DailyCap /\ reserved' <= MonthlyCap
    BY <1>a, <1>n, <2>3, <2>8
  <2>10. task' \in [Tasks -> TaskRow]
    BY <1>a, <2>4, <2>6
  <2>11. PICK t \in Nat : t = Total(Granted)' /\ t = reserved + n
    <3>1. Total(Granted)' = Total(Granted) - task[x].grant + r.grant
      BY <1>a, <2>4, <2>6, SumsMove
    <3> QED
      BY <1>a, <2>5, <2>6, <3>1
  <2>12. ASSUME NEW P, NEW cap \in Nat, NEW rec \in Nat, NEW sp \in Nat, NEW gone \in Nat,
                Account(rec, cap, sp, gone, P), rec + (reserved + n) <= cap
         PROVE  Account(rec, cap, sp, gone, P)'
    <3>1. Total(Unbooked(P))' = Total(Unbooked(P)) - Ub(task[x], P) + Ub(r, P)
      BY <1>a, <2>4, <2>6, SumsMove
    <3>2. Ub(task[x], P) = 0 /\ Ub(r, P) = 0
      BY <2>3, <2>6 DEF Ub
    <3>3. PICK u \in Nat : u = Total(Unbooked(P))
      BY <1>a, SumsTyped
    <3>4. u = Total(Unbooked(P))'
      BY <3>1, <3>2, <3>3
    <3>5. sp - gone - u <= rec
      BY <2>12, <3>3 DEF Account
    <3>6. rec + t <= cap
      BY <2>11, <2>12
    <3> QED
      BY <2>10, <2>11, <3>4, <3>5, <3>6, FreshAccount
  <2>13. /\ Account(today, DailyCap, bg.day, lost.day, Days)'
         /\ Account(month, MonthlyCap, bg.month, lost.month, Months)'
    <3>1. PICK p1 \in Nat, q1 \in Nat, g1 \in Nat : p1 = today /\ q1 = bg.day /\ g1 = lost.day
      BY <1>a
    <3>2. PICK p2 \in Nat, q2 \in Nat, g2 \in Nat : p2 = month /\ q2 = bg.month /\ g2 = lost.month
      BY <1>a
    <3>3. Account(p1, DailyCap, q1, g1, Days)' /\ Account(p2, MonthlyCap, q2, g2, Months)'
      BY <1>b, <1>n, <2>8, <2>12, <3>1, <3>2
    <3>4. /\ p1 = today' /\ q1 = bg'.day /\ g1 = lost'.day
          /\ p2 = month' /\ q2 = bg'.month /\ g2 = lost'.month
      BY <2>3, <3>1, <3>2
    <3> QED
      BY <3>3, <3>4 DEF Account
  <2> QED
    BY <1>a, <1>c, <2>3, <2>4, <2>6, <2>7, <2>8, <2>9, <2>13
\* Running and ending a run: the accounts of both periods, from what the step
\* does to each.
<1>f. ASSUME NEW x \in Tasks, NEW r \in TaskRow, task' = [task EXCEPT ![x] = r],
             NEW rec \in Nat, NEW sp \in Nat, NEW gone \in Nat, NEW cap \in Nat, NEW P,
             NEW rec2 \in Nat, NEW sp2 \in Nat, NEW gone2 \in Nat, NEW e \in Int,
             Account(rec, cap, sp, gone, P),
             sp2 - gone2 = sp - gone + e + Ub(r, P) - Ub(task[x], P),
             rec + e <= rec2,
             e + Mc(r, P) <= Mc(task[x], P)
      PROVE  Account(rec2, cap, sp2, gone2, P)'
  BY <1>a, <1>f, AccountMoves
\* A run started by hand counts in no account and holds no reservation.
<1>m. ASSUME NEW x \in Tasks, NEW r \in TaskRow, task' = [task EXCEPT ![x] = r],
             task[x].st \in {"manual", "manual_running"},
             r.st \in {"manual_running", "ended"}, r.grant = 0,
             UNCHANGED <<reserved, chat, call, bg, lost>>, losses' \in Nat,
             today' \in Nat, month' \in Nat, today' >= today, month' >= month
      PROVE  BudgetInv'
  <2>1. TaskOK(r) /\ task[x].grant = 0
    BY <1>a, <1>m DEF TaskOK
  <2>2. \A P : Ub(r, P) = 0 /\ Mc(r, P) = 0 /\ Ub(task[x], P) = 0 /\ Mc(task[x], P) = 0
    BY <1>m DEF Ub, Mc
  <2>3. ASSUME NEW P, NEW cap \in Nat, NEW rec \in Nat, NEW sp \in Nat, NEW gone \in Nat,
               Account(rec, cap, sp, gone, P), NEW rec2 \in Nat, rec2 >= rec
        PROVE  Account(rec2, cap, sp, gone, P)'
    <3>1. PICK e \in Int : e = 0
      OBVIOUS
    <3>2. sp - gone = sp - gone + e + Ub(r, P) - Ub(task[x], P)
      BY <2>2, <3>1
    <3>3. rec + e <= rec2 /\ e + Mc(r, P) <= Mc(task[x], P)
      BY <2>2, <2>3, <3>1
    <3> QED
      BY <1>f, <1>m, <2>3, <3>2, <3>3
  <2>4. Account(today, DailyCap, bg.day, lost.day, Days)'
    <3>1. PICK p \in Nat, q \in Nat, g \in Nat, p2 \in Nat :
            p = today /\ q = bg.day /\ g = lost.day /\ p2 = today'
      BY <1>a, <1>m
    <3>2. Account(p2, DailyCap, q, g, Days)'
      BY <1>b, <1>m, <1>n, <2>3, <3>1
    <3>3. p2 = today' /\ q = bg'.day /\ g = lost'.day
      BY <1>m, <3>1
    <3> QED
      BY <3>2, <3>3 DEF Account
  <2>5. Account(month, MonthlyCap, bg.month, lost.month, Months)'
    <3>1. PICK p \in Nat, q \in Nat, g \in Nat, p2 \in Nat :
            p = month /\ q = bg.month /\ g = lost.month /\ p2 = month'
      BY <1>a, <1>m
    <3>2. Account(p2, MonthlyCap, q, g, Months)'
      BY <1>b, <1>m, <1>n, <2>3, <3>1
    <3>3. p2 = month' /\ q = bg'.month /\ g = lost'.month
      BY <1>m, <3>1
    <3> QED
      BY <3>2, <3>3 DEF Account
  <2>6. reserved' = reserved - task[x].grant + r.grant
    BY <1>a, <1>m, <2>1
  <2> QED
    BY <1>a, <1>c, <1>m, <2>1, <2>4, <2>5, <2>6
<1>14. ASSUME NEW x \in Tasks, HandStart(x) PROVE BudgetInv'
  <2>1. PICK r : r = [Idle EXCEPT !.st = "manual"]
    OBVIOUS
  <2>2. r \in TaskRow /\ TaskOK(r) /\ r.st = "manual" /\ r.grant = 0
    BY <1>z, <2>1
  <2>3. /\ task[x].st \in {"idle", "due", "interrupted"} /\ task' = [task EXCEPT ![x] = r]
        /\ UNCHANGED <<today, month, reserved, chat, call, bg, lost, losses>>
    BY <1>14, <2>1 DEF HandStart
  <2>4. task[x].grant = 0
    BY <1>a, <2>3 DEF TaskOK
  <2>5. \A P : Ub(r, P) = Ub(task[x], P) /\ Mc(r, P) <= Mc(task[x], P)
    BY <1>e, <2>2, <2>3
  <2>6. /\ Account(today, DailyCap, bg.day, lost.day, Days)'
        /\ Account(month, MonthlyCap, bg.month, lost.month, Months)'
    BY <1>d, <2>2, <2>3, <2>5
  <2>7. reserved' = reserved - task[x].grant + r.grant
    BY <1>a, <2>2, <2>3, <2>4
  <2> QED
    BY <1>a, <1>c, <2>2, <2>3, <2>6, <2>7
<1>15. ASSUME NEW x \in Tasks, Enter(x), task[x].st # "admitted" PROVE BudgetInv'
  <2>1. PICK r : r = [task[x] EXCEPT !.st = IF checkPersistentBudget THEN "manual_running"
                                            ELSE "ended"]
    OBVIOUS
  <2>2. /\ task[x].st = "manual" /\ task' = [task EXCEPT ![x] = r]
        /\ UNCHANGED <<today, month, reserved, chat, call, bg, lost, losses>>
    BY <1>15, <2>1 DEF Enter
  <2>3. r \in TaskRow /\ r.st \in {"manual_running", "ended"} /\ r.grant = task[x].grant
    BY <1>a, <2>1 DEF TaskRow, Running
  <2>4. r.grant = 0
    BY <1>a, <2>2, <2>3 DEF TaskOK
  <2>k. /\ today' \in Nat /\ month' \in Nat /\ today' >= today /\ month' >= month
        /\ losses' \in Nat
    BY <1>a, <2>2
  <2> QED
    BY <1>m, <2>2, <2>3, <2>4, <2>k
<1>16. ASSUME NEW x \in Tasks, NEW amount \in 1 .. MaxTurn, Spend(x, amount),
              task[x].st # "running"
       PROVE  BudgetInv'
  <2>1. PICK r : r = [task[x] EXCEPT !.spent = task[x].spent + amount]
    OBVIOUS
  <2>2. /\ task[x].st = "manual_running" /\ task' = [task EXCEPT ![x] = r]
        /\ UNCHANGED <<today, month, reserved, chat, call, bg, lost, losses>>
    BY <1>16, <2>1 DEF Spend, Running
  <2>3. amount \in Nat /\ task[x].spent \in Nat
    BY <1>a, <1>n DEF TaskRow
  <2>4. r \in TaskRow /\ r.st = "manual_running" /\ r.grant = task[x].grant
    BY <1>a, <2>1, <2>2, <2>3 DEF TaskRow
  <2>5. r.grant = 0
    BY <1>a, <2>2, <2>4 DEF TaskOK
  <2>k. /\ today' \in Nat /\ month' \in Nat /\ today' >= today /\ month' >= month
        /\ losses' \in Nat
    BY <1>a, <2>2
  <2> QED
    BY <1>m, <2>2, <2>4, <2>5, <2>k
<1>17. ASSUME NEW x \in Tasks, Book(x) \/ BookFails(x), task[x].st # "running"
       PROVE  BudgetInv'
  <2>1. PICK r : r = Ended(task[x].grant)
    OBVIOUS
  <2>2. /\ task[x].st = "manual_running" /\ task' = [task EXCEPT ![x] = r]
        /\ UNCHANGED <<reserved, chat, call, bg, lost>>
        /\ losses' = losses \/ losses' = losses + 1
        /\ \/ UNCHANGED <<today, month>>
           \/ /\ today' = today + (IF task[x].when = "today" THEN task[x].spent ELSE 0)
              /\ month' = month + (IF task[x].when # "past" THEN task[x].spent ELSE 0)
    BY <1>17, <2>1 DEF Book, BookFails, Running, AddTo
  <2>3. task[x].spent \in Nat /\ task[x].grant = 0
    BY <1>a, <2>2 DEF TaskRow, TaskOK
  <2>4. r \in TaskRow /\ r.st = "ended" /\ r.grant = 0
    <3>1. r = [st |-> "ended", grant |-> 0, spent |-> 0, when |-> "today"]
      BY <2>1, <2>3 DEF Ended, Idle
    <3> QED
      BY <3>1 DEF TaskRow, Periods
  <2>5. /\ today' \in Nat /\ month' \in Nat /\ today' >= today /\ month' >= month
        /\ losses' \in Nat
    BY <1>a, <2>2, <2>3
  <2> QED
    BY <1>a, <1>m, <2>2, <2>4, <2>5
<1>6. ASSUME NEW x \in Tasks, NEW amount \in 1 .. MaxTurn, Spend(x, amount),
             task[x].st = "running"
      PROVE  BudgetInv'
  <2>1. PICK r : r = [task[x] EXCEPT !.spent = task[x].spent + amount]
    OBVIOUS
  <2>2. /\ task[x].st = "running" /\ task[x].spent < task[x].grant
        /\ task' = [task EXCEPT ![x] = r]
        /\ bg' = AddTo(bg, amount, task[x].when)
        /\ UNCHANGED <<today, month, reserved, chat, call, lost, losses>>
    BY <1>6, <2>1 DEF Spend, limitOf
  <2>3. /\ amount \in Nat /\ amount <= MaxTurn /\ task[x].spent \in Nat
        /\ task[x].grant \in Nat /\ task[x].when \in Periods
    BY <1>a, <1>n DEF TaskRow
  <2>4. /\ r \in TaskRow /\ r.st = "running" /\ r.grant = task[x].grant
        /\ r.spent = task[x].spent + amount /\ r.when = task[x].when
    BY <1>a, <2>1, <2>2, <2>3 DEF TaskRow
  <2>5. TaskOK(r)
    BY <1>n, <2>2, <2>3, <2>4 DEF TaskOK
  <2>6. /\ bg' \in Amounts
        /\ bg'.day = bg.day + (IF task[x].when = "today" THEN amount ELSE 0)
        /\ bg'.month = bg.month + (IF task[x].when # "past" THEN amount ELSE 0)
    BY <1>a, <2>2, <2>3 DEF AddTo, Amounts
  <2>7. ASSUME NEW P
        PROVE  /\ Mc(r, P) = Mc(task[x], P) /\ Mc(r, P) \in Nat
               /\ Ub(task[x], P) \in Nat /\ Ub(r, P) \in Nat
               /\ Ub(r, P) - Ub(task[x], P) = IF task[x].when \in P THEN amount ELSE 0
    <3>1. Mc(r, P) \in Nat /\ Ub(r, P) \in Nat /\ Ub(task[x], P) \in Nat
      BY <1>a, <2>4, RowNumbers
    <3>2. Mc(r, P) = Mc(task[x], P)
      BY <2>2, <2>4 DEF Mc
    <3>3. Ub(r, P) - Ub(task[x], P) = IF task[x].when \in P THEN amount ELSE 0
      BY <2>2, <2>3, <2>4 DEF Ub
    <3> QED
      BY <3>1, <3>2, <3>3
  <2>8. PICK e \in Int : e = 0
    OBVIOUS
  <2>9. Account(today, DailyCap, bg.day, lost.day, Days)'
    <3>1. PICK p \in Nat, q \in Nat, g \in Nat, q2 \in Nat :
            p = today /\ q = bg.day /\ g = lost.day /\ q2 = bg'.day
      BY <1>a, <2>6 DEF Amounts
    <3>2. q2 - g = q - g + e + Ub(r, Days) - Ub(task[x], Days)
      <4>1. task[x].when \in Days <=> task[x].when = "today"
        BY DEF Days
      <4>2. q2 - q = Ub(r, Days) - Ub(task[x], Days)
        BY <2>3, <2>6, <2>7, <3>1, <4>1
      <4> QED
        BY <2>7, <2>8, <3>1, <4>2
    <3>3. p + e <= p /\ e + Mc(r, Days) <= Mc(task[x], Days)
      BY <2>7, <2>8
    <3>4. Account(p, DailyCap, q, g, Days)
      BY <1>b, <3>1
    <3>5. Account(p, DailyCap, q2, g, Days)'
      BY <1>f, <1>n, <2>2, <2>4, <3>2, <3>3, <3>4
    <3>6. p = today' /\ q2 = bg'.day /\ g = lost'.day
      BY <2>2, <3>1
    <3> QED
      BY <3>5, <3>6 DEF Account
  <2>10. Account(month, MonthlyCap, bg.month, lost.month, Months)'
    <3>1. PICK p \in Nat, q \in Nat, g \in Nat, q2 \in Nat :
            p = month /\ q = bg.month /\ g = lost.month /\ q2 = bg'.month
      BY <1>a, <2>6 DEF Amounts
    <3>2. q2 - g = q - g + e + Ub(r, Months) - Ub(task[x], Months)
      <4>1. task[x].when \in Months <=> task[x].when # "past"
        BY <2>3 DEF Months, Periods
      <4>a. Ub(r, Months) - Ub(task[x], Months) = IF task[x].when \in Months THEN amount ELSE 0
        BY <2>7
      <4>b. CASE task[x].when \in Months
        BY <2>3, <2>6, <2>7, <2>8, <3>1, <4>1, <4>a, <4>b
      <4>c. CASE task[x].when \notin Months
        BY <2>3, <2>6, <2>7, <2>8, <3>1, <4>1, <4>a, <4>c
      <4> QED
        BY <4>b, <4>c
    <3>3. p + e <= p /\ e + Mc(r, Months) <= Mc(task[x], Months)
      BY <2>7, <2>8
    <3>4. Account(p, MonthlyCap, q, g, Months)
      BY <1>b, <3>1
    <3>5. Account(p, MonthlyCap, q2, g, Months)'
      BY <1>f, <1>n, <2>2, <2>4, <3>2, <3>3, <3>4
    <3>6. p = month' /\ q2 = bg'.month /\ g = lost'.month
      BY <2>2, <3>1
    <3> QED
      BY <3>5, <3>6 DEF Account
  <2>11. reserved' = reserved - task[x].grant + r.grant
    BY <1>a, <2>2, <2>3, <2>4
  <2> QED
    BY <1>a, <1>c, <2>2, <2>4, <2>5, <2>6, <2>9, <2>10, <2>11
\* What a run that ends has to be booked for, in either period.
<1>g. ASSUME NEW x \in Tasks, NEW r, task[x].st = "running", r = Ended(task[x].grant)
      PROVE  /\ r \in TaskRow /\ TaskOK(r) /\ r.grant = task[x].grant /\ task[x].grant \in Nat
             /\ task[x].spent \in Nat /\ task[x].when \in Periods
             /\ Ub(task[x], Days) = (IF task[x].when = "today" THEN task[x].spent ELSE 0)
             /\ Ub(task[x], Months) = (IF task[x].when # "past" THEN task[x].spent ELSE 0)
             /\ \A P : /\ Ub(r, P) = 0 /\ Mc(r, P) = 0
                       /\ Ub(task[x], P) \in Nat /\ Mc(task[x], P) \in Nat
                       /\ Ub(task[x], P) <= Mc(task[x], P)
  <2>1. /\ r \in TaskRow /\ r.st = "ended" /\ r.grant = task[x].grant
        /\ task[x].grant \in Nat /\ task[x].spent \in Nat /\ task[x].when \in Periods
    <3>1. task[x].grant \in Nat /\ task[x].spent \in Nat /\ task[x].when \in Periods
      BY <1>a DEF TaskRow
    <3> QED
      BY <1>g, <3>1 DEF TaskRow, Ended, Idle, Periods
  <2>2. TaskOK(r)
    BY <2>1 DEF TaskOK
  <2>3. /\ Ub(task[x], Days) = (IF task[x].when = "today" THEN task[x].spent ELSE 0)
        /\ Ub(task[x], Months) = (IF task[x].when # "past" THEN task[x].spent ELSE 0)
    BY <1>g, <2>1 DEF Ub, Days, Months, Periods
  <2>4. ASSUME NEW P
        PROVE  /\ Ub(r, P) = 0 /\ Mc(r, P) = 0
               /\ Ub(task[x], P) \in Nat /\ Mc(task[x], P) \in Nat
               /\ Ub(task[x], P) <= Mc(task[x], P)
    <3>1. Ub(r, P) = 0 /\ Mc(r, P) = 0
      BY <2>1 DEF Ub, Mc
    <3>2. Ub(task[x], P) \in Nat /\ Mc(task[x], P) \in Nat
      BY <1>a, RowNumbers
    <3>3. task[x].spent <= task[x].grant + (MaxTurn - 1)
      BY <1>a, <1>g DEF TaskOK
    <3>4. Ub(task[x], P) <= Mc(task[x], P)
      BY <1>g, <3>2, <3>3 DEF Ub, Mc
    <3> QED
      BY <3>1, <3>2, <3>4
  <2> QED
    BY <2>1, <2>2, <2>3, <2>4
<1>7. ASSUME NEW x \in Tasks, Book(x), task[x].st = "running" PROVE BudgetInv'
  <2>1. PICK r : r = Ended(task[x].grant)
    OBVIOUS
  <2>2. /\ task[x].st = "running" /\ task' = [task EXCEPT ![x] = r]
        /\ UNCHANGED <<reserved, chat, call, bg, lost, losses>>
    BY <1>7, <2>1 DEF Book
  <2>3. /\ today' = today + (IF task[x].when = "today" THEN task[x].spent ELSE 0)
        /\ month' = month + (IF task[x].when # "past" THEN task[x].spent ELSE 0)
    BY <1>7 DEF Book, AddTo
  <2>4. /\ r \in TaskRow /\ TaskOK(r) /\ r.grant = task[x].grant /\ task[x].grant \in Nat
        /\ task[x].spent \in Nat /\ task[x].when \in Periods
        /\ Ub(task[x], Days) = (IF task[x].when = "today" THEN task[x].spent ELSE 0)
        /\ Ub(task[x], Months) = (IF task[x].when # "past" THEN task[x].spent ELSE 0)
        /\ \A P : /\ Ub(r, P) = 0 /\ Mc(r, P) = 0
                  /\ Ub(task[x], P) \in Nat /\ Mc(task[x], P) \in Nat
                  /\ Ub(task[x], P) <= Mc(task[x], P)
    BY <1>g, <2>1, <2>2
  <2>5. today' = today + Ub(task[x], Days) /\ month' = month + Ub(task[x], Months)
    BY <2>3, <2>4
  <2>6. ASSUME NEW P, NEW cap \in Nat, NEW rec \in Nat, NEW sp \in Nat, NEW gone \in Nat,
               Account(rec, cap, sp, gone, P), NEW rec2 \in Nat, rec2 = rec + Ub(task[x], P)
        PROVE  Account(rec2, cap, sp, gone, P)'
    <3>1. PICK e \in Int : e = Ub(task[x], P)
      BY <2>4
    <3>2. sp - gone = sp - gone + e + Ub(r, P) - Ub(task[x], P)
      BY <2>4, <3>1
    <3>3. rec + e <= rec2 /\ e + Mc(r, P) <= Mc(task[x], P)
      BY <2>4, <2>6, <3>1
    <3> QED
      BY <1>f, <2>2, <2>4, <2>6, <3>2, <3>3
  <2>7. Account(today, DailyCap, bg.day, lost.day, Days)' /\ today' \in Nat
    <3>1. PICK p \in Nat, q \in Nat, g \in Nat, p2 \in Nat :
            p = today /\ q = bg.day /\ g = lost.day /\ p2 = today'
      BY <1>a, <2>4, <2>5
    <3>2. Account(p2, DailyCap, q, g, Days)'
      BY <1>b, <1>n, <2>5, <2>6, <3>1
    <3>3. p2 = today' /\ q = bg'.day /\ g = lost'.day
      BY <2>2, <3>1
    <3> QED
      BY <3>2, <3>3 DEF Account
  <2>8. Account(month, MonthlyCap, bg.month, lost.month, Months)' /\ month' \in Nat
    <3>1. PICK p \in Nat, q \in Nat, g \in Nat, p2 \in Nat :
            p = month /\ q = bg.month /\ g = lost.month /\ p2 = month'
      BY <1>a, <2>4, <2>5
    <3>2. Account(p2, MonthlyCap, q, g, Months)'
      BY <1>b, <1>n, <2>5, <2>6, <3>1
    <3>3. p2 = month' /\ q = bg'.month /\ g = lost'.month
      BY <2>2, <3>1
    <3> QED
      BY <3>2, <3>3 DEF Account
  <2>9. reserved' = reserved - task[x].grant + r.grant
    BY <1>a, <2>2, <2>4
  <2> QED
    BY <1>a, <1>c, <2>2, <2>4, <2>7, <2>8, <2>9
<1>8. ASSUME NEW x \in Tasks, BookFails(x), task[x].st = "running" PROVE BudgetInv'
  <2>1. PICK r : r = Ended(task[x].grant)
    OBVIOUS
  <2>2. /\ task[x].st = "running" /\ task' = [task EXCEPT ![x] = r]
        /\ lost' = AddTo(lost, task[x].spent, task[x].when) /\ losses' = losses + 1
        /\ UNCHANGED <<today, month, reserved, chat, call, bg>>
    BY <1>8, <2>1 DEF BookFails
  <2>3. /\ r \in TaskRow /\ TaskOK(r) /\ r.grant = task[x].grant /\ task[x].grant \in Nat
        /\ task[x].spent \in Nat /\ task[x].when \in Periods
        /\ Ub(task[x], Days) = (IF task[x].when = "today" THEN task[x].spent ELSE 0)
        /\ Ub(task[x], Months) = (IF task[x].when # "past" THEN task[x].spent ELSE 0)
        /\ \A P : /\ Ub(r, P) = 0 /\ Mc(r, P) = 0
                  /\ Ub(task[x], P) \in Nat /\ Mc(task[x], P) \in Nat
                  /\ Ub(task[x], P) <= Mc(task[x], P)
    BY <1>g, <2>1, <2>2
  <2>4. /\ lost' \in Amounts
        /\ lost'.day = lost.day + Ub(task[x], Days)
        /\ lost'.month = lost.month + Ub(task[x], Months)
    BY <1>a, <2>2, <2>3 DEF AddTo, Amounts
  <2>5. ASSUME NEW P, NEW cap \in Nat, NEW rec \in Nat, NEW sp \in Nat, NEW gone \in Nat,
               Account(rec, cap, sp, gone, P), NEW gone2 \in Nat, gone2 = gone + Ub(task[x], P)
        PROVE  Account(rec, cap, sp, gone2, P)'
    <3>1. PICK e \in Int : e = 0
      OBVIOUS
    <3>2. sp - gone2 = sp - gone + e + Ub(r, P) - Ub(task[x], P)
      BY <2>3, <2>5, <3>1
    <3>3. rec + e <= rec /\ e + Mc(r, P) <= Mc(task[x], P)
      BY <2>3, <2>5, <3>1
    <3> QED
      BY <1>f, <2>2, <2>3, <2>5, <3>2, <3>3
  <2>6. Account(today, DailyCap, bg.day, lost.day, Days)'
    <3>1. PICK p \in Nat, q \in Nat, g \in Nat, g2 \in Nat :
            p = today /\ q = bg.day /\ g = lost.day /\ g2 = lost'.day
      BY <1>a, <2>3, <2>4
    <3>2. Account(p, DailyCap, q, g2, Days)'
      BY <1>b, <1>n, <2>4, <2>5, <3>1
    <3>3. p = today' /\ q = bg'.day /\ g2 = lost'.day
      BY <2>2, <3>1
    <3> QED
      BY <3>2, <3>3 DEF Account
  <2>7. Account(month, MonthlyCap, bg.month, lost.month, Months)'
    <3>1. PICK p \in Nat, q \in Nat, g \in Nat, g2 \in Nat :
            p = month /\ q = bg.month /\ g = lost.month /\ g2 = lost'.month
      BY <1>a, <2>3, <2>4
    <3>2. Account(p, MonthlyCap, q, g2, Months)'
      BY <1>b, <1>n, <2>4, <2>5, <3>1
    <3>3. p = month' /\ q = bg'.month /\ g2 = lost'.month
      BY <2>2, <3>1
    <3> QED
      BY <3>2, <3>3 DEF Account
  <2>8. reserved' = reserved - task[x].grant + r.grant /\ losses' \in Nat
    BY <1>a, <2>2, <2>3
  <2> QED
    BY <1>a, <1>c, <2>2, <2>3, <2>4, <2>6, <2>7, <2>8
\* Nothing but recorded spend, of chats, that grows.
<1>h. ASSUME UNCHANGED <<reserved, task, bg, lost, losses>>, chat' \in Periods \cup {"none"},
             call' \in Calls,
             today' \in Nat, month' \in Nat, today' >= today, month' >= month
      PROVE  BudgetInv'
  <2>1. ASSUME NEW P, NEW cap \in Nat, NEW rec \in Nat, NEW sp \in Nat, NEW gone \in Nat,
               Account(rec, cap, sp, gone, P), NEW rec2 \in Nat, rec2 >= rec
        PROVE  Account(rec2, cap, sp, gone, P)'
    <3>1. Total(Unbooked(P)) \in Nat /\ Total(MayCost(P)) \in Nat
      BY <1>a, SumsTyped
    <3>2. Total(Unbooked(P))' = Total(Unbooked(P)) /\ Total(MayCost(P))' = Total(MayCost(P))
      BY <1>h DEF Total, Unbooked, MayCost, Mc
    <3>3. PICK u \in Nat, m \in Nat : u = Total(Unbooked(P)) /\ m = Total(MayCost(P))
      BY <3>1
    <3>4. sp - gone - u <= rec2 /\ sp - gone - u + m <= cap + Slack
      BY <2>1, <3>3 DEF Account
    <3> QED
      BY <3>2, <3>3, <3>4 DEF Account, Slack
  <2>2. PICK p1 \in Nat, q1 \in Nat, g1 \in Nat, r1 \in Nat :
          p1 = today /\ q1 = bg.day /\ g1 = lost.day /\ r1 = today'
    BY <1>a, <1>h
  <2>3. PICK p2 \in Nat, q2 \in Nat, g2 \in Nat, r2 \in Nat :
          p2 = month /\ q2 = bg.month /\ g2 = lost.month /\ r2 = month'
    BY <1>a, <1>h
  <2>4. Account(r1, DailyCap, q1, g1, Days)' /\ Account(r2, MonthlyCap, q2, g2, Months)'
    BY <1>b, <1>h, <1>n, <2>1, <2>2, <2>3
  <2>5. /\ r1 = today' /\ q1 = bg'.day /\ g1 = lost'.day
        /\ r2 = month' /\ q2 = bg'.month /\ g2 = lost'.month
    BY <1>h, <2>2, <2>3
  <2>6. /\ Account(today, DailyCap, bg.day, lost.day, Days)'
        /\ Account(month, MonthlyCap, bg.month, lost.month, Months)'
    BY <2>4, <2>5 DEF Account
  <2>7. TypeOK'
    BY <1>a, <1>h DEF TypeOK, Calls
  <2>8. ReservedIsGranted'
    BY <1>a, <1>h DEF ReservedIsGranted, Total
  <2>9. \A y \in Tasks : TaskOK(task[y])'
    BY <1>a, <1>h DEF TaskOK
  <2> QED
    BY <1>a, <1>h, <2>6, <2>7, <2>8, <2>9 DEF BudgetInv, Days, Months
<1>9. ASSUME ChatStarts PROVE BudgetInv'
  BY <1>a, <1>h, <1>9 DEF ChatStarts, Periods
<1>10. ASSUME NEW amount \in 0 .. MaxChat, ChatEnds(amount) PROVE BudgetInv'
  <2>1. amount \in Nat
    BY BudgetAssumption
  <2>2. /\ today' = today + (IF chat = "today" THEN amount ELSE 0)
        /\ month' = month + (IF chat # "past" THEN amount ELSE 0)
        /\ chat' = "none" /\ UNCHANGED <<reserved, task, call, bg, lost, losses>>
    BY <1>10 DEF ChatEnds, AddTo
  <2>3. today' \in Nat /\ month' \in Nat /\ today' >= today /\ month' >= month
    BY <1>a, <2>1, <2>2
  <2> QED
    BY <1>a, <1>h, <2>2, <2>3
<1>18. ASSUME JudgeAllowed \/ JudgeRefused PROVE BudgetInv'
  <2>1. call' \in Calls /\ UNCHANGED <<today, month, reserved, task, chat, bg, lost, losses>>
    BY <1>18 DEF JudgeAllowed, JudgeRefused, NoCall, Calls, Periods
  <2> QED
    BY <1>a, <1>h, <2>1 DEF TypeOK
<1>19. ASSUME NEW worst \in 1 .. MaxJudge, JudgeBooks(worst) PROVE BudgetInv'
  <2>1. worst \in Nat
    BY BudgetAssumption
  <2>2. call' \in Calls /\ UNCHANGED <<today, month, reserved, task, chat, bg, lost, losses>>
    BY <1>19, <2>1 DEF JudgeBooks, Calls, Periods
  <2> QED
    BY <1>a, <1>h, <2>2 DEF TypeOK
<1>20. ASSUME NEW paid \in 0 .. call.amount, JudgeSettles(paid) PROVE BudgetInv'
  <2>1. paid \in Nat
    BY <1>a DEF Calls
  <2>2. /\ today' = today + (IF call.when = "today" THEN paid ELSE 0)
        /\ month' = month + (IF call.when # "past" THEN paid ELSE 0)
        /\ UNCHANGED <<reserved, task, chat, bg, lost, losses>>
        /\ call' \in Calls
    BY <1>20 DEF JudgeSettles, AddTo, NoCall, Calls, Periods
  <2>3. today' \in Nat /\ month' \in Nat /\ today' >= today /\ month' >= month
    BY <1>a, <2>1, <2>2
  <2> QED
    BY <1>a, <1>h, <2>2, <2>3 DEF TypeOK
<1>11. ASSUME UNCHANGED vars PROVE BudgetInv'
  BY <1>a, <1>h, <1>11 DEF vars, TypeOK
<1>12. ASSUME Crash PROVE BudgetInv'
  <2> DEFINE open == {x \in Tasks : task[x].st \in Running}
             gone == [Idle EXCEPT !.st = "interrupted"]
  <2>1. /\ losses' = losses + Cardinality(open)
        /\ lost' = [day |-> lost.day + Total(Unbooked(Days)),
                    month |-> lost.month + Total(Unbooked(Months))]
        /\ reserved' = 0 /\ chat' = "none" /\ call' = NoCall
        /\ today' = computeRecordedSpend.day /\ month' = computeRecordedSpend.month
        /\ UNCHANGED bg
    BY <1>12 DEF Crash, Days, Months
  <2>2. /\ task' \in [Tasks -> TaskRow]
        /\ \A x \in Tasks : \/ task'[x] = gone
                            \/ /\ task'[x] = task[x]
                               /\ task[x].st \in {"idle", "due", "interrupted"}
    <3>1. /\ task' = [x \in Tasks |->
                         IF task[x].st \in {"admitted", "manual", "ended"} \cup Running
                         THEN gone
                         ELSE task[x]]
      BY <1>12 DEF Crash
    <3>2. \A x \in Tasks : task[x] \in TaskRow
      BY <1>a
    <3>3. gone \in TaskRow
      BY <1>z
    <3>4. \A x \in Tasks : task[x].st \in {"idle", "due", "admitted", "manual", "ended",
                                           "interrupted"} \cup Running
      BY <3>2 DEF TaskRow
    <3> HIDE DEF gone
    <3> QED
      BY <3>1, <3>2, <3>3, <3>4
  <2>3. \A x \in Tasks : /\ TaskOK(task'[x]) /\ task'[x].grant = 0
                         /\ task'[x].st \in {"idle", "due", "interrupted"}
    <3>1. gone.st = "interrupted" /\ gone.grant = 0 /\ TaskOK(gone)
      BY <1>z
    <3>2. \A x \in Tasks : task[x].st \in {"idle", "due", "interrupted"} => task[x].grant = 0
      BY <1>a DEF TaskOK
    <3> HIDE DEF gone
    <3> QED
      BY <1>a, <2>2, <3>1, <3>2
  <2>4. ASSUME NEW P
        PROVE  Total(Unbooked(P))' = 0 /\ Total(MayCost(P))' = 0 /\ Total(Granted)' = 0
    <3>1. PICK f, g, h : f = Unbooked(P)' /\ g = MayCost(P)' /\ h = Granted'
      OBVIOUS
    <3>2. f = [x \in Tasks |-> 0] /\ g = [x \in Tasks |-> 0] /\ h = [x \in Tasks |-> 0]
      BY <2>3, <3>1 DEF Unbooked, MayCost, Mc, Granted
    <3>3. Total(f) = 0 /\ Total(g) = 0 /\ Total(h) = 0
      BY <3>2, TotalZero
    <3> QED
      BY <3>1, <3>3 DEF Total
  <2>5. Total(Unbooked(Days)) \in Nat /\ Total(Unbooked(Months)) \in Nat
    BY <1>a, SumsTyped
  <2>6. /\ lost' \in Amounts /\ lost'.day = lost.day + Total(Unbooked(Days))
        /\ lost'.month = lost.month + Total(Unbooked(Months))
    BY <1>a, <2>1, <2>5 DEF Amounts
  <2>7. losses' \in Nat
    <3>1. IsFiniteSet(open)
      BY BudgetAssumption, FS_Subset
    <3>2. Cardinality(open) \in Nat
      BY <3>1, FS_CardinalityType
    <3> QED
      BY <1>a, <2>1, <3>2
  <2>a. /\ today' \in Nat /\ today' >= today /\ month' \in Nat /\ month' >= month
        /\ call' \in Calls
    BY <1>a, <2>1, RecordedNat DEF NoCall, Calls, Periods
  <2>8. ASSUME NEW P, NEW cap \in Nat, NEW rec \in Nat, NEW sp \in Nat, NEW g \in Nat,
               Account(rec, cap, sp, g, P), NEW g2 \in Nat, g2 = g + Total(Unbooked(P)),
               NEW rec2 \in Nat, rec2 >= rec
        PROVE  Account(rec2, cap, sp, g2, P)'
    <3>1. Total(Unbooked(P)) \in Nat /\ Total(MayCost(P)) \in Nat /\ Slack \in Nat
      BY <1>a, SumsTyped, Numbers
    <3>2. /\ sp - g - Total(Unbooked(P)) <= rec
          /\ sp - g - Total(Unbooked(P)) + Total(MayCost(P)) <= cap + Slack
      BY <2>8 DEF Account
    <3>3. sp - g2 - 0 <= rec2 /\ sp - g2 - 0 + 0 <= cap + Slack
      BY <2>8, <3>1, <3>2
    <3> QED
      BY <2>4, <3>3 DEF Account, Slack
  <2>9. Account(today, DailyCap, bg.day, lost.day, Days)'
    <3>1. PICK p \in Nat, p2 \in Nat, q \in Nat, g \in Nat, g2 \in Nat :
            p = today /\ p2 = today' /\ q = bg.day /\ g = lost.day /\ g2 = lost'.day
      BY <1>a, <2>6, <2>a DEF Amounts
    <3>2. Account(p2, DailyCap, q, g2, Days)'
      BY <1>b, <1>n, <2>6, <2>8, <2>a, <3>1
    <3>3. p2 = today' /\ q = bg'.day /\ g2 = lost'.day
      BY <2>1, <3>1
    <3> QED
      BY <3>2, <3>3 DEF Account
  <2>10. Account(month, MonthlyCap, bg.month, lost.month, Months)'
    <3>1. PICK p \in Nat, p2 \in Nat, q \in Nat, g \in Nat, g2 \in Nat :
            p = month /\ p2 = month' /\ q = bg.month /\ g = lost.month /\ g2 = lost'.month
      BY <1>a, <2>6, <2>a DEF Amounts
    <3>2. Account(p2, MonthlyCap, q, g2, Months)'
      BY <1>b, <1>n, <2>6, <2>8, <2>a, <3>1
    <3>3. p2 = month' /\ q = bg'.month /\ g2 = lost'.month
      BY <2>1, <3>1
    <3> QED
      BY <3>2, <3>3 DEF Account
  <2>11. TypeOK'
    BY <1>a, <2>1, <2>2, <2>6, <2>7, <2>a DEF TypeOK, TaskRow, Calls
  <2>12. ReservedIsGranted'
    BY <2>1, <2>4 DEF ReservedIsGranted, Granted
  <2>13. \A y \in Tasks : TaskOK(task[y])'
    BY <2>3 DEF TaskOK
  <2>14. reserved' <= DailyCap /\ reserved' <= MonthlyCap
    BY <1>n, <2>1
  <2> QED
    BY <2>9, <2>10, <2>11, <2>12, <2>13, <2>14 DEF BudgetInv, Days, Months
<1>13. ASSUME NEW nm \in BOOLEAN, NewDay(nm) PROVE BudgetInv'
  <2>1. /\ today' = 0 /\ month' = (IF nm THEN 0 ELSE month)
        /\ bg' = [day |-> 0, month |-> IF nm THEN 0 ELSE bg.month]
        /\ lost' = [day |-> 0, month |-> IF nm THEN 0 ELSE lost.month]
        /\ task' = [x \in Tasks |-> AgedTask(task[x], nm)]
        /\ chat' = Aged(chat, nm)
        /\ call' = IF call.st = "booked" THEN [call EXCEPT !.when = Aged(call.when, nm)] ELSE call
        /\ UNCHANGED <<reserved, losses>>
    BY <1>13 DEF NewDay
  <2>2. ASSUME NEW w \in Periods
        PROVE  /\ Aged(w, nm) \in Periods \ {"today"}
               /\ nm => Aged(w, nm) = "past"
               /\ ~nm => (Aged(w, nm) \in Months <=> w \in Months)
    BY DEF Aged, Periods, Months
  <2>3. chat' \in Periods \cup {"none"}
    <3>1. chat \in Periods \cup {"none"}
      BY <1>a DEF TypeOK
    <3>2. CASE chat = "none"
      BY <2>1, <3>2 DEF Aged
    <3>3. CASE chat \in Periods
      BY <2>1, <2>2, <3>3
    <3> QED
      BY <3>1, <3>2, <3>3
  <2>4. ASSUME NEW r \in TaskRow
        PROVE  /\ AgedTask(r, nm) \in TaskRow
               /\ AgedTask(r, nm).st = r.st /\ AgedTask(r, nm).grant = r.grant
               /\ AgedTask(r, nm).spent = r.spent
               /\ r.st = "running" => AgedTask(r, nm).when = Aged(r.when, nm)
    <3>1. Aged(r.when, nm) \in Periods
      BY <2>2 DEF TaskRow
    <3> QED
      BY <3>1 DEF AgedTask, TaskRow, Running
  <2>5. /\ task' \in [Tasks -> TaskRow]
        /\ \A x \in Tasks : /\ task'[x].st = task[x].st /\ task'[x].grant = task[x].grant
                            /\ task'[x].spent = task[x].spent
                            /\ task[x].when \in Periods
                            /\ task[x].st = "running" => task'[x].when = Aged(task[x].when, nm)
    <3>1. \A x \in Tasks : task[x] \in TaskRow /\ task'[x] = AgedTask(task[x], nm)
      BY <1>a, <2>1
    <3>2. \A x \in Tasks : task'[x] \in TaskRow
      BY <2>4, <3>1
    <3>3. task' \in [Tasks -> TaskRow]
      BY <2>1, <3>2
    <3>4. \A x \in Tasks : task[x].when \in Periods
      BY <3>1 DEF TaskRow
    <3> QED
      BY <2>4, <3>1, <3>3, <3>4
  <2>6. Total(Granted)' = reserved
    <3>1. Granted' = Granted
      BY <2>5 DEF Granted
    <3> QED
      BY <1>a, <3>1 DEF Total
  <2>7. ASSUME NEW P, \A w \in Periods : Aged(w, nm) \notin P
        PROVE  Total(Unbooked(P))' = 0
    <3>1. PICK f : f = Unbooked(P)'
      OBVIOUS
    <3>2. f = [x \in Tasks |-> 0]
      BY <2>5, <2>7, <3>1 DEF Unbooked
    <3>3. Total(f) = 0
      BY <3>2, TotalZero
    <3> QED
      BY <3>1, <3>3 DEF Total
  <2>8. ASSUME NEW P, \A w \in Periods : Aged(w, nm) \notin P, NEW cap \in Nat, reserved <= cap
        PROVE  Account(0, cap, 0, 0, P)'
    <3>1. PICK z \in Nat : z = 0
      OBVIOUS
    <3>2. z = Total(Unbooked(P))'
      BY <2>7, <2>8, <3>1
    <3>3. PICK t \in Nat : t = Total(Granted)' /\ t = reserved
      BY <1>a, <2>6
    <3>4. z - z - z <= z /\ z + t <= cap
      BY <2>8, <3>1, <3>3
    <3>5. Account(z, cap, z, z, P)'
      BY <2>5, <2>8, <3>2, <3>3, <3>4, FreshAccount
    <3> QED
      BY <3>1, <3>5
  <2>9. Account(today, DailyCap, bg.day, lost.day, Days)'
    <3>1. \A w \in Periods : Aged(w, nm) \notin Days
      BY <2>2 DEF Days
    <3>2. Account(0, DailyCap, 0, 0, Days)'
      BY <1>a, <1>n, <2>8, <3>1
    <3>3. today' = 0 /\ bg'.day = 0 /\ lost'.day = 0
      BY <2>1
    <3> QED
      BY <3>2, <3>3 DEF Account
  <2>10. Account(month, MonthlyCap, bg.month, lost.month, Months)'
    <3>1. CASE nm
      <4>1. \A w \in Periods : Aged(w, nm) \notin Months
        BY <2>2, <3>1 DEF Months
      <4>2. Account(0, MonthlyCap, 0, 0, Months)'
        BY <1>a, <1>n, <2>8, <4>1
      <4>3. month' = 0 /\ bg'.month = 0 /\ lost'.month = 0
        BY <2>1, <3>1
      <4> QED
        BY <4>2, <4>3 DEF Account
    <3>2. CASE ~nm
      <4>1. month' = month /\ bg'.month = bg.month /\ lost'.month = lost.month
        BY <2>1, <3>2
      <4>2. \A x \in Tasks : task[x].st = "running" =>
                               (task'[x].when \in Months <=> task[x].when \in Months)
        BY <2>2, <2>5, <3>2
      <4>3. Unbooked(Months)' = Unbooked(Months)
        BY <2>5, <4>2 DEF Unbooked, Months
      <4>4. MayCost(Months)' = MayCost(Months)
        BY <2>5, <4>2 DEF MayCost, Mc, Months
      <4>5. /\ Total(Unbooked(Months))' = Total(Unbooked(Months))
            /\ Total(MayCost(Months))' = Total(MayCost(Months))
        BY <4>3, <4>4 DEF Total
      <4> QED
        BY <1>b, <4>1, <4>5 DEF Account, Slack
    <3> QED
      BY <3>1, <3>2
  <2>11. bg' \in Amounts /\ lost' \in Amounts /\ today' \in Nat /\ month' \in Nat
    BY <1>a, <2>1 DEF Amounts
  <2>a. call' \in Calls
    <3>1. call.when \in Periods
      BY <1>a DEF Calls
    <3>2. PICK w \in Periods : w = Aged(call.when, nm)
      BY <2>2, <3>1
    <3> QED
      BY <1>a, <2>1, <3>2 DEF Calls
  <2>12. TypeOK'
    BY <1>a, <2>1, <2>3, <2>5, <2>11, <2>a DEF TypeOK, TaskRow, Calls
  <2>13. ReservedIsGranted'
    BY <2>1, <2>6 DEF ReservedIsGranted, Granted
  <2>14. \A y \in Tasks : TaskOK(task[y])'
    BY <1>a, <2>5 DEF TaskOK
  <2> QED
    BY <1>a, <2>1, <2>9, <2>10, <2>12, <2>13, <2>14 DEF BudgetInv, Days, Months
<1> QED
  BY <1>1, <1>2, <1>3, <1>4, <1>5, <1>6, <1>7, <1>8, <1>9, <1>10, <1>11, <1>12, <1>13,
     <1>14, <1>15, <1>16, <1>17, <1>18, <1>19, <1>20
  DEF Next

-----------------------------------------------------------------------------
(* What follows.                                                            *)

\* The reservation, what the runs were granted and what they spent are related
\* as BudgetInv says, in every state of session-budget.ts and its callers.
THEOREM Invariance == Spec => []BudgetInv
BY BudgetInit, BudgetStep, PTL DEF Spec

\* Recorded spend, reservation and history stay natural numbers: releasing
\* never takes the reservation below zero.
THEOREM TypeCorrect == Spec => []TypeOK
<1>1. BudgetInv => TypeOK
  BY DEF BudgetInv
<1> QED
  BY <1>1, Invariance, PTL

\* For every number of triggers: what reservePersistentBudget holds is what the
\* runs going on were granted, so no way out of a run leaks a reservation.
THEOREM ReservationExact == Spec => []ReservedIsGranted
<1>1. BudgetInv => ReservedIsGranted
  BY DEF BudgetInv
<1> QED
  BY <1>1, Invariance, PTL

\* For every number of triggers and every price of a turn: what the runs that
\* reserve really spend passes a cap by less than one turn each, whatever runs
\* started by hand, chats and judges spend beside them; spend of theirs that was
\* never booked aside.
THEOREM SpendNearCap == Spec => []SpendBounded
<1>1. ASSUME BudgetInv PROVE SpendBounded
  <2>1. /\ task \in [Tasks -> TaskRow] /\ \A x \in Tasks : TaskOK(task[x])
        /\ bg.day \in Nat /\ bg.month \in Nat /\ lost.day \in Nat /\ lost.month \in Nat
    BY <1>1 DEF BudgetInv, TypeOK, TaskRow, Amounts
  <2>2. ASSUME NEW P, NEW cap \in Nat, NEW rec, NEW sp \in Nat, NEW gone \in Nat,
               Account(rec, cap, sp, gone, P)
        PROVE  sp <= cap + gone + Slack
    <3>1. ASSUME NEW r \in TaskRow, TaskOK(r) PROVE Ub(r, P) <= Mc(r, P)
      <4>1. r.spent \in Nat /\ r.grant \in Nat /\ Mc(r, P) \in Nat
        BY RowNumbers DEF TaskRow
      <4>2. r.st = "running" => r.spent <= r.grant + (MaxTurn - 1)
        BY <3>1 DEF TaskOK
      <4> QED
        BY <4>1, <4>2 DEF Ub, Mc
    <3>2. /\ Unbooked(P) \in [Tasks -> Nat] /\ MayCost(P) \in [Tasks -> Nat]
          /\ Total(Unbooked(P)) \in Nat /\ Total(MayCost(P)) \in Nat
          /\ Unbooked(P) = [x \in Tasks |-> Ub(task[x], P)]
      BY <2>1, SumsTyped
    <3>3. \A x \in Tasks : Unbooked(P)[x] <= MayCost(P)[x]
      BY <2>1, <3>1, <3>2 DEF MayCost
    <3>4. Total(Unbooked(P)) <= Total(MayCost(P))
      BY <3>2, <3>3, TotalMonotone
    <3>5. sp - gone - Total(Unbooked(P)) + Total(MayCost(P)) <= cap + Slack
      BY <2>2 DEF Account
    <3> QED
      BY <3>2, <3>4, <3>5, Numbers
  <2>3. /\ bg.day <= DailyCap + lost.day + Slack
        /\ bg.month <= MonthlyCap + lost.month + Slack
    BY <1>1, <2>1, <2>2, Numbers DEF BudgetInv
  <2> QED
    BY <2>3 DEF SpendBounded, Slack
<1> QED
  BY <1>1, Invariance, PTL

=============================================================================
