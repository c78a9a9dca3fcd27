---------------------------- MODULE Budgets_proofs ----------------------------
(***************************************************************************)
(* Proofs about Budgets, for any number of lines, executions and requests. *)
(***************************************************************************)
EXTENDS Budgets, FiniteSetTheorems, WellFoundedInduction, TLAPS

(***************************************************************************)
(* Sums.  Total folds over a finite set in an order that CHOOSE picks; what *)
(* the service relies on is that the order does not matter.  Each fact is  *)
(* shown of a smallest set that would refute it.                           *)
(***************************************************************************)

\* A number of a set that no other is below.
LEMMA LeastNumber ==
  ASSUME NEW S \in SUBSET Nat, S # {}
  PROVE  \E n \in S : \A m \in S : n <= m
<1>1. \E n \in S : \A m \in S : ~(<<m, n>> \in OpToRel(<, Nat))
  BY NatLessThanWellFounded, WFMin
<1>2. \A m, n \in Nat : <<m, n>> \in OpToRel(<, Nat) <=> m < n
  BY DEF OpToRel
<1>3. \E n \in S : \A m \in S : ~(m < n)
  BY <1>1, <1>2
<1> QED  BY <1>3

\* A family of finite sets has a smallest member.
LEMMA SmallestSet ==
  ASSUME NEW es, IsFiniteSet(es), NEW C \in SUBSET SUBSET es, C # {}
  PROVE  \E T \in C : \A U \in C : U \subseteq T => U = T
<1> DEFINE sizes == {Cardinality(T) : T \in C}
<1>1. \A T \in SUBSET es : IsFiniteSet(T) /\ Cardinality(T) \in Nat
  BY FS_Subset, FS_CardinalityType
<1>2. sizes \in SUBSET Nat /\ sizes # {}
  BY <1>1
<1>3. PICK n \in sizes : \A m \in sizes : n <= m
  BY <1>2, LeastNumber
<1>4. PICK T \in C : Cardinality(T) = n
  BY <1>3
<1>5. ASSUME NEW U \in C, U \subseteq T PROVE U = T
  <2>1. IsFiniteSet(T) /\ Cardinality(T) \in Nat /\ Cardinality(U) \in Nat
    BY <1>1
  <2>2. Cardinality(T) <= Cardinality(U)
    BY <1>3, <1>4
  <2>3. Cardinality(U) <= Cardinality(T) /\ (Cardinality(U) = Cardinality(T) => U = T)
    BY <1>5, <2>1, FS_Subset
  <2> QED  BY <2>1, <2>2, <2>3
<1> QED  BY <1>4, <1>5

Some(s) == CHOOSE x \in s : TRUE

\* f holds the sums of the amounts of the subsets of es.
SumOn(f, es, rows) ==
  f = [s \in SUBSET es |->
         IF s = {} THEN 0 ELSE rows[Some(s)].amount + f[s \ {Some(s)}]]

TheSum(es, rows) == CHOOSE f : SumOn(f, es, rows)

LEMMA TotalIsSum ==
  ASSUME NEW es, NEW rows
  PROVE  Total(es, rows) = TheSum(es, rows)[es]
BY DEF Total, MapThenSumSet, MapThenFoldSet, TheSum, SumOn, Some

LEMMA SomeMember ==
  ASSUME NEW s, s # {}
  PROVE  Some(s) \in s
BY DEF Some

LEMMA SumOnAt ==
  ASSUME NEW es, NEW rows, NEW f, SumOn(f, es, rows), NEW s \in SUBSET es
  PROVE  f[s] = IF s = {} THEN 0 ELSE rows[Some(s)].amount + f[s \ {Some(s)}]
<1>1. f = [t \in SUBSET es |->
             IF t = {} THEN 0 ELSE rows[Some(t)].amount + f[t \ {Some(t)}]]
  BY DEF SumOn
<1> QED  BY <1>1

LEMMA SumUnique ==
  ASSUME NEW U, IsFiniteSet(U), NEW V \in SUBSET U, NEW rows,
         NEW f, SumOn(f, U, rows), NEW g, SumOn(g, V, rows)
  PROVE  \A W \in SUBSET V : f[W] = g[W]
<1> DEFINE C == {W \in SUBSET V : f[W] # g[W]}
<1> SUFFICES ASSUME C # {} PROVE FALSE
  OBVIOUS
<1>1. IsFiniteSet(V) /\ C \in SUBSET SUBSET V
  BY FS_Subset
<1>2. PICK W \in C : \A X \in C : X \subseteq W => X = W
  <2> HIDE DEF C
  <2> QED  BY <1>1, SmallestSet
<1>3. W \in SUBSET V /\ W \in SUBSET U /\ f[W] # g[W]
  BY <1>2
<1>4. W # {}
  <2> SUFFICES ASSUME W = {} PROVE FALSE
    OBVIOUS
  <2>1. f[W] = 0 /\ g[W] = 0
    BY <1>3, SumOnAt
  <2> QED  BY <1>3, <2>1
<1>5. Some(W) \in W
  BY <1>4, SomeMember
<1>6. f[W \ {Some(W)}] = g[W \ {Some(W)}]
  BY <1>2, <1>3, <1>5
<1> QED  BY <1>3, <1>4, <1>6, SumOnAt

LEMMA SumExists ==
  ASSUME NEW es, IsFiniteSet(es), NEW rows
  PROVE  SumOn(TheSum(es, rows), es, rows)
<1> DEFINE C == {T \in SUBSET es : ~\E f : SumOn(f, T, rows)}
<1>0. ASSUME NEW T, \E f : SumOn(f, T, rows) PROVE SumOn(TheSum(T, rows), T, rows)
  BY <1>0 DEF TheSum
<1> SUFFICES ASSUME C # {} PROVE FALSE
  BY <1>0
<1>1. PICK T \in C : \A U \in C : U \subseteq T => U = T
  <2>1. C \in SUBSET SUBSET es
    OBVIOUS
  <2> HIDE DEF C
  <2> QED  BY <2>1, SmallestSet
<1>2. T \in SUBSET es /\ ~\E f : SumOn(f, T, rows)
  BY <1>1
<1>3. \A U \in SUBSET T : U # T => SumOn(TheSum(U, rows), U, rows)
  BY <1>0, <1>1, <1>2
<1> DEFINE below(s) == s \ {Some(s)}
           F == [s \in SUBSET T |->
                   IF s = {} THEN 0
                   ELSE rows[Some(s)].amount + TheSum(below(s), rows)[below(s)]]
<1>4. ASSUME NEW U \in SUBSET T, U # T PROVE F[U] = TheSum(U, rows)[U]
  <2>1. SumOn(TheSum(U, rows), U, rows)
    BY <1>3, <1>4
  <2>2. TheSum(U, rows)[U] =
          IF U = {} THEN 0 ELSE rows[Some(U)].amount + TheSum(U, rows)[below(U)]
    BY <2>1, SumOnAt
  <2>3. CASE U = {}
    BY <2>2, <2>3
  <2>4. CASE U # {}
    <3>1. below(U) \in SUBSET U /\ below(U) \in SUBSET T /\ below(U) # T
      BY <1>4, <2>4, SomeMember
    <3>2. SumOn(TheSum(below(U), rows), below(U), rows) /\ IsFiniteSet(U)
      BY <1>2, <1>3, <3>1, FS_Subset
    <3>3. TheSum(U, rows)[below(U)] = TheSum(below(U), rows)[below(U)]
      BY <2>1, <3>1, <3>2, SumUnique
    <3> QED  BY <2>2, <2>4, <3>3
  <2> QED  BY <2>3, <2>4
<1>5. \A s \in SUBSET T : s # {} => below(s) \in SUBSET T /\ below(s) # T
  BY SomeMember
<1>6. \A s \in SUBSET T :
        F[s] = IF s = {} THEN 0 ELSE rows[Some(s)].amount + F[below(s)]
  BY <1>4, <1>5
<1>7. SumOn(F, T, rows)
  BY <1>6 DEF SumOn
<1> QED  BY <1>2, <1>7

LEMMA TotalUnfolds ==
  ASSUME NEW es, IsFiniteSet(es), NEW rows
  PROVE  /\ es = {} => Total(es, rows) = 0
         /\ es # {} => Total(es, rows) = rows[Some(es)].amount
                                           + Total(es \ {Some(es)}, rows)
<1> DEFINE rest == es \ {Some(es)}
<1>1. SumOn(TheSum(es, rows), es, rows) /\ SumOn(TheSum(rest, rows), rest, rows)
  BY SumExists, FS_Subset
<1>2. TheSum(es, rows)[rest] = TheSum(rest, rows)[rest]
  BY <1>1, SumUnique
<1>3. TheSum(es, rows)[es] = IF es = {} THEN 0
                             ELSE rows[Some(es)].amount + TheSum(es, rows)[rest]
  <2>1. PICK f : f = TheSum(es, rows)
    OBVIOUS
  <2>2. SumOn(f, es, rows) /\ es \in SUBSET es
    BY <1>1, <2>1
  <2>3. f[es] = IF es = {} THEN 0 ELSE rows[Some(es)].amount + f[rest]
    BY <2>2, SumOnAt
  <2> QED  BY <2>1, <2>3
<1>4. Total(es, rows) = TheSum(es, rows)[es] /\ Total(rest, rows) = TheSum(rest, rows)[rest]
  BY TotalIsSum
<1> QED  BY <1>2, <1>3, <1>4

\* The rows of these executions hold amounts.
Amounted(es, rows) == \A e \in es : rows[e].amount \in Nat

LEMMA TotalNat ==
  ASSUME NEW es, IsFiniteSet(es), NEW rows, Amounted(es, rows)
  PROVE  \A ds \in SUBSET es : Total(ds, rows) \in Nat
<1> DEFINE C == {T \in SUBSET es : Total(T, rows) \notin Nat}
<1> SUFFICES ASSUME C # {} PROVE FALSE
  OBVIOUS
<1>1. PICK T \in C : \A U \in C : U \subseteq T => U = T
  <2>1. C \in SUBSET SUBSET es
    OBVIOUS
  <2> HIDE DEF C
  <2> QED  BY <2>1, SmallestSet
<1>2. T \in SUBSET es /\ Total(T, rows) \notin Nat /\ IsFiniteSet(T)
  BY <1>1, FS_Subset
<1>3. T # {}
  <2>1. T = {} => Total(T, rows) = 0
    BY <1>2, TotalUnfolds
  <2> QED  BY <1>2, <2>1
<1>4. Some(T) \in T /\ Total(T, rows) = rows[Some(T)].amount + Total(T \ {Some(T)}, rows)
  BY <1>2, <1>3, SomeMember, TotalUnfolds
<1>5. Total(T \ {Some(T)}, rows) \in Nat
  BY <1>1, <1>2, <1>4
<1>6. rows[Some(T)].amount \in Nat
  BY <1>2, <1>4 DEF Amounted
<1> QED  BY <1>2, <1>4, <1>5, <1>6

\* The order does not matter: any member may be taken first.
LEMMA TotalTakes ==
  ASSUME NEW es, IsFiniteSet(es), NEW rows, Amounted(es, rows)
  PROVE  \A ds \in SUBSET es : \A x \in ds :
           Total(ds, rows) = rows[x].amount + Total(ds \ {x}, rows)
<1> DEFINE Takes(ds, x) == Total(ds, rows) = rows[x].amount + Total(ds \ {x}, rows)
           C == {T \in SUBSET es : \E x \in T : ~Takes(T, x)}
<1> SUFFICES ASSUME C # {} PROVE FALSE
  OBVIOUS
<1>1. PICK T \in C : \A U \in C : U \subseteq T => U = T
  <2>1. C \in SUBSET SUBSET es
    OBVIOUS
  <2> HIDE DEF C
  <2> QED  BY <2>1, SmallestSet
<1>2. T \in SUBSET es /\ IsFiniteSet(T)
  BY <1>1, FS_Subset
<1>3. PICK x \in T : ~Takes(T, x)
  BY <1>1
<1>4. PICK y \in T : y = Some(T)
  BY <1>3, SomeMember
<1>5. Takes(T, y)
  BY <1>2, <1>4, TotalUnfolds
<1>6. x # y
  BY <1>3, <1>5
<1>7. Takes(T \ {x}, y) /\ Takes(T \ {y}, x)
  <2>1. ASSUME NEW U \in SUBSET T, U # T, NEW z \in U PROVE Takes(U, z)
    <3>1. U \in SUBSET es /\ U \notin C
      BY <1>1, <1>2, <2>1
    <3> QED  BY <3>1
  <2>2. /\ T \ {x} \in SUBSET T /\ T \ {x} # T /\ y \in T \ {x}
        /\ T \ {y} \in SUBSET T /\ T \ {y} # T /\ x \in T \ {y}
    BY <1>6
  <2> HIDE DEF Takes
  <2> QED  BY <2>1, <2>2
<1>8. (T \ {x}) \ {y} = (T \ {y}) \ {x}
  OBVIOUS
<1>9. /\ rows[x].amount \in Nat /\ rows[y].amount \in Nat
      /\ Total((T \ {x}) \ {y}, rows) \in Nat
  BY <1>2, <1>3, <1>4, TotalNat DEF Amounted
<1>10. Takes(T, x)
  <2>1. PICK n \in Nat : n = Total((T \ {x}) \ {y}, rows)
    BY <1>9
  <2>2. Total(T \ {x}, rows) = rows[y].amount + n
    BY <1>7, <2>1
  <2>3. Total(T \ {y}, rows) = rows[x].amount + n
    BY <1>7, <1>8, <2>1
  <2>4. Total(T, rows) = rows[y].amount + Total(T \ {y}, rows)
    BY <1>5
  <2> QED  BY <1>9, <2>2, <2>3, <2>4
<1> QED  BY <1>3, <1>10

\* Other rows with the same amounts have the same sums.
LEMMA TotalSame ==
  ASSUME NEW es, IsFiniteSet(es), NEW rows, NEW others,
         \A e \in es : others[e] = rows[e]
  PROVE  Total(es, others) = Total(es, rows)
<1> DEFINE C == {T \in SUBSET es : Total(T, others) # Total(T, rows)}
<1> SUFFICES ASSUME C # {} PROVE FALSE
  OBVIOUS
<1>1. PICK T \in C : \A U \in C : U \subseteq T => U = T
  <2>1. C \in SUBSET SUBSET es
    OBVIOUS
  <2> HIDE DEF C
  <2> QED  BY <2>1, SmallestSet
<1>2. T \in SUBSET es /\ Total(T, others) # Total(T, rows) /\ IsFiniteSet(T)
  BY <1>1, FS_Subset
<1>3. T # {}
  BY <1>2, TotalUnfolds
<1>4. /\ Some(T) \in T
      /\ Total(T, rows) = rows[Some(T)].amount + Total(T \ {Some(T)}, rows)
      /\ Total(T, others) = others[Some(T)].amount + Total(T \ {Some(T)}, others)
  BY <1>2, <1>3, SomeMember, TotalUnfolds
<1>5. Total(T \ {Some(T)}, others) = Total(T \ {Some(T)}, rows)
  BY <1>1, <1>2, <1>4
<1>6. others[Some(T)] = rows[Some(T)]
  BY <1>2, <1>4
<1> QED  BY <1>2, <1>4, <1>5, <1>6

\* Fewer executions cost no more.
LEMMA TotalMonotone ==
  ASSUME NEW es, IsFiniteSet(es), NEW rows, Amounted(es, rows), NEW ds \in SUBSET es
  PROVE  Total(ds, rows) <= Total(es, rows)
<1> DEFINE C == {T \in SUBSET es : ds \subseteq T /\ ~(Total(ds, rows) <= Total(T, rows))}
<1> SUFFICES ASSUME C # {} PROVE FALSE
  OBVIOUS
<1>1. PICK T \in C : \A U \in C : U \subseteq T => U = T
  <2>1. C \in SUBSET SUBSET es
    OBVIOUS
  <2> HIDE DEF C
  <2> QED  BY <2>1, SmallestSet
<1>2. /\ T \in SUBSET es /\ ds \subseteq T /\ ~(Total(ds, rows) <= Total(T, rows))
      /\ Total(ds, rows) \in Nat
  BY <1>1, TotalNat
<1>3. PICK x \in T : x \notin ds
  BY <1>2
<1>4. /\ Total(T, rows) = rows[x].amount + Total(T \ {x}, rows)
      /\ rows[x].amount \in Nat /\ Total(T \ {x}, rows) \in Nat
  BY <1>2, <1>3, TotalTakes, TotalNat DEF Amounted
<1>5. Total(ds, rows) <= Total(T \ {x}, rows)
  BY <1>1, <1>2, <1>3
<1> QED  BY <1>2, <1>4, <1>5

(***************************************************************************)
(* Requests and locks.  A request holds the lock of its line exactly while *)
(* it is between its sum and its insert.                                   *)
(***************************************************************************)

Doing == {Idle} \cup Creating \cup Executing \cup Locking \cup Patching

LocksSound ==
  /\ lock \in [Lines -> Requests \cup {Nobody}]
  /\ req \in [Requests -> Doing]
  /\ \A l \in Lines : lock[l] # Nobody =>
       req[lock[l]].phase = "locked" /\ req[lock[l]].row.line = l
  /\ \A r \in Requests : req[r].phase = "locked" => lock[req[r].row.line] = r

\* What a request in each phase holds.
LEMMA Doings ==
  ASSUME NEW q \in Doing
  PROVE  /\ q.phase \in {"create", "created"} => q \in Creating /\ q.project \in Projects
         /\ q.phase = "execute" => q.row \in ExecutionRow
         /\ q.phase = "locked" => q.row \in ExecutionRow /\ q.sum \in Nat
         /\ q.phase = "budget" => q.id \in Budgets /\ q.row \in BudgetRow
         /\ q.phase = "line" => q.id \in Lines /\ q.row \in LineRow
         /\ q.phase = "execution" => q.id \in Executions /\ q.row \in ExecutionRow
BY DEF Doing, Idle, Creating, Executing, Locking, Patching

\* A request that holds no lock and takes none.
LEMMA LocksKept ==
  ASSUME LocksSound, NEW r \in Requests, NEW q \in Doing, q.phase # "locked",
         req[r].phase # "locked", req' = [req EXCEPT ![r] = q], UNCHANGED lock
  PROVE  /\ LocksSound'
         /\ \A s \in Requests : req'[s].phase = "locked" => req'[s] = req[s]
<1>1. req' \in [Requests -> Doing] /\ req'[r] = q
  BY DEF LocksSound
<1>2. \A s \in Requests \ {r} : req'[s] = req[s]
  BY DEF LocksSound
<1>3. \A l \in Lines : lock[l] # Nobody => lock[l] \in Requests \ {r}
  BY DEF LocksSound
<1> QED  BY <1>1, <1>2, <1>3 DEF LocksSound

\* A request that ends, whether it held a lock or not.
LEMMA LocksReleased ==
  ASSUME LocksSound, NEW r \in Requests, Finish(r), Release(r)
  PROVE  /\ LocksSound'
         /\ \A s \in Requests : req'[s].phase = "locked" => req'[s] = req[s]
<1>1. /\ req' = [req EXCEPT ![r] = Idle]
      /\ lock' = [l \in Lines |-> IF lock[l] = r THEN Nobody ELSE lock[l]]
  BY DEF Finish, Release
<1>2. req' \in [Requests -> Doing] /\ req'[r] = Idle
  BY <1>1 DEF LocksSound, Doing
<1>3. \A s \in Requests \ {r} : req'[s] = req[s]
  BY <1>1 DEF LocksSound
<1>4. lock' \in [Lines -> Requests \cup {Nobody}]
  BY <1>1 DEF LocksSound
<1>5. \A l \in Lines : lock'[l] # Nobody => lock'[l] = lock[l] /\ lock[l] \in Requests \ {r}
  BY <1>1 DEF LocksSound
<1>6. \A s \in Requests : req'[s].phase = "locked" =>
        /\ s # r /\ req'[s] = req[s] /\ req[s].row.line \in Lines
  BY <1>2, <1>3, Doings DEF Idle, LocksSound, ExecutionRow
<1>7. \A s \in Requests : req'[s].phase = "locked" => lock'[req'[s].row.line] = s
  BY <1>1, <1>6 DEF LocksSound
<1> QED  BY <1>2, <1>3, <1>4, <1>5, <1>6, <1>7 DEF LocksSound

LEMMA LocksTaken ==
  ASSUME LocksSound, NEW r \in Requests, NEW q \in Locking, req[r].phase # "locked",
         req' = [req EXCEPT ![r] = q], TakeLock(r, q.row.line)
  PROVE  /\ LocksSound'
         /\ req'[r] = q
         /\ \A s \in Requests \ {r} : req'[s] = req[s]
<1>1. PICK l \in Lines : l = q.row.line
  BY DEF Locking, ExecutionRow
<1>2. q \in Doing /\ q.phase = "locked"
  BY DEF Doing, Locking
<1>3. req' \in [Requests -> Doing] /\ req'[r] = q
  BY <1>2 DEF LocksSound
<1>4. \A s \in Requests \ {r} : req'[s] = req[s]
  BY DEF LocksSound
<1>5. lock[l] = Nobody /\ lock' = [lock EXCEPT ![l] = r]
  BY <1>1 DEF TakeLock, Unlocked
<1>6. /\ lock' \in [Lines -> Requests \cup {Nobody}] /\ lock'[l] = r
      /\ \A m \in Lines \ {l} : lock'[m] = lock[m]
  BY <1>5 DEF LocksSound
<1>7. \A m \in Lines : lock[m] # Nobody => lock[m] \in Requests \ {r}
  BY DEF LocksSound
<1>8. \A m \in Lines : lock'[m] # Nobody =>
        req'[lock'[m]].phase = "locked" /\ req'[lock'[m]].row.line = m
  BY <1>1, <1>2, <1>3, <1>4, <1>6, <1>7 DEF LocksSound
<1>9. \A s \in Requests \ {r} : req[s].phase = "locked" => req[s].row.line \in Lines \ {l}
  <2>1. \A s \in Requests : req[s].phase = "locked" => req[s].row.line \in Lines
    BY Doings DEF LocksSound, ExecutionRow
  <2> QED  BY <1>5, <2>1, BudgetsAssumption DEF LocksSound
<1>10. \A s \in Requests : req'[s].phase = "locked" => lock'[req'[s].row.line] = s
  BY <1>1, <1>3, <1>4, <1>6, <1>9 DEF LocksSound
<1> QED  BY <1>3, <1>4, <1>6, <1>8, <1>10 DEF LocksSound

(***************************************************************************)
(* The tables.                                                             *)
(***************************************************************************)

Stored == {e \in Executions : executions[e] # NoRow}

\* Every execution belongs to a line: deletions cascade, and the database
\* refuses an execution of a line that is gone.
NoOrphans == \A e \in Stored : lines[executions[e].line] # NoRow

TablesSound ==
  /\ projects \subseteq Projects
  /\ budgets \in [Budgets -> BudgetRow \cup {NoRow}]
  /\ lines \in [Lines -> LineRow \cup {NoRow}]
  /\ executions \in [Executions -> ExecutionRow \cup {NoRow}]
  /\ attachments \in [Budgets -> SUBSET Attachments]
  /\ sources \in [Projects -> SUBSET FundingSources]
  /\ edited \subseteq Lines
  /\ IsFiniteSet(Stored)
  /\ NoOrphans

\* The executions without authorization and what they cost.
Unauthorized(l) == {e \in ExecutionsOf({l}) : ~executions[e].authorized}
Unbacked(l) == Total(Unauthorized(l), executions)

LEMMA StoredRows ==
  ASSUME TablesSound
  PROVE  /\ \A e \in Stored : e \in Executions /\ executions[e] \in ExecutionRow
         /\ Amounted(Stored, executions)
         /\ \A l \in Lines : /\ ExecutionsOf({l}) \in SUBSET Stored
                             /\ Unauthorized(l) \in SUBSET ExecutionsOf({l})
                             /\ Unauthorized(l) \in SUBSET Stored
                             /\ IsFiniteSet(Unauthorized(l))
                             /\ IsFiniteSet(ExecutionsOf({l}))
                             /\ Unbacked(l) \in Nat
                             /\ Total(ExecutionsOf({l}), executions) \in Nat
                             /\ Unbacked(l) <= Total(ExecutionsOf({l}), executions)
<1>1. \A e \in Stored : e \in Executions /\ executions[e] \in ExecutionRow
  BY DEF TablesSound, Stored
<1>2. Amounted(Stored, executions)
  BY <1>1, BudgetsAssumption DEF Amounted, ExecutionRow
<1>3. \A l \in Lines : /\ ExecutionsOf({l}) \in SUBSET Stored
                       /\ Unauthorized(l) \in SUBSET ExecutionsOf({l})
                       /\ Unauthorized(l) \in SUBSET Stored
  BY DEF Unauthorized, ExecutionsOf, Stored
<1>4. IsFiniteSet(Stored)
  BY DEF TablesSound
<1>5. \A l \in Lines : IsFiniteSet(Unauthorized(l)) /\ IsFiniteSet(ExecutionsOf({l}))
  BY <1>3, <1>4, FS_Subset
<1>6. \A l \in Lines : Unbacked(l) \in Nat /\ Total(ExecutionsOf({l}), executions) \in Nat
  BY <1>2, <1>3, <1>4, TotalNat DEF Unbacked
<1>7. \A l \in Lines : Amounted(ExecutionsOf({l}), executions)
  BY <1>2, <1>3 DEF Amounted
<1>8. \A l \in Lines : Unbacked(l) <= Total(ExecutionsOf({l}), executions)
  BY <1>3, <1>5, <1>7, TotalMonotone DEF Unbacked
<1> QED  BY <1>1, <1>2, <1>3, <1>5, <1>6, <1>8

LEMMA RowsAreRows ==
  ASSUME NEW w \in BudgetRow \cup LineRow \cup ExecutionRow
  PROVE  w # NoRow
BY BudgetsAssumption

LEMMA LineWritten ==
  ASSUME TablesSound, NEW l \in Lines, NEW w \in LineRow,
         lines' = [lines EXCEPT ![l] = w], edited' \subseteq Lines,
         UNCHANGED <<projects, budgets, executions, attachments, sources>>
  PROVE  TablesSound'
<1>1. w # NoRow /\ lines' \in [Lines -> LineRow \cup {NoRow}]
  BY RowsAreRows DEF TablesSound
<1>2. Stored' = Stored
  BY DEF Stored
<1>3. \A m \in Lines : lines[m] # NoRow => lines'[m] # NoRow
  BY <1>1 DEF TablesSound
<1>4. \A e \in Stored : executions[e].line \in Lines
  BY StoredRows DEF ExecutionRow
<1>5. NoOrphans'
  BY <1>2, <1>3, <1>4 DEF TablesSound, NoOrphans
<1> QED  BY <1>1, <1>2, <1>5 DEF TablesSound

LEMMA ExecutionWritten ==
  ASSUME TablesSound, NEW e \in Executions, NEW w \in ExecutionRow, lines[w.line] # NoRow,
         executions' = [executions EXCEPT ![e] = w], edited' \subseteq Lines,
         UNCHANGED <<projects, budgets, lines, attachments, sources>>
  PROVE  TablesSound'
<1>1. /\ w # NoRow /\ executions' \in [Executions -> ExecutionRow \cup {NoRow}]
      /\ executions'[e] = w /\ \A d \in Executions \ {e} : executions'[d] = executions[d]
  BY RowsAreRows DEF TablesSound
<1>2. Stored' = Stored \cup {e}
  BY <1>1 DEF Stored
<1>3. IsFiniteSet(Stored')
  BY <1>2, FS_AddElement DEF TablesSound
<1>4. NoOrphans'
  BY <1>1, <1>2 DEF TablesSound, NoOrphans, Stored
<1> QED  BY <1>1, <1>3, <1>4 DEF TablesSound

\* A deletion takes the executions of the lines it deletes with it.
LEMMA RowsCut ==
  ASSUME TablesSound, NEW ls, NEW es, ExecutionsOf(ls) \subseteq es,
         lines' = Without(lines, ls), executions' = Without(executions, es)
  PROVE  /\ lines' \in [Lines -> LineRow \cup {NoRow}]
         /\ executions' \in [Executions -> ExecutionRow \cup {NoRow}]
         /\ \A l \in Lines : lines'[l] # NoRow => lines'[l] = lines[l]
         /\ \A e \in Executions : executions'[e] # NoRow => executions'[e] = executions[e]
         /\ IsFiniteSet(Stored)'
         /\ NoOrphans'
<1>1. /\ lines' = [l \in Lines |-> IF l \in ls THEN NoRow ELSE lines[l]]
      /\ executions' = [e \in Executions |-> IF e \in es THEN NoRow ELSE executions[e]]
  BY DEF TablesSound, Without
<1>2. /\ lines' \in [Lines -> LineRow \cup {NoRow}]
      /\ executions' \in [Executions -> ExecutionRow \cup {NoRow}]
      /\ \A l \in Lines : lines'[l] # NoRow => lines'[l] = lines[l]
      /\ \A e \in Executions : executions'[e] # NoRow => executions'[e] = executions[e]
  BY <1>1 DEF TablesSound
<1>3. Stored' = Stored \ es
  BY <1>1 DEF Stored
<1>4. IsFiniteSet(Stored)'
  BY <1>3, FS_Subset DEF TablesSound
<1>5. ASSUME NEW e \in Stored \ es PROVE lines'[executions'[e].line] # NoRow
  <2>1. executions'[e] = executions[e] /\ executions[e].line \in Lines
    BY <1>1, StoredRows DEF Stored, ExecutionRow
  <2>2. lines[executions[e].line] # NoRow
    BY DEF TablesSound, NoOrphans
  <2>3. executions[e].line \notin ls
    BY <2>1 DEF ExecutionsOf, Stored
  <2> QED  BY <1>1, <2>1, <2>2, <2>3
<1>6. NoOrphans'
  BY <1>3, <1>5 DEF NoOrphans
<1> QED  BY <1>2, <1>4, <1>6

LEMMA BudgetsCut ==
  ASSUME TablesSound, NEW bs, DeleteBudgets(bs), projects' \subseteq projects,
         sources' \in [Projects -> SUBSET FundingSources], UNCHANGED edited
  PROVE  /\ TablesSound'
         /\ \A l \in Lines : lines'[l] # NoRow => lines'[l] = lines[l]
         /\ \A e \in Executions : executions'[e] # NoRow => executions'[e] = executions[e]
<1>1. budgets' = Without(budgets, bs) /\ lines' = Without(lines, LinesOf(bs))
      /\ executions' = Without(executions, ExecutionsOf(LinesOf(bs)))
      /\ attachments' = [b \in Budgets |-> IF b \in bs THEN {} ELSE attachments[b]]
  BY DEF DeleteBudgets
<1>2. budgets' \in [Budgets -> BudgetRow \cup {NoRow}]
  <2>1. budgets' = [b \in Budgets |-> IF b \in bs THEN NoRow ELSE budgets[b]]
    BY <1>1 DEF Without, TablesSound
  <2> QED  BY <2>1 DEF TablesSound
<1>3. attachments' \in [Budgets -> SUBSET Attachments]
  BY <1>1 DEF TablesSound
<1>4. projects' \subseteq Projects /\ edited' \subseteq Lines
  BY DEF TablesSound
<1>5. /\ lines' \in [Lines -> LineRow \cup {NoRow}]
      /\ executions' \in [Executions -> ExecutionRow \cup {NoRow}]
      /\ \A l \in Lines : lines'[l] # NoRow => lines'[l] = lines[l]
      /\ \A e \in Executions : executions'[e] # NoRow => executions'[e] = executions[e]
      /\ IsFiniteSet(Stored)' /\ NoOrphans'
  BY <1>1, RowsCut
<1> QED  BY <1>2, <1>3, <1>4, <1>5 DEF TablesSound

(***************************************************************************)
(* RN-020.  While a request holds the lock of an unedited line, what was   *)
(* executed there without authorization stays within the sum it computed,  *)
(* so that the check it makes against that sum is a check against the row. *)
(***************************************************************************)

SumCovers ==
  \A r \in Requests : req[r].phase = "locked" /\ req[r].row.line \notin edited =>
    Unbacked(req[r].row.line) <= req[r].sum

Fits == UnauthorizedFits /\ SumCovers

LEMMA FitsAt ==
  UnauthorizedFits <=>
    \A l \in Lines : lines[l] # NoRow /\ l \notin edited => Unbacked(l) <= lines[l].approved
BY DEF UnauthorizedFits, Unbacked, Unauthorized

\* A line that is not in the table has no executions.
LEMMA NothingOnNoLine ==
  ASSUME TablesSound, NEW l \in Lines, lines[l] = NoRow
  PROVE  Unauthorized(l) = {} /\ Unbacked(l) = 0
<1>1. Unauthorized(l) = {}
  BY DEF TablesSound, NoOrphans, Unauthorized, ExecutionsOf, Stored
<1>2. Total({}, executions) = 0
  BY TotalUnfolds, FS_EmptySet
<1> QED  BY <1>1, <1>2 DEF Unbacked

\* A line whose executions are among those it had costs no more.
LEMMA UnbackedShrinks ==
  ASSUME TablesSound, NEW l \in Lines,
         \A e \in Unauthorized(l)' : e \in Unauthorized(l) /\ executions'[e] = executions[e]
  PROVE  Unbacked(l)' \in Nat /\ Unbacked(l) \in Nat /\ Unbacked(l)' <= Unbacked(l)
<1> DEFINE before == Unauthorized(l)
<1>1. PICK after : after = Unauthorized(l)'
  OBVIOUS
<1>2. /\ IsFiniteSet(before) /\ Amounted(before, executions) /\ after \in SUBSET before
      /\ Unbacked(l) = Total(before, executions) /\ Unbacked(l) \in Nat
  BY <1>1, StoredRows DEF Amounted, Unbacked
<1>3. IsFiniteSet(after) /\ \A e \in after : executions'[e] = executions[e]
  BY <1>1, <1>2, FS_Subset
<1>4. Total(after, executions') = Total(after, executions)
  BY <1>3, TotalSame
<1>5. Total(after, executions) \in Nat /\ Total(after, executions) <= Total(before, executions)
  BY <1>2, TotalNat, TotalMonotone
<1>6. Unbacked(l)' = Total(after, executions')
  BY <1>1 DEF Unbacked
<1> QED  BY <1>2, <1>4, <1>5, <1>6

\* The steps that add no line, no execution on an unedited line and no lock.
LEMMA FitsKept ==
  ASSUME TablesSound, Fits, LocksSound,
         edited \subseteq edited',
         \A l \in Lines : lines'[l] # NoRow /\ l \notin edited' => lines'[l] = lines[l],
         \A l \in Lines : l \notin edited' =>
           \A e \in Unauthorized(l)' : e \in Unauthorized(l) /\ executions'[e] = executions[e],
         \A s \in Requests : req'[s].phase = "locked" => req'[s] = req[s]
  PROVE  Fits'
<1>1. \A l \in Lines : l \notin edited' =>
        Unbacked(l)' \in Nat /\ Unbacked(l) \in Nat /\ Unbacked(l)' <= Unbacked(l)
  BY UnbackedShrinks
<1>2. ASSUME NEW l \in Lines, lines'[l] # NoRow, l \notin edited'
      PROVE  Unbacked(l)' <= lines'[l].approved
  <2>1. lines'[l] = lines[l] /\ l \notin edited /\ lines[l].approved \in Nat
    BY <1>2, BudgetsAssumption DEF TablesSound, LineRow
  <2>2. Unbacked(l) <= lines[l].approved
    BY <1>2, <2>1, FitsAt DEF Fits
  <2> QED  BY <1>1, <1>2, <2>1, <2>2
<1>3. ASSUME NEW s \in Requests, req'[s].phase = "locked", NEW l \in Lines,
             l = req'[s].row.line, l \notin edited'
      PROVE  Unbacked(l)' <= req'[s].sum
  <2>1. req'[s] = req[s] /\ l \notin edited
    BY <1>3
  <2>2. Unbacked(l) <= req[s].sum /\ req[s].sum \in Nat
    BY <1>3, <2>1, Doings DEF Fits, SumCovers, LocksSound
  <2> QED  BY <1>1, <1>3, <2>1, <2>2
<1>4. UnauthorizedFits'
  BY <1>2 DEF UnauthorizedFits, Unbacked, Unauthorized
<1>5. SumCovers'
  <2>1. \A s \in Requests : req'[s].phase = "locked" => req'[s].row.line \in Lines
    BY Doings DEF LocksSound, ExecutionRow
  <2> QED  BY <1>3, <2>1 DEF SumCovers, Unbacked, Unauthorized, ExecutionsOf
<1> QED  BY <1>4, <1>5 DEF Fits

(***************************************************************************)
(* The steps.                                                              *)
(***************************************************************************)

BInv == LocksSound /\ TablesSound /\ Fits

SameHolders == \A s \in Requests : req'[s].phase = "locked" => req'[s] = req[s]

LEMMA SameLocks ==
  ASSUME LocksSound, UNCHANGED <<lock, req>>
  PROVE  LocksSound' /\ SameHolders
BY DEF LocksSound, SameHolders

\* Lines and executions stay.
LEMMA RowsStay ==
  ASSUME BInv, UNCHANGED <<lines, executions, edited>>, projects' \subseteq Projects,
         budgets' \in [Budgets -> BudgetRow \cup {NoRow}],
         attachments' \in [Budgets -> SUBSET Attachments],
         sources' \in [Projects -> SUBSET FundingSources],
         LocksSound', SameHolders
  PROVE  BInv'
<1>1. TablesSound'
  BY DEF BInv, TablesSound, Stored, NoOrphans
<1>2. \A l \in Lines : Unauthorized(l)' = Unauthorized(l)
  BY DEF Unauthorized, ExecutionsOf
<1>3. \A l \in Lines : \A e \in Unauthorized(l)' :
        e \in Unauthorized(l) /\ executions'[e] = executions[e]
  BY <1>2
<1>4. Fits'
  BY <1>3, FitsKept DEF BInv, SameHolders
<1> QED  BY <1>1, <1>4 DEF BInv

\* Rows are deleted and no other changes.
LEMMA RowsGo ==
  ASSUME BInv, TablesSound', UNCHANGED <<edited, lock, req>>,
         \A l \in Lines : lines'[l] # NoRow => lines'[l] = lines[l],
         \A e \in Executions : executions'[e] # NoRow => executions'[e] = executions[e]
  PROVE  BInv'
<1>1. LocksSound' /\ SameHolders
  BY SameLocks DEF BInv
<1>2. \A l \in Lines : \A e \in Unauthorized(l)' :
        e \in Unauthorized(l) /\ executions'[e] = executions[e]
  BY DEF Unauthorized, ExecutionsOf
<1>3. Fits'
  BY <1>1, <1>2, FitsKept DEF BInv, SameHolders
<1> QED  BY <1>1, <1>3 DEF BInv

\* A request that loads, checks or starts writes no table.
LEMMA RequestMoves ==
  ASSUME BInv, NEW r \in Requests, NEW q \in Doing, q.phase # "locked",
         req[r].phase # "locked", req' = [req EXCEPT ![r] = q],
         UNCHANGED <<projects, budgets, lines, executions, extras, lock, edited>>
  PROVE  BInv'
<1>1. LocksSound' /\ SameHolders
  BY LocksKept DEF BInv, SameHolders
<1> QED  BY <1>1, RowsStay DEF BInv, TablesSound, extras

LEMMA BudgetRequests ==
  ASSUME BInv, NEW r \in Requests,
         \/ \E p \in Projects : BeginCreate(r, p)
         \/ CheckNoBudget(r)
         \/ \E b \in Budgets : InsertBudget(r, b) \/ Load(r, "budget", budgets, b)
         \/ SaveBudget(r)
  PROVE  BInv'
<1>0. req[r] \in Doing
  BY DEF BInv, LocksSound
<1>1. ASSUME NEW p \in Projects, BeginCreate(r, p) PROVE BInv'
  <2>1. [phase |-> "create", project |-> p] \in Doing
    BY DEF Doing, Creating
  <2> QED  BY <1>1, <2>1, RequestMoves DEF BeginCreate, Begin, Busy
<1>2. ASSUME CheckNoBudget(r) PROVE BInv'
  <2>1. req[r] \in Creating /\ req[r].phase # "locked"
    BY <1>0, <1>2, Doings DEF CheckNoBudget
  <2>2. [req[r] EXCEPT !.phase = "created"] \in Creating
    BY <2>1 DEF Creating
  <2>3. [req[r] EXCEPT !.phase = "created"] \in Doing
        /\ [req[r] EXCEPT !.phase = "created"].phase # "locked"
    BY <2>2 DEF Doing, Creating
  <2>4. req' = [req EXCEPT ![r] = [req[r] EXCEPT !.phase = "created"]]
    BY <1>2 DEF CheckNoBudget
  <2> QED  BY <1>2, <2>1, <2>3, <2>4, RequestMoves DEF CheckNoBudget
<1>3. ASSUME NEW b \in Budgets, Load(r, "budget", budgets, b) PROVE BInv'
  <2>1. budgets[b] \in BudgetRow
    BY <1>3 DEF Load, BInv, TablesSound
  <2>2. [phase |-> "budget", id |-> b, row |-> budgets[b]] \in Doing
    BY <2>1 DEF Doing, Patching
  <2> QED  BY <1>3, <2>2, RequestMoves DEF Load, Begin, Busy
<1>4. ASSUME NEW b \in Budgets, NEW w \in BudgetRow, budgets' = [budgets EXCEPT ![b] = w],
             Finish(r), req[r].phase # "locked",
             UNCHANGED <<projects, lines, executions, extras, lock, edited>>
      PROVE  BInv'
  <2>1. Idle \in Doing /\ Idle.phase # "locked"
    BY DEF Doing, Idle
  <2>2. LocksSound' /\ SameHolders
    BY <1>4, <2>1, LocksKept DEF BInv, SameHolders, Finish
  <2> QED  BY <1>4, <2>2, RowsStay DEF BInv, TablesSound, extras
<1>5. ASSUME NEW b \in Budgets, InsertBudget(r, b) PROVE BInv'
  <2>1. req[r].project \in Projects
    BY <1>0, <1>5, Doings DEF InsertBudget
  <2>2. [project |-> req[r].project] \in BudgetRow
    BY <2>1 DEF BudgetRow
  <2> QED  BY <1>4, <1>5, <2>2 DEF InsertBudget
<1>6. ASSUME SaveBudget(r) PROVE BInv'
  <2>1. req[r].id \in Budgets /\ req[r].row \in BudgetRow
    BY <1>0, <1>6, Doings DEF SaveBudget
  <2> QED  BY <1>4, <1>6, <2>1 DEF SaveBudget
<1> QED  BY <1>1, <1>2, <1>3, <1>5, <1>6

LEMMA Deletions ==
  ASSUME BInv,
         \/ \E b \in Budgets : DeleteBudget(b)
         \/ \E p \in Projects : DeleteProject(p)
         \/ \E l \in Lines : DeleteLine(l)
         \/ \E e \in Executions : DeleteExecution(e)
  PROVE  BInv'
<1>1. ASSUME NEW b \in Budgets, DeleteBudget(b) PROVE BInv'
  <2>1. /\ DeleteBudgets({b}) /\ UNCHANGED <<projects, sources, lock, edited, req>>
        /\ sources' \in [Projects -> SUBSET FundingSources]
    BY <1>1 DEF DeleteBudget, BInv, TablesSound
  <2> QED  BY <2>1, BudgetsCut, RowsGo DEF BInv
<1>2. ASSUME NEW p \in Projects, DeleteProject(p) PROVE BInv'
  <2>1. /\ DeleteBudgets(BudgetsOf(p)) /\ projects' \subseteq projects
        /\ UNCHANGED <<lock, edited, req>>
        /\ sources' \in [Projects -> SUBSET FundingSources]
    BY <1>2 DEF DeleteProject, BInv, TablesSound
  <2> QED  BY <2>1, BudgetsCut, RowsGo DEF BInv
<1>3. ASSUME NEW ls, NEW es, ExecutionsOf(ls) \subseteq es,
             lines' = Without(lines, ls), executions' = Without(executions, es),
             UNCHANGED <<projects, budgets, extras, lock, edited, req>>
      PROVE  BInv'
  <2>1. /\ lines' \in [Lines -> LineRow \cup {NoRow}]
        /\ executions' \in [Executions -> ExecutionRow \cup {NoRow}]
        /\ \A l \in Lines : lines'[l] # NoRow => lines'[l] = lines[l]
        /\ \A e \in Executions : executions'[e] # NoRow => executions'[e] = executions[e]
        /\ IsFiniteSet(Stored)' /\ NoOrphans'
    BY <1>3, RowsCut DEF BInv
  <2>2. TablesSound'
    BY <1>3, <2>1 DEF BInv, TablesSound, extras
  <2> QED  BY <1>3, <2>1, <2>2, RowsGo
<1>4. ASSUME NEW l \in Lines, DeleteLine(l) PROVE BInv'
  BY <1>3, <1>4 DEF DeleteLine
<1>5. ASSUME NEW e \in Executions, DeleteExecution(e) PROVE BInv'
  <2>1. ExecutionsOf({}) \subseteq {e}
    BY DEF ExecutionsOf
  <2>2. lines' = Without(lines, {})
    BY <1>5 DEF DeleteExecution, Without, BInv, TablesSound
  <2> QED  BY <1>3, <1>5, <2>1, <2>2 DEF DeleteExecution
<1> QED  BY <1>1, <1>2, <1>4, <1>5

LEMMA OtherRequests ==
  ASSUME BInv, NEW r \in Requests,
         \/ \E l \in Lines : Load(r, "line", lines, l) \/ BeginExecution(r, l)
         \/ \E e \in Executions : Load(r, "execution", executions, e)
         \/ Abandon(r)
  PROVE  BInv'
<1>1. ASSUME NEW l \in Lines, Load(r, "line", lines, l) PROVE BInv'
  <2>1. lines[l] \in LineRow
    BY <1>1 DEF Load, BInv, TablesSound
  <2>2. [phase |-> "line", id |-> l, row |-> lines[l]] \in Doing
    BY <2>1 DEF Doing, Patching
  <2> QED  BY <1>1, <2>2, RequestMoves DEF Load, Begin, Busy
<1>2. ASSUME NEW e \in Executions, Load(r, "execution", executions, e) PROVE BInv'
  <2>1. executions[e] \in ExecutionRow
    BY <1>2 DEF Load, BInv, TablesSound
  <2>2. [phase |-> "execution", id |-> e, row |-> executions[e]] \in Doing
    BY <2>1 DEF Doing, Patching
  <2> QED  BY <1>2, <2>2, RequestMoves DEF Load, Begin, Busy
<1>3. ASSUME NEW l \in Lines, BeginExecution(r, l) PROVE BInv'
  <2>1. PICK n \in Amounts, a \in BOOLEAN :
          Begin(r, [phase |-> "execute",
                    row |-> [line |-> l, amount |-> n, authorized |-> a]])
    BY <1>3 DEF BeginExecution
  <2>2. [phase |-> "execute", row |-> [line |-> l, amount |-> n, authorized |-> a]] \in Doing
    BY DEF Doing, Executing, ExecutionRow
  <2> QED  BY <1>3, <2>1, <2>2, RequestMoves DEF BeginExecution, Begin, Busy
<1>4. ASSUME Abandon(r) PROVE BInv'
  <2>1. LocksSound' /\ SameHolders
    BY <1>4, LocksReleased DEF Abandon, BInv, SameHolders
  <2> QED  BY <1>4, <2>1, RowsStay DEF Abandon, BInv, TablesSound, extras
<1> QED  BY <1>1, <1>2, <1>3, <1>4

LEMMA Attachings ==
  ASSUME BInv, \/ \E b \in Budgets : Attach(b)
               \/ \E p \in Projects : Fund(p)
  PROVE  BInv'
<1>1. LocksSound' /\ SameHolders
  BY SameLocks DEF Attach, Fund, BInv
<1>2. /\ attachments' \in [Budgets -> SUBSET Attachments]
      /\ sources' \in [Projects -> SUBSET FundingSources]
  BY DEF Attach, Fund, BInv, TablesSound
<1> QED  BY <1>1, <1>2, RowsStay DEF Attach, Fund, BInv, TablesSound

\* A new line has no executions: none outlived an earlier row with its id.
LEMMA LineAdded ==
  ASSUME BInv, NEW l \in Lines, NEW b \in Budgets, AddLine(l, b)
  PROVE  BInv'
<1>1. PICK n \in Amounts : lines' = [lines EXCEPT ![l] = [budget |-> b, approved |-> n]]
  BY DEF AddLine
<1>2. [budget |-> b, approved |-> n] \in LineRow
  BY DEF LineRow
<1>3. /\ lines[l] = NoRow /\ edited' = edited \ {l} /\ edited' \subseteq Lines
      /\ UNCHANGED <<projects, budgets, executions, extras, lock, req>>
  BY DEF AddLine, Fresh, BInv, TablesSound
<1>4. LocksSound' /\ SameHolders
  BY <1>3, SameLocks DEF BInv
<1>5. TablesSound'
  BY <1>1, <1>2, <1>3, LineWritten DEF BInv, extras
<1>6. /\ \A m \in Lines : Unauthorized(m)' = Unauthorized(m) /\ Unbacked(m)' = Unbacked(m)
      /\ Unbacked(l) = 0
  BY <1>3, NothingOnNoLine DEF Unauthorized, ExecutionsOf, Unbacked, BInv
<1>7. /\ lines'[l].approved \in Nat
      /\ \A m \in Lines \ {l} : lines'[m] = lines[m]
  BY <1>1, BudgetsAssumption DEF BInv, TablesSound
<1>8. ASSUME NEW m \in Lines, lines'[m] # NoRow, m \notin edited'
      PROVE  Unbacked(m)' <= lines'[m].approved
  <2>1. CASE m = l
    BY <1>6, <1>7, <2>1
  <2>2. CASE m # l
    <3>1. Unbacked(m) <= lines[m].approved
      BY <1>3, <1>7, <1>8, <2>2, FitsAt DEF BInv, Fits
    <3> QED  BY <1>6, <1>7, <2>2, <3>1
  <2> QED  BY <2>1, <2>2
<1>9. ASSUME NEW s \in Requests, req[s].phase = "locked", req[s].row.line \notin edited'
      PROVE  Unbacked(req[s].row.line) <= req[s].sum
  <2>1. req[s].row.line \in Lines /\ req[s].sum \in Nat
    BY <1>9, Doings DEF BInv, LocksSound, ExecutionRow
  <2>2. CASE req[s].row.line = l
    BY <1>6, <2>1, <2>2
  <2>3. CASE req[s].row.line # l
    BY <1>3, <1>9, <2>3 DEF BInv, Fits, SumCovers
  <2> QED  BY <2>2, <2>3
<1>10. UnauthorizedFits'
  BY <1>8 DEF UnauthorizedFits, Unbacked, Unauthorized
<1>11. SumCovers'
  BY <1>3, <1>9 DEF SumCovers, Unbacked, Unauthorized, ExecutionsOf
<1> QED  BY <1>4, <1>5, <1>10, <1>11 DEF BInv, Fits

\* A PATCH marks the line it may upset as edited.
LEMMA Patches ==
  ASSUME BInv, NEW r \in Requests, SaveLine(r) \/ SaveExecution(r)
  PROVE  BInv'
<1>0. req[r] \in Doing
  BY DEF BInv, LocksSound
<1>1. Finish(r) /\ req[r].phase # "locked" /\ UNCHANGED lock
  BY DEF SaveLine, SaveExecution
<1>2. Idle \in Doing /\ Idle.phase # "locked"
  BY DEF Doing, Idle
<1>3. LocksSound' /\ SameHolders
  BY <1>1, <1>2, LocksKept DEF BInv, SameHolders, Finish
<1>4. ASSUME SaveLine(r) PROVE BInv'
  <2>1. PICK l \in Lines : l = req[r].id /\ req[r].row \in LineRow
    BY <1>0, <1>4, Doings DEF SaveLine
  <2>2. PICK n \in Amounts : lines' = [lines EXCEPT ![l] = [req[r].row EXCEPT !.approved = n]]
    BY <1>4, <2>1 DEF SaveLine
  <2>3. [req[r].row EXCEPT !.approved = n] \in LineRow
    BY <2>1 DEF LineRow
  <2>4. /\ edited' = edited \cup {l} /\ edited' \subseteq Lines
        /\ UNCHANGED <<projects, budgets, executions, extras>>
    BY <1>4, <2>1 DEF SaveLine, BInv, TablesSound
  <2>5. TablesSound'
    BY <2>2, <2>3, <2>4, LineWritten DEF BInv, extras
  <2>6. \A m \in Lines : Unauthorized(m)' = Unauthorized(m)
    BY <2>4 DEF Unauthorized, ExecutionsOf
  <2>7. \A m \in Lines : m \notin edited' => lines'[m] = lines[m]
    BY <2>2, <2>4 DEF BInv, TablesSound
  <2>8. Fits'
    BY <1>3, <2>4, <2>6, <2>7, FitsKept DEF BInv, SameHolders
  <2> QED  BY <1>3, <2>5, <2>8 DEF BInv
<1>5. ASSUME SaveExecution(r) PROVE BInv'
  <2>1. PICK e \in Executions, l \in Lines :
          e = req[r].id /\ l = req[r].row.line /\ req[r].row \in ExecutionRow
    BY <1>0, <1>5, Doings DEF SaveExecution, ExecutionRow
  <2>2. PICK n \in Amounts, a \in BOOLEAN :
          executions' = [executions EXCEPT ![e] =
                           [req[r].row EXCEPT !.amount = n, !.authorized = a]]
    BY <1>5, <2>1 DEF SaveExecution
  <2>3. PICK w : w = [req[r].row EXCEPT !.amount = n, !.authorized = a]
    OBVIOUS
  <2>4. w \in ExecutionRow /\ w.line = l
    BY <2>1, <2>3 DEF ExecutionRow
  <2>5. /\ edited' = edited \cup {l} /\ edited' \subseteq Lines /\ lines[l] # NoRow
        /\ UNCHANGED <<projects, budgets, lines, extras>>
    BY <1>5, <2>1 DEF SaveExecution, BInv, TablesSound
  <2>6. executions' = [executions EXCEPT ![e] = w]
    BY <2>2, <2>3
  <2>7. TablesSound'
    BY <2>4, <2>5, <2>6, ExecutionWritten DEF BInv, extras
  <2>8. /\ executions'[e] = w
        /\ \A d \in Executions \ {e} : executions'[d] = executions[d]
    BY <2>6 DEF BInv, TablesSound
  <2>9. \A m \in Lines : m \notin edited' =>
          \A d \in Unauthorized(m)' : d \in Unauthorized(m) /\ executions'[d] = executions[d]
    BY <2>4, <2>5, <2>8 DEF Unauthorized, ExecutionsOf
  <2>10. Fits'
    BY <1>3, <2>5, <2>9, FitsKept DEF BInv, SameHolders
  <2> QED  BY <1>3, <2>7, <2>10 DEF BInv
<1> QED  BY <1>4, <1>5

\* Who loses an authorizer is on an edited line.
LEMMA UserDeleted ==
  ASSUME BInv, DeleteUser
  PROVE  BInv'
<1>1. PICK es \in SUBSET {e \in Executions : executions[e] # NoRow /\ executions[e].authorized} :
        /\ executions' = [e \in Executions |->
             IF e \in es THEN [executions[e] EXCEPT !.authorized = FALSE] ELSE executions[e]]
        /\ edited' = edited \cup {executions[e].line : e \in es}
        /\ UNCHANGED <<projects, budgets, lines, extras, lock, req>>
  BY DEF DeleteUser
<1>2. LocksSound' /\ SameHolders
  BY <1>1, SameLocks DEF BInv
<1>3. \A e \in es : e \in Executions /\ executions[e] \in ExecutionRow
  BY DEF BInv, TablesSound
<1>4. ASSUME NEW e \in Executions
      PROVE  /\ executions'[e] = NoRow <=> executions[e] = NoRow
             /\ executions'[e] \in ExecutionRow \cup {NoRow}
             /\ executions[e] # NoRow => executions'[e].line = executions[e].line
  <2>1. CASE e \in es
    <3>1. /\ executions'[e] = [executions[e] EXCEPT !.authorized = FALSE]
          /\ executions[e] # NoRow
      BY <1>1, <2>1
    <3>2. executions'[e] \in ExecutionRow /\ executions'[e].line = executions[e].line
      BY <1>3, <2>1, <3>1 DEF ExecutionRow
    <3> QED  BY <3>1, <3>2, RowsAreRows
  <2>2. CASE e \notin es
    BY <1>1, <2>2 DEF BInv, TablesSound
  <2> QED  BY <2>1, <2>2
<1>5. executions' \in [Executions -> ExecutionRow \cup {NoRow}]
  BY <1>1, <1>4
<1>6. edited' \subseteq Lines
  BY <1>1, <1>3 DEF BInv, TablesSound, ExecutionRow
<1>7. Stored' = Stored
  BY <1>4 DEF Stored
<1>8. NoOrphans'
  BY <1>1, <1>4, <1>7 DEF NoOrphans, BInv, TablesSound, Stored
<1>9. TablesSound'
  BY <1>1, <1>5, <1>6, <1>7, <1>8 DEF BInv, TablesSound, extras
<1>10. ASSUME NEW m \in Lines, m \notin edited', NEW d \in Unauthorized(m)'
       PROVE  d \in Unauthorized(m) /\ executions'[d] = executions[d]
  <2>1. d \in Executions /\ executions'[d] # NoRow /\ executions'[d].line = m
    BY <1>10 DEF Unauthorized, ExecutionsOf
  <2>2. executions[d] # NoRow /\ executions[d].line = m
    BY <1>4, <2>1
  <2>3. d \notin es
    BY <1>1, <1>10, <2>2
  <2>4. executions'[d] = executions[d]
    BY <1>1, <2>1, <2>3
  <2> QED  BY <1>10, <2>1, <2>2, <2>4 DEF Unauthorized, ExecutionsOf
<1>11. Fits'
  BY <1>1, <1>2, <1>10, FitsKept DEF BInv, SameHolders
<1> QED  BY <1>2, <1>9, <1>11 DEF BInv

LEMMA Summing ==
  ASSUME BInv, NEW r \in Requests, LockAndSum(r)
  PROVE  BInv'
<1>1. req[r].phase = "execute" /\ req[r].row \in ExecutionRow
  BY Doings DEF LockAndSum, BInv, LocksSound
<1>2. PICK l \in Lines : l = req[r].row.line
  BY <1>1 DEF ExecutionRow
<1>3. PICK n \in Nat : n = Total(ExecutionsOf({l}), executions) /\ Unbacked(l) <= n
  BY StoredRows DEF BInv
<1>4. PICK q \in Locking : q = [phase |-> "locked", row |-> req[r].row, sum |-> n]
  BY <1>1 DEF Locking
<1>5. /\ req' = [req EXCEPT ![r] = q] /\ TakeLock(r, q.row.line)
      /\ UNCHANGED <<projects, budgets, lines, executions, extras, edited>>
  BY <1>2, <1>3, <1>4 DEF LockAndSum
<1>6. LocksSound' /\ req'[r] = q /\ \A s \in Requests \ {r} : req'[s] = req[s]
  BY <1>1, <1>5, LocksTaken DEF BInv
<1>7. TablesSound'
  BY <1>5 DEF BInv, TablesSound, Stored, NoOrphans, extras
<1>8. UnauthorizedFits'
  BY <1>5 DEF BInv, Fits, UnauthorizedFits, ExecutionsOf
<1>9. ASSUME NEW s \in Requests, req'[s].phase = "locked", req'[s].row.line \notin edited
      PROVE  Unbacked(req'[s].row.line) <= req'[s].sum
  <2>1. CASE s = r
    BY <1>2, <1>3, <1>4, <1>6, <2>1
  <2>2. CASE s # r
    BY <1>6, <1>9, <2>2 DEF BInv, Fits, SumCovers
  <2> QED  BY <2>1, <2>2
<1>10. SumCovers'
  BY <1>5, <1>9 DEF SumCovers, Unbacked, Unauthorized, ExecutionsOf
<1> QED  BY <1>6, <1>7, <1>8, <1>10 DEF BInv, Fits

\* The insert of add_execution(): what is there is covered by the sum, the sum
\* and the new amount by the approved amount, unless there is authorization.
LEMMA Recording ==
  ASSUME BInv, NEW r \in Requests, NEW e \in Executions, Record(r, e)
  PROVE  BInv'
<1>1. req[r].phase = "locked" /\ req[r].row \in ExecutionRow /\ req[r].sum \in Nat
  BY Doings DEF Record, BInv, LocksSound
<1>2. PICK w \in ExecutionRow, l \in Lines : w = req[r].row /\ l = w.line
  BY <1>1 DEF ExecutionRow
<1>3. /\ lines[l] # NoRow /\ executions[e] = NoRow
      /\ executions' = [executions EXCEPT ![e] = w] /\ Finish(r) /\ Release(r)
      /\ UNCHANGED <<projects, budgets, lines, extras, edited>>
  BY <1>2 DEF Record, Fresh
<1>4. LocksSound' /\ SameHolders
  BY <1>3, LocksReleased DEF BInv, SameHolders
<1>5. TablesSound'
  BY <1>2, <1>3, ExecutionWritten DEF BInv, TablesSound, extras
<1>6. /\ executions'[e] = w /\ w # NoRow
      /\ \A d \in Executions \ {e} : executions'[d] = executions[d]
  BY <1>3, RowsAreRows DEF BInv, TablesSound
<1>7. \A m \in Lines \ {l} : \A d \in Unauthorized(m)' :
        d \in Unauthorized(m) /\ executions'[d] = executions[d]
  BY <1>2, <1>6 DEF Unauthorized, ExecutionsOf
<1>8. \A m \in Lines \ {l} :
        Unbacked(m)' \in Nat /\ Unbacked(m) \in Nat /\ Unbacked(m)' <= Unbacked(m)
  BY <1>7, UnbackedShrinks DEF BInv
<1>9. lines[l].approved \in Nat /\ Unbacked(l) \in Nat /\ w.amount \in Nat
  BY <1>3, BudgetsAssumption, StoredRows DEF BInv, TablesSound, LineRow, ExecutionRow
<1>10. ASSUME l \notin edited PROVE Unbacked(l)' <= lines[l].approved
  <2>1. Unbacked(l) <= req[r].sum /\ Unbacked(l) <= lines[l].approved
    BY <1>1, <1>2, <1>3, <1>10, FitsAt DEF BInv, Fits, SumCovers
  <2>2. CASE w.authorized
    <3>1. \A d \in Unauthorized(l)' : d \in Unauthorized(l) /\ executions'[d] = executions[d]
      BY <1>6, <2>2 DEF Unauthorized, ExecutionsOf
    <3>2. Unbacked(l)' \in Nat /\ Unbacked(l)' <= Unbacked(l)
      BY <3>1, UnbackedShrinks DEF BInv
    <3> QED  BY <1>9, <2>1, <3>2
  <2>3. CASE ~w.authorized
    <3>1. req[r].sum + w.amount <= lines[l].approved
      <4>1. ~(req[r].sum + w.amount > lines[l].approved)
        BY <1>2, <2>3 DEF Record, Overrun
      <4> QED  BY <1>1, <1>9, <4>1
    <3>2. PICK before : before = Unauthorized(l)
      OBVIOUS
    <3>3. e \notin before /\ Unauthorized(l)' = before \cup {e}
      BY <1>2, <1>3, <1>6, <2>3, <3>2 DEF Unauthorized, ExecutionsOf
    <3>4. IsFiniteSet(before) /\ IsFiniteSet(before \cup {e}) /\ Unbacked(l) = Total(before, executions)
      BY <3>2, StoredRows, FS_AddElement DEF BInv, Unbacked
    <3>5. Amounted(before \cup {e}, executions')
      <4>1. \A d \in before : d # e /\ d \in Executions /\ executions[d].amount \in Nat
        BY <3>2, <3>3, StoredRows DEF BInv, Amounted, Stored
      <4> QED  BY <1>6, <1>9, <4>1 DEF Amounted
    <3>6. Total(before \cup {e}, executions')
            = executions'[e].amount + Total((before \cup {e}) \ {e}, executions')
      BY <3>4, <3>5, TotalTakes
    <3>7. (before \cup {e}) \ {e} = before
      BY <3>3
    <3>8. Total(before, executions') = Total(before, executions)
      <4>1. \A d \in before : executions'[d] = executions[d]
        BY <1>6, <3>2, <3>3 DEF Unauthorized, ExecutionsOf
      <4> QED  BY <3>4, <4>1, TotalSame
    <3>9. Unbacked(l)' = w.amount + Unbacked(l)
      BY <1>6, <3>3, <3>4, <3>6, <3>7, <3>8 DEF Unbacked
    <3> QED  BY <1>1, <1>9, <2>1, <3>1, <3>9
  <2> QED  BY <2>2, <2>3
<1>11. UnauthorizedFits'
  <2>1. ASSUME NEW m \in Lines, lines[m] # NoRow, m \notin edited
        PROVE  Unbacked(m)' <= lines[m].approved
    <3>1. CASE m = l
      BY <1>10, <2>1, <3>1
    <3>2. CASE m # l
      <4>1. Unbacked(m) <= lines[m].approved /\ lines[m].approved \in Nat
        BY <2>1, FitsAt, BudgetsAssumption DEF BInv, Fits, TablesSound, LineRow
      <4> QED  BY <1>8, <3>2, <4>1
    <3> QED  BY <3>1, <3>2
  <2> QED  BY <1>3, <2>1 DEF UnauthorizedFits, Unbacked, Unauthorized
<1>12. SumCovers'
  <2>1. ASSUME NEW s \in Requests, req'[s].phase = "locked", NEW m \in Lines,
               m = req'[s].row.line, m \notin edited
        PROVE  Unbacked(m)' <= req'[s].sum
    <3>1. req'[s] = req[s] /\ s # r
      BY <1>3, <1>4, <2>1 DEF SameHolders, Finish, Idle, BInv, LocksSound
    <3>2. m # l
      BY <1>1, <1>2, <2>1, <3>1 DEF BInv, LocksSound
    <3>3. Unbacked(m) <= req[s].sum /\ req[s].sum \in Nat
      BY <2>1, <3>1, Doings DEF BInv, LocksSound, Fits, SumCovers
    <3> QED  BY <1>8, <3>1, <3>2, <3>3
  <2>2. \A s \in Requests : req'[s].phase = "locked" => req'[s].row.line \in Lines
    BY <1>4, Doings DEF SameHolders, BInv, LocksSound, ExecutionRow
  <2> QED  BY <1>3, <2>1, <2>2 DEF SumCovers, Unbacked, Unauthorized, ExecutionsOf
<1> QED  BY <1>4, <1>5, <1>11, <1>12 DEF BInv, Fits

LEMMA BInitially == Init => BInv
<1> SUFFICES ASSUME Init PROVE BInv
  OBVIOUS
<1>1. LocksSound
  BY DEF Init, LocksSound, Doing, Idle
<1>2. Stored = {}
  BY DEF Init, Stored
<1>3. TablesSound
  BY <1>2, FS_EmptySet DEF Init, TablesSound, NoOrphans
<1>4. UnauthorizedFits
  BY DEF Init, UnauthorizedFits
<1>5. SumCovers
  BY DEF Init, SumCovers, Idle
<1> QED  BY <1>1, <1>3, <1>4, <1>5 DEF BInv, Fits

LEMMA BStep == BInv /\ [Next]_vars => BInv'
<1> SUFFICES ASSUME BInv, [Next]_vars PROVE BInv'
  OBVIOUS
<1>1. CASE UNCHANGED vars
  <2>1. UNCHANGED <<projects, budgets, lines, executions, attachments, sources,
                    lock, edited, req>>
    BY <1>1 DEF vars, extras
  <2>2. LocksSound' /\ SameHolders
    BY <2>1, SameLocks DEF BInv
  <2> QED  BY <2>1, <2>2, RowsStay DEF BInv, TablesSound
<1>2. ASSUME NEW r \in Requests, Serve(r) PROVE BInv'
  BY <1>2, BudgetRequests, OtherRequests, Patches, Summing, Recording DEF Serve
<1>3. CASE \/ \E b \in Budgets : DeleteBudget(b) \/ Attach(b)
           \/ \E p \in Projects : DeleteProject(p) \/ Fund(p)
           \/ \E l \in Lines, b \in Budgets : AddLine(l, b)
           \/ \E l \in Lines : DeleteLine(l)
           \/ \E e \in Executions : DeleteExecution(e)
  BY <1>3, Deletions, Attachings, LineAdded
<1> QED  BY <1>1, <1>2, <1>3, UserDeleted DEF Next

\* The tables, the locks and the requests keep their types.
THEOREM TypeCorrectness == Spec => []TypeOK
<1>1. BInv => TypeOK
  BY DEF BInv, LocksSound, TablesSound, TypeOK, Doing
<1> QED  BY <1>1, BInitially, BStep, PTL DEF Spec

\* What is executed on a line without authorization stays within its approved
\* amount, whatever requests race, until a PATCH edits the line or a user who
\* authorized an execution on it is deleted (RN-020).
THEOREM UnauthorizedStaysWithin == Spec => []UnauthorizedFits
<1>1. BInv => UnauthorizedFits
  BY DEF BInv, Fits
<1> QED  BY <1>1, BInitially, BStep, PTL DEF Spec
===============================================================================
