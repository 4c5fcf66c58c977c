------------------------- MODULE ConversationProofs -------------------------
(***************************************************************************)
(* Proofs about RequestConversion and Conversation: for any messages, of   *)
(* any number and length, the payload is one that Kiro accepts, with each  *)
(* result behind its call, and each call answered that the messages        *)
(* account for.  The messages of a conversation do, but for the calls that *)
(* share their round with a server tool's; so all payloads of any          *)
(* conversation are of that kind, and answers end with their text if       *)
(* nothing but reasoning follows it.                                       *)
(***************************************************************************)
EXTENDS Conversation, SequenceTheorems, WellFoundedInduction, TLAPS

LEMMA Least ==
    ASSUME NEW numbers, numbers \subseteq Nat, numbers # {}
    PROVE  \E n \in numbers : \A m \in numbers : n <= m
<1> DEFINE R == OpToRel(<, Nat)
<1>1. IsWellFoundedOn(R, Nat)
  BY NatLessThanWellFounded
<1>2. \A m, n \in Nat : m < n => <<m, n>> \in R
  BY DEF OpToRel
<1> HIDE DEF R
<1>3. PICK n \in numbers : \A m \in numbers : ~(<<m, n>> \in R)
  BY <1>1, WFMin
<1>4. \A m \in numbers : ~(m < n)
  BY <1>2, <1>3
<1> QED
  BY <1>4

\* Induction over the numbers of a set.
LEMMA Induction ==
    ASSUME NEW S, 0 \in S, \A n \in Nat : n \in S => n + 1 \in S
    PROVE  Nat \subseteq S
<1> SUFFICES ASSUME ~(Nat \subseteq S) PROVE FALSE
  OBVIOUS
<1> DEFINE rest == Nat \ S
<1>1. PICK n \in rest : \A m \in rest : n <= m
  BY Least
<1>2. n - 1 \in Nat /\ n - 1 \notin rest
  BY <1>1
<1> QED
  BY <1>1, <1>2

LEMMA MaxUpTo == ASSUME NEW n \in Nat PROVE Max(1..(n + 1)) = n + 1
<1>1. n + 1 \in 1..(n + 1) /\ \A m \in 1..(n + 1) : n + 1 >= m
  OBVIOUS
<1>2. \A m \in 1..(n + 1) : (\A k \in 1..(n + 1) : m >= k) => m = n + 1
  BY <1>1
<1> QED
  BY <1>1, <1>2 DEF Max

LEMMA MaxWith ==
    ASSUME NEW n \in Nat, NEW s \in SUBSET (1..(n + 1)), n + 1 \in s
    PROVE  Max(s) = n + 1
<1>1. \A m \in s : n + 1 >= m
  OBVIOUS
<1>2. \A m \in s : (\A k \in s : m >= k) => m = n + 1
  BY <1>1
<1> QED
  BY <1>1, <1>2 DEF Max

-----------------------------------------------------------------------------
(***************************************************************************)
(* Folds.  FoldLeft goes through the sets of positions; the numbers of its *)
(* steps are those of the initial segments.                                *)
(***************************************************************************)
Iterates(it, base, g, n) ==
    \A s \in SUBSET (1..n) : it[s] = IF s = {} THEN base ELSE g[Max(s)][it[s \ {Max(s)}]]

LEMMA IteratesExtend ==
    ASSUME NEW X, NEW base \in X, NEW n \in Nat, NEW g, g[n + 1] \in [X -> X],
           NEW it \in [SUBSET (1..n) -> X], Iterates(it, base, g, n)
    PROVE  \E jt \in [SUBSET (1..(n + 1)) -> X] : Iterates(jt, base, g, n + 1)
<1> DEFINE jt == [s \in SUBSET (1..(n + 1)) |-> IF n + 1 \in s THEN g[n + 1][it[s \ {n + 1}]] ELSE it[s]]
<1>0. ASSUME NEW s \in SUBSET (1..(n + 1))
      PROVE  s \ {n + 1} \in SUBSET (1..n) /\ (n + 1 \notin s => s \in SUBSET (1..n))
  OBVIOUS
<1>1. ASSUME NEW s \in SUBSET (1..(n + 1))
      PROVE  jt[s] = IF n + 1 \in s THEN g[n + 1][it[s \ {n + 1}]] ELSE it[s]
  OBVIOUS
<1>2. jt \in [SUBSET (1..(n + 1)) -> X]
  BY <1>0
<1> HIDE DEF jt
<1>3. ASSUME NEW s \in SUBSET (1..(n + 1))
      PROVE  jt[s] = IF s = {} THEN base ELSE g[Max(s)][jt[s \ {Max(s)}]]
  <2>1. CASE n + 1 \in s
    <3>1. Max(s) = n + 1
      BY <2>1, MaxWith
    <3>2. jt[s \ {n + 1}] = it[s \ {n + 1}]
      <4>1. s \ {n + 1} \in SUBSET (1..(n + 1)) /\ n + 1 \notin s \ {n + 1}
        OBVIOUS
      <4> QED
        BY <4>1, <1>1
    <3> QED
      BY <2>1, <1>1, <3>1, <3>2
  <2>2. CASE n + 1 \notin s
    <3>1. s \in SUBSET (1..n) /\ jt[s] = it[s]
      BY <2>2, <1>0, <1>1
    <3>2. s \ {Max(s)} \in SUBSET (1..(n + 1)) /\ n + 1 \notin s \ {Max(s)}
      BY <2>2
    <3>3. jt[s \ {Max(s)}] = it[s \ {Max(s)}]
      BY <3>2, <1>1
    <3> QED
      BY <3>1, <3>3 DEF Iterates
  <2> QED
    BY <2>1, <2>2
<1> QED
  BY <1>2, <1>3 DEF Iterates

LEMMA IteratesExist ==
    ASSUME NEW X, NEW base \in X, NEW n \in Nat, NEW g \in [1..n -> [X -> X]]
    PROVE  \E it \in [SUBSET (1..n) -> X] : Iterates(it, base, g, n)
<1> DEFINE Solvable(m) == \E it \in [SUBSET (1..m) -> X] : Iterates(it, base, g, m)
           Solved == {m \in Nat : m <= n => Solvable(m)}
<1>1. 0 \in Solved
  <2>1. 1..0 = {} /\ SUBSET {} = {{}}
    OBVIOUS
  <2> DEFINE it == [s \in {{}} |-> base]
  <2>2. it \in [{{}} -> X] /\ it[{}] = base
    OBVIOUS
  <2> HIDE DEF it
  <2>3. Iterates(it, base, g, 0)
    BY <2>1, <2>2 DEF Iterates
  <2> QED
    BY <2>1, <2>2, <2>3
<1>2. ASSUME NEW m \in Nat, m \in Solved PROVE m + 1 \in Solved
  <2>1. ASSUME m + 1 <= n PROVE Solvable(m + 1)
    <3>1. m <= n /\ Solvable(m)
      <4> HIDE DEF Solvable
      <4> QED
        BY <1>2, <2>1
    <3>2. PICK it \in [SUBSET (1..m) -> X] : Iterates(it, base, g, m)
      BY <3>1
    <3>3. g[m + 1] \in [X -> X]
      BY <2>1
    <3> QED
      BY <3>2, <3>3, IteratesExtend
  <2> HIDE DEF Solvable
  <2> QED
    BY <2>1
<1>3. Solvable(n)
  <2> HIDE DEF Solvable
  <2>1. 0 \in Solved /\ \A m \in Nat : m \in Solved => m + 1 \in Solved
    BY <1>1, <1>2
  <2> HIDE DEF Solved
  <2>2. n \in Solved
    BY <2>1, Induction
  <2> QED
    BY <2>2 DEF Solved
<1> QED
  BY <1>3

\* What is left of the sets: the steps, one for each element.
Steps(out, base, g, n) ==
    /\ out[0] = base
    /\ \A k \in 0..(n - 1) : out[k + 1] = g[k + 1][out[k]]

LEMMA StepsExist ==
    ASSUME NEW X, NEW base \in X, NEW n \in Nat, NEW g \in [1..n -> [X -> X]]
    PROVE  \E out \in [0..n -> X] : Steps(out, base, g, n)
<1>1. PICK it \in [SUBSET (1..n) -> X] : Iterates(it, base, g, n)
  BY IteratesExist
<1> DEFINE out == [k \in 0..n |-> it[1..k]]
<1>2. out \in [0..n -> X]
  <2>1. \A k \in 0..n : 1..k \in SUBSET (1..n)
    OBVIOUS
  <2> QED
    BY <2>1
<1>3. out[0] = base
  <2>1. 0 \in 0..n /\ 1..0 = {} /\ {} \in SUBSET (1..n)
    OBVIOUS
  <2>2. it[{}] = base
    BY <1>1, <2>1 DEF Iterates
  <2> QED
    BY <2>1, <2>2
<1>4. ASSUME NEW k \in 0..(n - 1) PROVE out[k + 1] = g[k + 1][out[k]]
  <2>1. 1..(k + 1) \in SUBSET (1..n) /\ 1..(k + 1) # {} /\ (1..(k + 1)) \ {k + 1} = 1..k /\ Max(1..(k + 1)) = k + 1
    <3>1. Max(1..(k + 1)) = k + 1
      BY MaxUpTo
    <3>2. 1 \in 1..(k + 1)
      OBVIOUS
    <3> QED
      BY <3>1, <3>2
  <2>2. it[1..(k + 1)] = g[k + 1][it[1..k]]
    BY <1>1, <2>1 DEF Iterates
  <2>3. k \in 0..n /\ k + 1 \in 0..n
    OBVIOUS
  <2> QED
    BY <2>2, <2>3
<1> HIDE DEF out
<1> QED
  BY <1>2, <1>3, <1>4 DEF Steps

LEMMA MaxIn ==
    ASSUME NEW n \in Nat, NEW s \in SUBSET (1..n), s # {}
    PROVE  Max(s) \in s
<1> DEFINE bounds == {k \in Nat : \A m \in s : m <= k}
<1>1. n \in bounds
  OBVIOUS
<1>2. PICK k \in bounds : \A l \in bounds : k <= l
  BY <1>1, Least
<1>3. k \in s
  <2>1. SUFFICES ASSUME k \notin s PROVE FALSE
    OBVIOUS
  <2>2. k - 1 \in bounds
    <3>1. \A m \in s : m \in Nat /\ m <= k /\ m # k /\ m >= 1
      BY <2>1
    <3>2. PICK m \in s : TRUE
      OBVIOUS
    <3>3. k >= 1 /\ k - 1 \in Nat
      BY <3>1, <3>2
    <3>4. \A l \in s : l <= k - 1
      BY <3>1
    <3> QED
      BY <3>3, <3>4
  <2> QED
    BY <1>2, <2>2
<1>4. \E m \in s : \A l \in s : m >= l
  BY <1>3
<1> QED
  BY <1>4 DEF Max

\* A function defined by recursion over sets of positions takes the steps.
Recurses(it, X, base, g, n) ==
    /\ it[{}] = base
    /\ \A s \in SUBSET (1..n) : s # {} /\ it[s \ {Max(s)}] \in X => it[s] = g[Max(s)][it[s \ {Max(s)}]]

LEMMA FoldTakesSteps ==
    ASSUME NEW X, NEW base \in X, NEW n \in Nat, NEW g \in [1..n -> [X -> X]],
           NEW it, Recurses(it, X, base, g, n)
    PROVE  \E out \in [0..n -> X] : Steps(out, base, g, n) /\ out[n] = it[1..n]
<1> DEFINE Inside == {k \in Nat : k <= n => it[1..k] \in X}
<1>1. 0 \in Inside
  <2>1. 1..0 = {}
    OBVIOUS
  <2> QED
    BY <2>1 DEF Recurses
<1>2. ASSUME NEW k \in 0..(n - 1), it[1..k] \in X
      PROVE  it[1..(k + 1)] = g[k + 1][it[1..k]] /\ it[1..(k + 1)] \in X
  <2>1. Max(1..(k + 1)) = k + 1
    BY MaxUpTo
  <2>2. 1..(k + 1) \in SUBSET (1..n)
    OBVIOUS
  <2>2a. 1 \in 1..(k + 1)
    OBVIOUS
  <2>2b. (1..(k + 1)) \ {k + 1} = 1..k
    OBVIOUS
  <2>3. it[1..(k + 1)] = g[k + 1][it[1..k]]
    BY <1>2, <2>1, <2>2, <2>2a, <2>2b DEF Recurses
  <2>4. k + 1 \in 1..n
    OBVIOUS
  <2> QED
    BY <1>2, <2>3, <2>4
<1>3. ASSUME NEW k \in Nat, k \in Inside PROVE k + 1 \in Inside
  <2>1. ASSUME k + 1 <= n PROVE it[1..(k + 1)] \in X
    <3>1. k \in 0..(n - 1) /\ it[1..k] \in X
      BY <1>3, <2>1
    <3> QED
      BY <3>1, <1>2
  <2> QED
    BY <2>1
<1>4. Nat \subseteq Inside
  <2> HIDE DEF Inside
  <2> QED
    BY <1>1, <1>3, Induction
<1>5. \A k \in 0..n : it[1..k] \in X
  BY <1>4
<1> HIDE DEF Inside
<1> DEFINE out == [k \in 0..n |-> it[1..k]]
<1>6. out \in [0..n -> X] /\ \A k \in 0..n : out[k] = it[1..k]
  BY <1>5
<1> HIDE DEF out
<1>7. out[0] = base
  <2>1. 1..0 = {} /\ 0 \in 0..n
    OBVIOUS
  <2> QED
    BY <2>1, <1>6 DEF Recurses
<1>8. ASSUME NEW k \in 0..(n - 1) PROVE out[k + 1] = g[k + 1][out[k]]
  <2>1. k \in 0..n /\ k + 1 \in 0..n
    OBVIOUS
  <2>2. it[1..(k + 1)] = g[k + 1][it[1..k]]
    BY <2>1, <1>2, <1>5
  <2> QED
    BY <2>1, <2>2, <1>6
<1> QED
  BY <1>6, <1>7, <1>8 DEF Steps

MergeCloses(X, ms, n) == \A out \in X, i \in 1..n : AddMerged(out, ms[i]) \in X

LEMMA MergeSteps ==
    ASSUME NEW X, <<>> \in X, NEW ms, NEW n \in Nat, DOMAIN ms = 1..n, MergeCloses(X, ms, n)
    PROVE  \E out \in [0..n -> X] :
              /\ out[0] = <<>>
              /\ \A k \in 0..(n - 1) : out[k + 1] = AddMerged(out[k], ms[k + 1])
              /\ MergeAdjacentSameRole(ms) = out[n]
<1> DEFINE g == [i \in 1..n |-> [x \in X |-> AddMerged(x, ms[i])]]
           Eq(it) == it = [s \in SUBSET (1..n) |-> IF s = {} THEN <<>>
                                                   ELSE AddMerged(it[s \ {Max(s)}], ms[Max(s)])]
           fold == CHOOSE it : Eq(it)
<1>1. g \in [1..n -> [X -> X]] /\ \A i \in 1..n, x \in X : g[i][x] = AddMerged(x, ms[i])
  BY DEF MergeCloses
<1>2. MergeAdjacentSameRole(ms) = fold[1..n]
  BY DEF MergeAdjacentSameRole, FoldLeft, MapThenFoldSet
<1> HIDE DEF g
<1>3. \E it : Eq(it)
  <2>1. PICK it \in [SUBSET (1..n) -> X] : Iterates(it, <<>>, g, n)
    BY <1>1, IteratesExist
  <2>2. ASSUME NEW s \in SUBSET (1..n)
        PROVE  it[s] = IF s = {} THEN <<>> ELSE AddMerged(it[s \ {Max(s)}], ms[Max(s)])
    <3>1. s # {} => Max(s) \in 1..n
      BY MaxIn
    <3>2. it[s \ {Max(s)}] \in X
      OBVIOUS
    <3> QED
      BY <3>1, <3>2, <2>1, <1>1 DEF Iterates
  <2>3. it = [s \in SUBSET (1..n) |-> it[s]]
    OBVIOUS
  <2> QED
    BY <2>2, <2>3
<1>4. Eq(fold)
  <2> HIDE DEF Eq
  <2> QED
    BY <1>3
<1>5. \A s \in SUBSET (1..n) : fold[s] = IF s = {} THEN <<>> ELSE AddMerged(fold[s \ {Max(s)}], ms[Max(s)])
  <2> HIDE DEF fold
  <2> QED
    BY <1>4
<1> HIDE DEF fold, Eq
<1>6. fold[{}] = <<>>
  BY <1>5
<1>7. \A s \in SUBSET (1..n) : s # {} /\ fold[s \ {Max(s)}] \in X => fold[s] = g[Max(s)][fold[s \ {Max(s)}]]
  <2>1. \A s \in SUBSET (1..n) : s # {} => Max(s) \in 1..n
    BY MaxIn
  <2> QED
    BY <1>5, <2>1, <1>1
<1>7a. Recurses(fold, X, <<>>, g, n)
  BY <1>6, <1>7 DEF Recurses
<1>8. PICK out \in [0..n -> X] : Steps(out, <<>>, g, n) /\ out[n] = fold[1..n]
  BY <1>1, <1>7a, FoldTakesSteps
<1>9. \A k \in 0..(n - 1) : out[k] \in X /\ k + 1 \in 1..n
  OBVIOUS
<1>10. \A k \in 0..(n - 1) : out[k + 1] = AddMerged(out[k], ms[k + 1])
  BY <1>1, <1>8, <1>9 DEF Steps
<1>11. out[0] = <<>> /\ MergeAdjacentSameRole(ms) = out[n]
  BY <1>2, <1>8 DEF Steps
<1> QED
  BY <1>10, <1>11

TurnCloses(X, ms, n) == \A out \in X, i \in 1..n : AddInTurn(out, ms[i]) \in X

LEMMA TurnSteps ==
    ASSUME NEW X, <<>> \in X, NEW ms, NEW n \in Nat, DOMAIN ms = 1..n, TurnCloses(X, ms, n)
    PROVE  \E out \in [0..n -> X] :
              /\ out[0] = <<>>
              /\ \A k \in 0..(n - 1) : out[k + 1] = AddInTurn(out[k], ms[k + 1])
              /\ EnsureAlternatingRoles(ms) = out[n]
<1> DEFINE g == [i \in 1..n |-> [x \in X |-> AddInTurn(x, ms[i])]]
           Eq(it) == it = [s \in SUBSET (1..n) |-> IF s = {} THEN <<>>
                                                   ELSE AddInTurn(it[s \ {Max(s)}], ms[Max(s)])]
           fold == CHOOSE it : Eq(it)
<1>1. g \in [1..n -> [X -> X]] /\ \A i \in 1..n, x \in X : g[i][x] = AddInTurn(x, ms[i])
  BY DEF TurnCloses
<1>2. EnsureAlternatingRoles(ms) = fold[1..n]
  BY DEF EnsureAlternatingRoles, FoldLeft, MapThenFoldSet
<1> HIDE DEF g
<1>3. \E it : Eq(it)
  <2>1. PICK it \in [SUBSET (1..n) -> X] : Iterates(it, <<>>, g, n)
    BY <1>1, IteratesExist
  <2>2. ASSUME NEW s \in SUBSET (1..n)
        PROVE  it[s] = IF s = {} THEN <<>> ELSE AddInTurn(it[s \ {Max(s)}], ms[Max(s)])
    <3>1. s # {} => Max(s) \in 1..n
      BY MaxIn
    <3>2. it[s \ {Max(s)}] \in X
      OBVIOUS
    <3> QED
      BY <3>1, <3>2, <2>1, <1>1 DEF Iterates
  <2>3. it = [s \in SUBSET (1..n) |-> it[s]]
    OBVIOUS
  <2> QED
    BY <2>2, <2>3
<1>4. Eq(fold)
  <2> HIDE DEF Eq
  <2> QED
    BY <1>3
<1>5. \A s \in SUBSET (1..n) : fold[s] = IF s = {} THEN <<>> ELSE AddInTurn(fold[s \ {Max(s)}], ms[Max(s)])
  <2> HIDE DEF fold
  <2> QED
    BY <1>4
<1> HIDE DEF fold, Eq
<1>6. fold[{}] = <<>>
  BY <1>5
<1>7. \A s \in SUBSET (1..n) : s # {} /\ fold[s \ {Max(s)}] \in X => fold[s] = g[Max(s)][fold[s \ {Max(s)}]]
  <2>1. \A s \in SUBSET (1..n) : s # {} => Max(s) \in 1..n
    BY MaxIn
  <2> QED
    BY <1>5, <2>1, <1>1
<1>7a. Recurses(fold, X, <<>>, g, n)
  BY <1>6, <1>7 DEF Recurses
<1>8. PICK out \in [0..n -> X] : Steps(out, <<>>, g, n) /\ out[n] = fold[1..n]
  BY <1>1, <1>7a, FoldTakesSteps
<1>9. \A k \in 0..(n - 1) : out[k] \in X /\ k + 1 \in 1..n
  OBVIOUS
<1>10. \A k \in 0..(n - 1) : out[k + 1] = AddInTurn(out[k], ms[k + 1])
  BY <1>1, <1>8, <1>9 DEF Steps
<1>11. out[0] = <<>> /\ EnsureAlternatingRoles(ms) = out[n]
  BY <1>2, <1>8 DEF Steps
<1> QED
  BY <1>10, <1>11

ExpandCloses(X, m, n) == \A out \in X, i \in 1..n : AddBlock(out, m.blocks[i]) \in X

LEMMA ExpandSteps ==
    ASSUME NEW X, Segments \in X, NEW m, NEW n \in Nat, DOMAIN m.blocks = 1..n, ExpandCloses(X, m, n)
    PROVE  \E out \in [0..n -> X] :
              /\ out[0] = Segments
              /\ \A k \in 0..(n - 1) : out[k + 1] = AddBlock(out[k], m.blocks[k + 1])
              /\ ExpandAssistantMessage(m) = FlushSegments(out[n]).out
<1> DEFINE g == [i \in 1..n |-> [x \in X |-> AddBlock(x, m.blocks[i])]]
           Eq(it) == it = [s \in SUBSET (1..n) |-> IF s = {} THEN Segments
                                                   ELSE AddBlock(it[s \ {Max(s)}], m.blocks[Max(s)])]
           fold == CHOOSE it : Eq(it)
<1>1. g \in [1..n -> [X -> X]] /\ \A i \in 1..n, x \in X : g[i][x] = AddBlock(x, m.blocks[i])
  BY DEF ExpandCloses
<1>2. ExpandAssistantMessage(m) = FlushSegments(fold[1..n]).out
  BY DEF ExpandAssistantMessage, FoldLeft, MapThenFoldSet
<1> HIDE DEF g
<1>3. \E it : Eq(it)
  <2>1. PICK it \in [SUBSET (1..n) -> X] : Iterates(it, Segments, g, n)
    BY <1>1, IteratesExist
  <2>2. ASSUME NEW s \in SUBSET (1..n)
        PROVE  it[s] = IF s = {} THEN Segments ELSE AddBlock(it[s \ {Max(s)}], m.blocks[Max(s)])
    <3>1. s # {} => Max(s) \in 1..n
      BY MaxIn
    <3>2. it[s \ {Max(s)}] \in X
      OBVIOUS
    <3> QED
      BY <3>1, <3>2, <2>1, <1>1 DEF Iterates
  <2>3. it = [s \in SUBSET (1..n) |-> it[s]]
    OBVIOUS
  <2> QED
    BY <2>2, <2>3
<1>4. Eq(fold)
  <2> HIDE DEF Eq
  <2> QED
    BY <1>3
<1>5. \A s \in SUBSET (1..n) : fold[s] = IF s = {} THEN Segments ELSE AddBlock(fold[s \ {Max(s)}], m.blocks[Max(s)])
  <2> HIDE DEF fold
  <2> QED
    BY <1>4
<1> HIDE DEF fold, Eq
<1>6. fold[{}] = Segments
  BY <1>5
<1>7. \A s \in SUBSET (1..n) : s # {} /\ fold[s \ {Max(s)}] \in X => fold[s] = g[Max(s)][fold[s \ {Max(s)}]]
  <2>1. \A s \in SUBSET (1..n) : s # {} => Max(s) \in 1..n
    BY MaxIn
  <2> QED
    BY <1>5, <2>1, <1>1
<1>7a. Recurses(fold, X, Segments, g, n)
  BY <1>6, <1>7 DEF Recurses
<1>8. PICK out \in [0..n -> X] : Steps(out, Segments, g, n) /\ out[n] = fold[1..n]
  BY <1>1, <1>7a, FoldTakesSteps
<1>9. \A k \in 0..(n - 1) : out[k] \in X /\ k + 1 \in 1..n
  OBVIOUS
<1>10. \A k \in 0..(n - 1) : out[k + 1] = AddBlock(out[k], m.blocks[k + 1])
  BY <1>1, <1>8, <1>9 DEF Steps
<1>11. out[0] = Segments /\ ExpandAssistantMessage(m) = FlushSegments(out[n]).out
  BY <1>2, <1>8 DEF Steps
<1> QED
  BY <1>10, <1>11

-----------------------------------------------------------------------------
(***************************************************************************)
(* FlattenSeq and Selected.                                                *)
(***************************************************************************)
Flattens(out, X, seqs, n, flat) ==
    /\ out \in [0..n -> Seq(X)]
    /\ out[0] = <<>>
    /\ \A k \in 0..(n - 1) : out[k + 1] = out[k] \o seqs[k + 1]
    /\ flat = out[n]

LEMMA FlattenSteps ==
    ASSUME NEW S, NEW seqs \in Seq(Seq(S)), NEW n \in Nat, n = Len(seqs)
    PROVE  \E out : Flattens(out, S, seqs, n, FlattenSeq(seqs))
<1>0. DOMAIN seqs = 1..n /\ \A i \in 1..n : seqs[i] \in Seq(S)
  BY LenProperties, ElementOfSeq
<1> DEFINE g == [i \in 1..n |-> [x \in Seq(S) |-> x \o seqs[i]]]
<1>1. g \in [1..n -> [Seq(S) -> Seq(S)]] /\ \A i \in 1..n, x \in Seq(S) : g[i][x] = x \o seqs[i]
  BY <1>0, ConcatProperties
<1> HIDE DEF g
<1>2. <<>> \in Seq(S)
  OBVIOUS
<1>3. PICK out \in [0..n -> Seq(S)] : Steps(out, <<>>, g, n)
  BY <1>1, <1>2, StepsExist
<1>4. out[0] = <<>> /\ \A k \in 0..(n - 1) : out[k + 1] = out[k] \o seqs[k + 1]
  <2>1. ASSUME NEW k \in 0..(n - 1) PROVE out[k] \in Seq(S) /\ k + 1 \in 1..n
    <3>1. k \in 0..n /\ k + 1 \in 1..n
      OBVIOUS
    <3> QED
      BY <3>1
  <2> QED
    BY <1>1, <1>3, <2>1 DEF Steps
<1>5. CASE n = 0
  <2>1. seqs = <<>>
    BY <1>5, EmptySeq
  <2>2. FlattenSeq(seqs) = out[n]
    BY <1>4, <1>5, <2>1 DEF FlattenSeq
  <2>3. Flattens(out, S, seqs, n, FlattenSeq(seqs))
    BY <1>4, <2>2 DEF Flattens
  <2> QED
    BY <2>3
<1>6. CASE n # 0
  <2> DEFINE Eq(f) == f = [i \in 1..n |-> IF i = 1 THEN seqs[i] ELSE f[i - 1] \o seqs[i]]
             flat == CHOOSE f : Eq(f)
             start == [i \in 1..n |-> out[i]]
  <2>1. FlattenSeq(seqs) = flat[n]
    BY <1>6 DEF FlattenSeq
  <2>2. ASSUME NEW i \in 1..n PROVE start[i] = IF i = 1 THEN seqs[i] ELSE start[i - 1] \o seqs[i]
    <3>1. i - 1 \in 0..(n - 1) /\ (i - 1) + 1 = i
      OBVIOUS
    <3>2. out[i] = out[i - 1] \o seqs[i]
      BY <1>4, <3>1
    <3>3. CASE i = 1
      <4>1. <<>> \o seqs[1] = seqs[1]
        BY <1>0, <3>3, ConcatEmptySeq
      <4>2. out[1] = <<>> \o seqs[1]
        <5>1. i - 1 = 0 /\ out[0] = <<>>
          BY <1>4, <3>3
        <5>2. out[1] = out[0] \o seqs[1]
          BY <3>2, <3>3, <5>1
        <5> QED
          BY <5>1, <5>2
      <4>3. start[i] = out[1]
        BY <3>3
      <4> HIDE DEF start
      <4> QED
        BY <3>3, <4>1, <4>2, <4>3
    <3>4. CASE i # 1
      <4>1. i - 1 \in 1..n
        BY <3>4
      <4> QED
        BY <3>2, <3>4, <4>1
    <3> QED
      BY <3>3, <3>4
  <2>3. Eq(start)
    <3>1. start = [i \in 1..n |-> start[i]]
      OBVIOUS
    <3> HIDE DEF start
    <3> QED
      BY <2>2, <3>1
  <2>4. Eq(flat)
    <3> HIDE DEF Eq, start
    <3> QED
      BY <2>3
  <2>5. \A i \in 1..n : flat[i] = IF i = 1 THEN seqs[i] ELSE flat[i - 1] \o seqs[i]
    <3> HIDE DEF flat
    <3> QED
      BY <2>4
  <2> HIDE DEF flat, Eq, start
  <2> DEFINE Same == {k \in Nat : k + 1 <= n => flat[k + 1] = out[k + 1]}
  <2>6. 0 \in Same
    <3>1. 0 + 1 \in 1..n /\ 0 \in 0..(n - 1)
      BY <1>6
    <3>2. flat[0 + 1] = seqs[0 + 1]
      BY <3>1, <2>5
    <3>3. out[0 + 1] = <<>> \o seqs[0 + 1]
      BY <3>1, <1>4
    <3>4. <<>> \o seqs[0 + 1] = seqs[0 + 1]
      BY <1>0, <3>1, ConcatEmptySeq
    <3> QED
      BY <3>2, <3>3, <3>4
  <2>7. ASSUME NEW k \in Nat, k \in Same PROVE k + 1 \in Same
    <3> SUFFICES ASSUME k + 2 <= n PROVE flat[k + 2] = out[k + 2]
      OBVIOUS
    <3>1. k + 2 \in 1..n /\ k + 2 # 1 /\ (k + 2) - 1 = k + 1 /\ k + 1 \in 0..(n - 1) /\ (k + 1) + 1 = k + 2
      OBVIOUS
    <3>2. flat[k + 2] = flat[k + 1] \o seqs[k + 2]
      BY <3>1, <2>5
    <3>3. out[k + 2] = out[k + 1] \o seqs[k + 2]
      <4>1. out[(k + 1) + 1] = out[k + 1] \o seqs[(k + 1) + 1]
        BY <3>1, <1>4
      <4> QED
        BY <3>1, <4>1
    <3>4. flat[k + 1] = out[k + 1]
      BY <2>7
    <3> QED
      BY <3>2, <3>3, <3>4
  <2>8. n - 1 \in Same
    <3>1. n - 1 \in Nat
      BY <1>6
    <3> HIDE DEF Same
    <3> QED
      BY <2>6, <2>7, <3>1, Induction
  <2>9. flat[n] = out[n]
    BY <2>8
  <2> HIDE DEF Same
  <2>10. Flattens(out, S, seqs, n, FlattenSeq(seqs))
    BY <1>4, <2>1, <2>9 DEF Flattens
  <2> QED
    BY <2>10
<1> QED
  BY <1>5, <1>6

LEMMA FlattenType ==
    ASSUME NEW S, NEW seqs \in Seq(Seq(S))
    PROVE  FlattenSeq(seqs) \in Seq(S)
<1>1. PICK n \in Nat : n = Len(seqs)
  BY LenProperties
<1>2a. PICK out : Flattens(out, S, seqs, n, FlattenSeq(seqs))
  BY <1>1, FlattenSteps
<1>2. /\ out \in [0..n -> Seq(S)] /\ out[0] = <<>>
      /\ \A k \in 0..(n - 1) : out[k + 1] = out[k] \o seqs[k + 1]
      /\ FlattenSeq(seqs) = out[n]
  BY <1>2a DEF Flattens
<1> QED
  BY <1>2

LEMMA ConcatRange ==
    ASSUME NEW S, NEW s \in Seq(S), NEW t \in Seq(S)
    PROVE  Range(s \o t) = Range(s) \cup Range(t)
  BY RangeConcatenation

LEMMA FlattenRange ==
    ASSUME NEW S, NEW seqs \in Seq(Seq(S))
    PROVE  Range(FlattenSeq(seqs)) = UNION {Range(seqs[i]) : i \in DOMAIN seqs}
<1>1. PICK n \in Nat : n = Len(seqs) /\ DOMAIN seqs = 1..n /\ \A i \in 1..n : seqs[i] \in Seq(S)
  BY LenProperties, ElementOfSeq
<1>2a. PICK out : Flattens(out, S, seqs, n, FlattenSeq(seqs))
  BY <1>1, FlattenSteps
<1>2. /\ out \in [0..n -> Seq(S)] /\ out[0] = <<>>
      /\ \A k \in 0..(n - 1) : out[k + 1] = out[k] \o seqs[k + 1]
      /\ FlattenSeq(seqs) = out[n]
  BY <1>2a DEF Flattens
<1> DEFINE Upto(k) == UNION {Range(seqs[i]) : i \in 1..k}
           Right == {k \in Nat : k <= n => Range(out[k]) = Upto(k)}
<1>3. 0 \in Right
  <2>1. Range(<<>>) = {} /\ Upto(0) = {}
    BY DEF Range
  <2> QED
    BY <1>2, <2>1
<1>4. ASSUME NEW k \in Nat, k \in Right PROVE k + 1 \in Right
  <2> SUFFICES ASSUME k + 1 <= n PROVE Range(out[k + 1]) = Upto(k + 1)
    OBVIOUS
  <2>1. k \in 0..(n - 1) /\ k \in 0..n /\ k + 1 \in 1..n
    OBVIOUS
  <2>2. out[k + 1] = out[k] \o seqs[k + 1] /\ out[k] \in Seq(S) /\ seqs[k + 1] \in Seq(S)
    BY <1>1, <1>2, <2>1
  <2>3. Range(out[k + 1]) = Range(out[k]) \cup Range(seqs[k + 1])
    BY <2>2, ConcatRange
  <2>4. Range(out[k]) = Upto(k)
    BY <1>4, <2>1
  <2>5. Upto(k + 1) = Upto(k) \cup Range(seqs[k + 1])
    <3>1. 1..(k + 1) = 1..k \cup {k + 1}
      OBVIOUS
    <3> QED
      BY <3>1
  <2> QED
    BY <2>3, <2>4, <2>5
<1>5. n \in Right
  <2> HIDE DEF Right
  <2> QED
    BY <1>3, <1>4, Induction
<1> QED
  BY <1>1, <1>2, <1>5

\* The steps to the end of a sequence that grew by one.
LEMMA FlattenAppend ==
    ASSUME NEW S, NEW seqs \in Seq(Seq(S)), NEW more \in Seq(S)
    PROVE  FlattenSeq(Append(seqs, more)) = FlattenSeq(seqs) \o more
<1>1. PICK n \in Nat : n = Len(seqs) /\ DOMAIN seqs = 1..n /\ \A i \in 1..n : seqs[i] \in Seq(S)
  BY LenProperties, ElementOfSeq
<1> DEFINE longer == Append(seqs, more)
<1>2. longer \in Seq(Seq(S)) /\ Len(longer) = n + 1 /\ longer[n + 1] = more /\ \A i \in 1..n : longer[i] = seqs[i]
  BY <1>1, AppendProperties
<1> HIDE DEF longer
<1>3a. PICK out : Flattens(out, S, seqs, n, FlattenSeq(seqs))
  BY <1>1, FlattenSteps
<1>3. /\ out \in [0..n -> Seq(S)] /\ out[0] = <<>>
      /\ \A k \in 0..(n - 1) : out[k + 1] = out[k] \o seqs[k + 1]
      /\ FlattenSeq(seqs) = out[n]
  BY <1>3a DEF Flattens
<1>4a. PICK far : Flattens(far, S, longer, n + 1, FlattenSeq(longer))
  <2>1. n + 1 \in Nat /\ n + 1 = Len(longer)
    BY <1>2
  <2> QED
    BY <2>1, <1>2, FlattenSteps
<1>4. /\ far \in [0..(n + 1) -> Seq(S)] /\ far[0] = <<>>
      /\ \A k \in 0..((n + 1) - 1) : far[k + 1] = far[k] \o longer[k + 1]
      /\ FlattenSeq(longer) = far[n + 1]
  BY <1>4a DEF Flattens
<1> DEFINE Same == {k \in Nat : k <= n => far[k] = out[k]}
<1>5. 0 \in Same
  BY <1>3, <1>4
<1>6. ASSUME NEW k \in Nat, k \in Same PROVE k + 1 \in Same
  <2> SUFFICES ASSUME k + 1 <= n PROVE far[k + 1] = out[k + 1]
    OBVIOUS
  <2>1. k \in 0..(n - 1) /\ k \in 0..((n + 1) - 1) /\ k + 1 \in 1..n
    OBVIOUS
  <2>2. far[k + 1] = far[k] \o longer[k + 1] /\ out[k + 1] = out[k] \o seqs[k + 1]
    BY <1>3, <1>4, <2>1
  <2>3. far[k] = out[k]
    BY <1>6
  <2>4. longer[k + 1] = seqs[k + 1]
    BY <1>2, <2>1
  <2> QED
    BY <2>2, <2>3, <2>4
<1>7. n \in Same
  <2> HIDE DEF Same
  <2> QED
    BY <1>5, <1>6, Induction
<1>8. far[n] = out[n]
  BY <1>7
<1>9. n \in 0..((n + 1) - 1)
  OBVIOUS
<1> QED
  BY <1>2, <1>3, <1>4, <1>8, <1>9 DEF longer

-----------------------------------------------------------------------------
(***************************************************************************)
(* Blocks and messages.                                                    *)
(***************************************************************************)
Kinds == {"text", "image", "redacted_thinking", "tool_use", "tool_result", "server_tool_use",
          "advisor_tool_result", "tool_search_tool_result"}
ContentBlocks == [kind : Kinds, of : Kinds \cup {"(empty)", "Continue"}, id : Nat, images : Seq(Nat)]
Messages == [role : {"user", "assistant", "developer"}, blocks : Seq(ContentBlocks)]

HasResult(m) == \E j \in DOMAIN m.blocks : IsToolResult(m.blocks[j])

\* What comes from the client and the server-tool loop: the results of tools
\* are the user's, or in an answer those of server tools.
Given == {m \in Messages : /\ m.role = "developer" => ~HasResult(m)
                           /\ m.role = "assistant" => \A j \in DOMAIN m.blocks : m.blocks[j].kind # "tool_result"}

\* Where results are the user's only.
Parted == {m \in Messages : HasResult(m) => m.role = "user"}

CallsOf(m)   == {m.blocks[j].id : j \in {k \in DOMAIN m.blocks : IsToolUse(m.blocks[k])}}
ResultsOf(m) == {m.blocks[j].id : j \in {k \in DOMAIN m.blocks : IsToolResult(m.blocks[k])}}

LEMMA BlockOf ==
    ASSUME NEW m \in Messages
    PROVE  /\ m.blocks \in Seq(ContentBlocks)
           /\ \A j \in DOMAIN m.blocks : m.blocks[j] \in ContentBlocks
<1>1. m.blocks \in Seq(ContentBlocks)
  BY DEF Messages
<1> QED
  BY <1>1, LenProperties, ElementOfSeq

\* What is selected, and that nothing is if nothing passes the test.
Chosen(s, places) == FlattenSeq([i \in DOMAIN s |-> IF i \in places THEN <<s[i]>> ELSE <<>>])

LEMMA ChosenFacts ==
    ASSUME NEW S, NEW s \in Seq(S), NEW places
    PROVE  /\ Chosen(s, places) \in Seq(S)
           /\ Range(Chosen(s, places)) = {s[i] : i \in DOMAIN s \cap places}
           /\ DOMAIN s \cap places = {} <=> Chosen(s, places) = <<>>
<1> DEFINE each == [i \in DOMAIN s |-> IF i \in places THEN <<s[i]>> ELSE <<>>]
<1>1. PICK n \in Nat : n = Len(s) /\ DOMAIN s = 1..n /\ \A i \in 1..n : s[i] \in S
  BY LenProperties, ElementOfSeq
<1>2. each \in Seq(Seq(S)) /\ DOMAIN each = DOMAIN s
  <2>1. \A i \in 1..n : each[i] \in Seq(S)
    BY <1>1
  <2> QED
    BY <1>1, <2>1
<1>3. \A i \in DOMAIN s : Range(each[i]) = IF i \in places THEN {s[i]} ELSE {}
  <2>1. \A x : Range(<<x>>) = {x} /\ Range(<<>>) = {}
    BY DEF Range
  <2> QED
    BY <2>1
<1>4. Chosen(s, places) \in Seq(S) /\ Range(Chosen(s, places)) = UNION {Range(each[i]) : i \in DOMAIN each}
  <2> HIDE DEF each
  <2>1. Chosen(s, places) = FlattenSeq(each)
    BY DEF each, Chosen
  <2> QED
    BY <1>2, <2>1, FlattenType, FlattenRange
<1> HIDE DEF each
<1>5. Range(Chosen(s, places)) = {s[i] : i \in DOMAIN s \cap places}
  <2>1. ASSUME NEW x PROVE x \in Range(Chosen(s, places)) <=> \E i \in DOMAIN s : x \in Range(each[i])
    BY <1>2, <1>4
  <2>2. ASSUME NEW i \in DOMAIN s, NEW x PROVE x \in Range(each[i]) <=> i \in places /\ x = s[i]
    BY <1>3
  <2> HIDE DEF Chosen
  <2>3. ASSUME NEW x PROVE x \in Range(Chosen(s, places)) <=> x \in {s[i] : i \in DOMAIN s \cap places}
    BY <2>1, <2>2
  <2> QED
    BY <2>3
<1>6. Range(Chosen(s, places)) = {} <=> Chosen(s, places) = <<>>
  <2>1. \A t \in Seq(S) : Range(t) = {} <=> t = <<>>
    <3>1. SUFFICES ASSUME NEW t \in Seq(S), t # <<>> PROVE Range(t) # {}
      BY DEF Range
    <3>2. Len(t) \in Nat /\ Len(t) # 0 /\ DOMAIN t = 1..Len(t)
      BY <3>1, LenProperties, EmptySeq
    <3>3. 1 \in DOMAIN t
      BY <3>2
    <3> QED
      BY <3>3 DEF Range
  <2> QED
    BY <1>4, <2>1
<1>7. DOMAIN s \cap places = {} <=> Range(Chosen(s, places)) = {}
  BY <1>5
<1> QED
  BY <1>4, <1>5, <1>6, <1>7

LEMMA IdsOf ==
    ASSUME NEW S, NEW s \in Seq(S)
    PROVE  Range(Ids(s)) = {b.id : b \in Range(s)} /\ (Ids(s) = <<>> <=> s = <<>>)
<1>1. PICK n \in Nat : n = Len(s) /\ DOMAIN s = 1..n
  BY LenProperties
<1>2. Range(Ids(s)) = {b.id : b \in Range(s)}
  BY DEF Ids, Range
<1>3. DOMAIN Ids(s) = 1..n
  BY <1>1 DEF Ids
<1>4. s = <<>> <=> n = 0
  BY <1>1, EmptySeq
<1>5. Ids(s) = <<>> <=> n = 0
  <2>1. ASSUME n = 0 PROVE Ids(s) = <<>>
    BY <1>1, <2>1 DEF Ids
  <2>2. ASSUME n # 0 PROVE Ids(s) # <<>>
    <3>1. 1 \in DOMAIN Ids(s)
      BY <1>3, <2>2
    <3> QED
      BY <3>1
  <2> QED
    BY <2>1, <2>2
<1> QED
  BY <1>2, <1>4, <1>5

LEMMA CallsAreSelected ==
    ASSUME NEW m \in Messages
    PROVE  Range(ToolUseIds(m)) = CallsOf(m) /\ (CallsOf(m) = {} => ToolUseIds(m) = <<>>)
<1> DEFINE places == {k \in DOMAIN m.blocks : IsToolUse(m.blocks[k])}
           calls == Chosen(m.blocks, places)
<1>1. m.blocks \in Seq(ContentBlocks)
  BY BlockOf
<1>2. ToolUseIds(m) = Ids(calls)
  <2>1. [i \in DOMAIN m.blocks |-> IF IsToolUse(m.blocks[i]) THEN <<m.blocks[i]>> ELSE <<>>]
          = [i \in DOMAIN m.blocks |-> IF i \in places THEN <<m.blocks[i]>> ELSE <<>>]
    OBVIOUS
  <2> QED
    BY <2>1 DEF ToolUseIds, Selected, Chosen
<1>3. calls \in Seq(ContentBlocks) /\ Range(calls) = {m.blocks[i] : i \in DOMAIN m.blocks \cap places}
      /\ (DOMAIN m.blocks \cap places = {} <=> calls = <<>>)
  <2> HIDE DEF places
  <2> QED
    BY <1>1, ChosenFacts
<1> HIDE DEF calls
<1>4. Range(Ids(calls)) = {b.id : b \in Range(calls)} /\ (Ids(calls) = <<>> <=> calls = <<>>)
  BY <1>3, IdsOf
<1>5. DOMAIN m.blocks \cap places = places /\ CallsOf(m) = {m.blocks[i].id : i \in places}
  BY DEF CallsOf
<1> HIDE DEF places
<1>6. Range(Ids(calls)) = {m.blocks[i].id : i \in places}
  BY <1>3, <1>4, <1>5
<1>7. CallsOf(m) = {} <=> places = {}
  BY <1>5
<1> QED
  BY <1>2, <1>3, <1>4, <1>5, <1>6, <1>7

LEMMA ResultsAreSelected ==
    ASSUME NEW m \in Messages
    PROVE  Range(ToolResults(m)) = ResultsOf(m) /\ (ResultsOf(m) = {} <=> ToolResults(m) = <<>>)
<1> DEFINE places == {k \in DOMAIN m.blocks : IsToolResult(m.blocks[k])}
           results == Chosen(m.blocks, places)
<1>1. m.blocks \in Seq(ContentBlocks)
  BY BlockOf
<1>2. ToolResults(m) = Ids(results)
  <2>1. [i \in DOMAIN m.blocks |-> IF IsToolResult(m.blocks[i]) THEN <<m.blocks[i]>> ELSE <<>>]
          = [i \in DOMAIN m.blocks |-> IF i \in places THEN <<m.blocks[i]>> ELSE <<>>]
    OBVIOUS
  <2> QED
    BY <2>1 DEF ToolResults, Selected, Chosen
<1>3. results \in Seq(ContentBlocks) /\ Range(results) = {m.blocks[i] : i \in DOMAIN m.blocks \cap places}
      /\ (DOMAIN m.blocks \cap places = {} <=> results = <<>>)
  <2> HIDE DEF places
  <2> QED
    BY <1>1, ChosenFacts
<1> HIDE DEF results
<1>4. Range(Ids(results)) = {b.id : b \in Range(results)} /\ (Ids(results) = <<>> <=> results = <<>>)
  BY <1>3, IdsOf
<1>5. DOMAIN m.blocks \cap places = places /\ ResultsOf(m) = {m.blocks[i].id : i \in places}
  BY DEF ResultsOf
<1> HIDE DEF places
<1>6. Range(Ids(results)) = {m.blocks[i].id : i \in places}
  BY <1>3, <1>4, <1>5
<1>7. ResultsOf(m) = {} <=> places = {}
  BY <1>5
<1> QED
  BY <1>2, <1>3, <1>4, <1>5, <1>6, <1>7

\* Kinds decide what a block is, and turning it into text makes it text.
LEMMA KindFacts ==
    ASSUME NEW b \in ContentBlocks
    PROVE  /\ AsText(b) \in ContentBlocks /\ IsText(AsText(b)) /\ AsText(b).id = b.id
           /\ ~IsToolUse(AsText(b)) /\ ~IsToolResult(AsText(b)) /\ ~IsServerToolResult(AsText(b))
           /\ [b EXCEPT !.kind = "tool_result"] \in ContentBlocks
           /\ IsText(b) => ~IsToolUse(b) /\ ~IsToolResult(b) /\ ~IsServerToolResult(b)
           /\ IsToolUse(b) => ~IsToolResult(b) /\ ~IsServerToolResult(b)
           /\ IsToolResult(b) <=> b.kind = "tool_result" \/ b.kind = "tool_search_tool_result"
<1>1. <<>> \in Seq(Nat)
  OBVIOUS
<1> QED
  BY <1>1 DEF AsText, ContentBlocks, Kinds, IsText, IsToolUse, IsToolResult, IsServerToolResult

-----------------------------------------------------------------------------
(***************************************************************************)
(* The passes of Normalize.                                                *)
(***************************************************************************)
Spoken == {b \in ContentBlocks : ~IsToolResult(b)}
SegmentStates == [out : Seq(Parted), assistant : Seq(Spoken), results : Seq(ContentBlocks)]

LEMMA MessageTypes ==
    /\ \A blocks \in Seq(Spoken) : Message("assistant", blocks) \in Parted
    /\ \A blocks \in Seq(ContentBlocks) : Message("user", blocks) \in Parted
<1>1. ASSUME NEW blocks \in Seq(ContentBlocks), NEW role \in {"user", "assistant", "developer"}
      PROVE  Message(role, blocks) \in Messages
  BY DEF Message, Messages
<1>2. ASSUME NEW blocks \in Seq(Spoken) PROVE Message("assistant", blocks) \in Parted
  <2>1. blocks \in Seq(ContentBlocks) /\ \A j \in DOMAIN blocks : blocks[j] \in Spoken
    <3>1. Spoken \subseteq ContentBlocks
      BY DEF Spoken
    <3> QED
      BY <3>1, SeqMonotonic, LenProperties, ElementOfSeq
  <2>2. ~HasResult(Message("assistant", blocks))
    BY <2>1 DEF HasResult, Message, Spoken
  <2> QED
    BY <1>1, <2>1, <2>2 DEF Parted
<1>3. ASSUME NEW blocks \in Seq(ContentBlocks) PROVE Message("user", blocks) \in Parted
  BY <1>1 DEF Parted, Message
<1> QED
  BY <1>2, <1>3

LEMMA FlushType ==
    ASSUME NEW s \in SegmentStates
    PROVE  FlushSegments(s) \in SegmentStates /\ FlushSegments(s).out \in Seq(Parted)
<1>1. s.out \in Seq(Parted) /\ s.assistant \in Seq(Spoken) /\ s.results \in Seq(ContentBlocks)
  BY DEF SegmentStates
<1>2. NonEmpty("assistant", s.assistant) \in Seq(Parted) /\ NonEmpty("user", s.results) \in Seq(Parted)
  <2>1. <<>> \in Seq(Parted) /\ \A m \in Parted : <<m>> \in Seq(Parted)
    OBVIOUS
  <2> QED
    BY <1>1, <2>1, MessageTypes DEF NonEmpty
<1>3. (s.out \o NonEmpty("assistant", s.assistant)) \o NonEmpty("user", s.results) \in Seq(Parted)
  <2>1. s.out \o NonEmpty("assistant", s.assistant) \in Seq(Parted)
    BY <1>1, <1>2, ConcatProperties
  <2> QED
    BY <1>2, <2>1, ConcatProperties
<1>4. <<>> \in Seq(Spoken) /\ <<>> \in Seq(ContentBlocks)
  OBVIOUS
<1> QED
  BY <1>3, <1>4 DEF FlushSegments, Segments, SegmentStates

LEMMA AddBlockType ==
    ASSUME NEW s \in SegmentStates, NEW b \in ContentBlocks, b.kind # "tool_result"
    PROVE  AddBlock(s, b) \in SegmentStates
<1>1. CASE IsServerToolResult(b)
  <2>1. Append(s.results, [b EXCEPT !.kind = "tool_result"]) \in Seq(ContentBlocks)
    <3>1. s.results \in Seq(ContentBlocks)
      BY DEF SegmentStates
    <3> QED
      BY <3>1, KindFacts, AppendProperties
  <2> QED
    BY <1>1, <2>1 DEF AddBlock, SegmentStates
<1>2. CASE ~IsServerToolResult(b)
  <2>1. b \in Spoken
    BY <1>2, KindFacts DEF Spoken, IsServerToolResult
  <2> DEFINE t == IF s.results = <<>> THEN s ELSE FlushSegments(s)
  <2>2. t \in SegmentStates
    BY FlushType
  <2> HIDE DEF t
  <2>3. Append(t.assistant, b) \in Seq(Spoken)
    <3>1. t.assistant \in Seq(Spoken)
      BY <2>2 DEF SegmentStates
    <3> QED
      BY <2>1, <3>1, AppendProperties
  <2>4. [t EXCEPT !.assistant = Append(@, b)] \in SegmentStates
    BY <2>2, <2>3 DEF SegmentStates
  <2>5. AddBlock(s, b) = [t EXCEPT !.assistant = Append(@, b)]
    BY <1>2 DEF AddBlock, t
  <2> QED
    BY <2>4, <2>5
<1> QED
  BY <1>1, <1>2

LEMMA SegmentsType == Segments \in SegmentStates
<1>1. <<>> \in Seq(Parted) /\ <<>> \in Seq(Spoken) /\ <<>> \in Seq(ContentBlocks)
  OBVIOUS
<1> QED
  BY <1>1 DEF Segments, SegmentStates

LEMMA ExpandOut ==
    ASSUME NEW m \in Given, HasServerToolResult(m)
    PROVE  \E n \in Nat : \E out \in [0..n -> SegmentStates] :
              /\ DOMAIN m.blocks = 1..n
              /\ out[0] = Segments
              /\ \A k \in 0..(n - 1) : out[k + 1] = AddBlock(out[k], m.blocks[k + 1])
              /\ ExpandAssistantMessage(m) = FlushSegments(out[n]).out
<1>1. m \in Messages /\ m.role = "assistant" /\ \A j \in DOMAIN m.blocks : m.blocks[j].kind # "tool_result"
  BY DEF Given, HasServerToolResult
<1>2. PICK n \in Nat : DOMAIN m.blocks = 1..n
  <2>1. m.blocks \in Seq(ContentBlocks)
    BY <1>1, BlockOf
  <2> QED
    BY <2>1, LenProperties
<1>3. ExpandCloses(SegmentStates, m, n)
  BY <1>1, <1>2, BlockOf, AddBlockType DEF ExpandCloses
<1>4. PICK out \in [0..n -> SegmentStates] :
            /\ out[0] = Segments
            /\ \A k \in 0..(n - 1) : out[k + 1] = AddBlock(out[k], m.blocks[k + 1])
            /\ ExpandAssistantMessage(m) = FlushSegments(out[n]).out
  BY <1>2, <1>3, SegmentsType, ExpandSteps
<1> QED
  BY <1>2, <1>4

LEMMA ExpandOneType ==
    ASSUME NEW m \in Given, HasServerToolResult(m)
    PROVE  ExpandAssistantMessage(m) \in Seq(Parted)
<1>1. PICK n \in Nat : \E out \in [0..n -> SegmentStates] : ExpandAssistantMessage(m) = FlushSegments(out[n]).out
  BY ExpandOut
<1> QED
  BY <1>1, FlushType

LEMMA WholeType ==
    ASSUME NEW m \in Given, ~HasServerToolResult(m)
    PROVE  <<m>> \in Seq(Parted)
<1>1. m \in Messages /\ \A j \in DOMAIN m.blocks : m.blocks[j] \in ContentBlocks
  BY BlockOf DEF Given
<1>2. ASSUME HasResult(m) PROVE m.role = "user"
  <2>1. m.role # "developer"
    BY <1>2 DEF Given
  <2>2. m.role # "assistant"
    BY <1>1, <1>2, KindFacts DEF Given, HasResult, HasServerToolResult, IsServerToolResult
  <2> QED
    BY <1>1, <2>1, <2>2 DEF Messages
<1> QED
  BY <1>1, <1>2 DEF Parted

LEMMA ExpandType ==
    ASSUME NEW ms \in Seq(Given)
    PROVE  ExpandServerToolResults(ms) \in Seq(Parted)
<1> DEFINE each == [i \in DOMAIN ms |->
                      IF HasServerToolResult(ms[i]) THEN ExpandAssistantMessage(ms[i]) ELSE <<ms[i]>>]
<1>1. each \in Seq(Seq(Parted))
  <2>1. PICK n \in Nat : DOMAIN ms = 1..n /\ \A i \in 1..n : ms[i] \in Given
    BY LenProperties, ElementOfSeq
  <2>2. \A i \in 1..n : each[i] \in Seq(Parted)
    BY <2>1, ExpandOneType, WholeType
  <2> QED
    BY <2>1, <2>2
<1>2. ExpandServerToolResults(ms) = FlattenSeq(each)
  BY DEF ExpandServerToolResults
<1> QED
  BY <1>1, <1>2, FlattenType

\* Every result is one of a call in the message before it; and where there are
\* no tools, there is neither.
Attached(ms) == \A i \in DOMAIN ms : ResultsOf(ms[i]) \subseteq CallsBefore(ms, i)
Toolless(ms) == \A i \in DOMAIN ms : CallsOf(ms[i]) = {} /\ ResultsOf(ms[i]) = {}

LEMMA MapBlocksFacts ==
    ASSUME NEW m \in Messages, NEW f \in [DOMAIN m.blocks -> ContentBlocks]
    PROVE  LET t == [m EXCEPT !.blocks = [j \in DOMAIN m.blocks |-> f[j]]]
           IN t \in Messages /\ t.role = m.role /\ DOMAIN t.blocks = DOMAIN m.blocks
              /\ \A j \in DOMAIN m.blocks : t.blocks[j] = f[j]
<1>1. PICK n \in Nat : DOMAIN m.blocks = 1..n
  BY BlockOf, LenProperties
<1>2. [j \in DOMAIN m.blocks |-> f[j]] \in Seq(ContentBlocks)
  <2>1. [j \in 1..n |-> f[j]] \in [1..n -> ContentBlocks]
    BY <1>1
  <2> QED
    BY <1>1, <2>1
<1> DEFINE blocks == [j \in DOMAIN m.blocks |-> f[j]]
<1>3. blocks \in Seq(ContentBlocks) /\ DOMAIN blocks = DOMAIN m.blocks /\ \A j \in DOMAIN m.blocks : blocks[j] = f[j]
  BY <1>2
<1> HIDE DEF blocks
<1>4. LET t == [m EXCEPT !.blocks = blocks]
      IN t \in Messages /\ t.role = m.role /\ t.blocks = blocks
  BY <1>3 DEF Messages
<1> QED
  BY <1>3, <1>4 DEF blocks

LEMMA OrphansFacts ==
    ASSUME NEW ms \in Seq(Parted)
    PROVE  LET t == TextualizeOrphanToolResults(ms)
           IN /\ t \in Seq(Parted) /\ DOMAIN t = DOMAIN ms /\ Attached(t)
              /\ \A i \in DOMAIN ms :
                    /\ t[i].role = ms[i].role
                    /\ DOMAIN t[i].blocks = DOMAIN ms[i].blocks
                    /\ \A j \in DOMAIN ms[i].blocks :
                          \/ t[i].blocks[j] = ms[i].blocks[j]
                          \/ /\ IsToolResult(ms[i].blocks[j]) /\ ms[i].blocks[j].id \notin CallsBefore(ms, i)
                             /\ t[i].blocks[j] = AsText(ms[i].blocks[j])
<1> DEFINE t == TextualizeOrphanToolResults(ms)
           Op(i, b) == IF IsToolResult(b) /\ b.id \notin CallsBefore(ms, i) THEN AsText(b) ELSE b
<1>1. PICK n \in Nat : DOMAIN ms = 1..n /\ n = Len(ms) /\ \A i \in 1..n : ms[i] \in Parted
  BY LenProperties, ElementOfSeq
<1>2. \A i \in 1..n : ms[i] \in Messages /\ (HasResult(ms[i]) => ms[i].role = "user")
  BY <1>1 DEF Parted
<1>3. DOMAIN t = 1..n /\ \A i \in 1..n : t[i] =
        IF ms[i].role = "user"
        THEN [ms[i] EXCEPT !.blocks = [j \in DOMAIN ms[i].blocks |-> Op(i, ms[i].blocks[j])]] ELSE ms[i]
  BY <1>1 DEF TextualizeOrphanToolResults, MapBlocks
<1>4. ASSUME NEW i \in 1..n
      PROVE  /\ t[i] \in Messages /\ t[i].role = ms[i].role /\ DOMAIN t[i].blocks = DOMAIN ms[i].blocks
             /\ ms[i].role = "user" => \A j \in DOMAIN ms[i].blocks : t[i].blocks[j] = Op(i, ms[i].blocks[j])
             /\ ms[i].role # "user" => t[i] = ms[i]
  <2>1. CASE ms[i].role = "user"
    <3> DEFINE f == [j \in DOMAIN ms[i].blocks |-> Op(i, ms[i].blocks[j])]
    <3>1. f \in [DOMAIN ms[i].blocks -> ContentBlocks]
      BY <1>2, BlockOf, KindFacts
    <3>2. \A j \in DOMAIN ms[i].blocks : f[j] = Op(i, ms[i].blocks[j])
      OBVIOUS
    <3>3. t[i] = [ms[i] EXCEPT !.blocks = [j \in DOMAIN ms[i].blocks |-> f[j]]]
      BY <2>1, <1>3
    <3> HIDE DEF f, Op, t
    <3>4. ms[i] \in Messages
      BY <1>2
    <3> QED
      BY <2>1, <3>1, <3>2, <3>3, <3>4, MapBlocksFacts
  <2>2. CASE ms[i].role # "user"
    BY <2>2, <1>2, <1>3
  <2> QED
    BY <2>1, <2>2
<1> HIDE DEF t
<1>5. ASSUME NEW i \in 1..n, NEW j \in DOMAIN ms[i].blocks
      PROVE  \/ t[i].blocks[j] = ms[i].blocks[j] /\ (IsToolResult(ms[i].blocks[j]) => ms[i].blocks[j].id \in CallsBefore(ms, i))
             \/ /\ IsToolResult(ms[i].blocks[j]) /\ ms[i].blocks[j].id \notin CallsBefore(ms, i)
                /\ t[i].blocks[j] = AsText(ms[i].blocks[j])
  <2>1. CASE ms[i].role = "user"
    BY <2>1, <1>4
  <2>2. CASE ms[i].role # "user"
    <3>1. ~IsToolResult(ms[i].blocks[j]) /\ t[i] = ms[i]
      BY <2>2, <1>2, <1>4 DEF HasResult
    <3> QED
      BY <3>1
  <2> QED
    BY <2>1, <2>2
<1> HIDE DEF Op
<1>6. \A i \in 1..n : CallsBefore(t, i) = CallsBefore(ms, i)
  <2>1. \A i \in 1..n : i > 1 => i - 1 \in 1..n
    OBVIOUS
  <2> QED
    BY <1>4, <2>1 DEF CallsBefore
<1>7. ASSUME NEW i \in 1..n PROVE ResultsOf(t[i]) \subseteq CallsBefore(t, i) /\ t[i] \in Parted
  <2>1. ASSUME NEW j \in DOMAIN t[i].blocks, IsToolResult(t[i].blocks[j])
        PROVE  /\ t[i].blocks[j].id \in CallsBefore(ms, i)
               /\ IsToolResult(ms[i].blocks[j]) /\ j \in DOMAIN ms[i].blocks
    <3>1. j \in DOMAIN ms[i].blocks /\ ms[i].blocks[j] \in ContentBlocks
      BY <1>2, <1>4, BlockOf
    <3>2. ~IsToolResult(AsText(ms[i].blocks[j]))
      BY <3>1, KindFacts
    <3> QED
      BY <2>1, <3>1, <3>2, <1>5
  <2>2. ResultsOf(t[i]) \subseteq CallsBefore(t, i)
    BY <2>1, <1>6 DEF ResultsOf
  <2>3. HasResult(t[i]) => t[i].role = "user"
    BY <2>1, <1>2, <1>4 DEF HasResult
  <2> QED
    BY <2>2, <2>3, <1>4 DEF Parted
<1>8. t \in Seq(Parted)
  <2>1. t = [i \in 1..n |-> t[i]]
    BY <1>3 DEF t, TextualizeOrphanToolResults
  <2> QED
    BY <2>1, <1>7
<1>9. Attached(t)
  BY <1>3, <1>7 DEF Attached
<1>10. \A i \in DOMAIN ms :
          /\ t[i].role = ms[i].role
          /\ DOMAIN t[i].blocks = DOMAIN ms[i].blocks
          /\ \A j \in DOMAIN ms[i].blocks :
                \/ t[i].blocks[j] = ms[i].blocks[j]
                \/ /\ IsToolResult(ms[i].blocks[j]) /\ ms[i].blocks[j].id \notin CallsBefore(ms, i)
                   /\ t[i].blocks[j] = AsText(ms[i].blocks[j])
  BY <1>1, <1>4, <1>5
<1> QED
  BY <1>1, <1>3, <1>8, <1>9, <1>10 DEF t

LEMMA ToollessFacts ==
    ASSUME NEW ms \in Seq(Parted)
    PROVE  TextualizeAll(ms) \in Seq(Parted) /\ Toolless(TextualizeAll(ms))
<1> DEFINE t == TextualizeAll(ms)
           Op(b) == IF IsToolUse(b) \/ IsToolResult(b) THEN AsText(b) ELSE b
<1>1. PICK n \in Nat : DOMAIN ms = 1..n /\ n = Len(ms) /\ \A i \in 1..n : ms[i] \in Messages
  BY LenProperties, ElementOfSeq DEF Parted
<1>2. DOMAIN t = 1..n /\ \A i \in 1..n : t[i] = [ms[i] EXCEPT !.blocks = [j \in DOMAIN ms[i].blocks |-> Op(ms[i].blocks[j])]]
  BY <1>1 DEF TextualizeAll, MapBlocks
<1>3. ASSUME NEW i \in 1..n
      PROVE  t[i] \in Messages /\ \A j \in DOMAIN t[i].blocks : ~IsToolUse(t[i].blocks[j]) /\ ~IsToolResult(t[i].blocks[j])
  <2> DEFINE f == [j \in DOMAIN ms[i].blocks |-> Op(ms[i].blocks[j])]
  <2>1. f \in [DOMAIN ms[i].blocks -> ContentBlocks] /\ \A j \in DOMAIN ms[i].blocks : ~IsToolUse(f[j]) /\ ~IsToolResult(f[j])
    BY <1>1, BlockOf, KindFacts
  <2>2. t[i] = [ms[i] EXCEPT !.blocks = [j \in DOMAIN ms[i].blocks |-> f[j]]]
    BY <1>2
  <2> HIDE DEF f, t
  <2> QED
    BY <1>1, <2>1, <2>2, MapBlocksFacts
<1> HIDE DEF Op
<1>4. \A i \in 1..n : t[i] \in Parted /\ CallsOf(t[i]) = {} /\ ResultsOf(t[i]) = {}
  <2> HIDE DEF t
  <2> QED
    BY <1>3 DEF Parted, HasResult, CallsOf, ResultsOf
<1>5. t \in Seq(Parted)
  <2>1. t = [i \in 1..n |-> t[i]]
    BY <1>2 DEF TextualizeAll
  <2> HIDE DEF t
  <2> QED
    BY <2>1, <1>4
<1> QED
  BY <1>2, <1>4, <1>5 DEF Toolless

\* From here on the roles are two.
InRole == {m \in Parted : m.role \in {"user", "assistant"}}

LEMMA RolesFacts ==
    ASSUME NEW ms \in Seq(Parted)
    PROVE  LET t == NormalizeRoles(ms)
           IN /\ t \in Seq(InRole) /\ DOMAIN t = DOMAIN ms
              /\ \A i \in DOMAIN ms : t[i].blocks = ms[i].blocks /\ (t[i].role = "assistant" <=> ms[i].role = "assistant")
              /\ Attached(ms) => Attached(t)
              /\ Toolless(ms) => Toolless(t)
<1> DEFINE t == NormalizeRoles(ms)
<1>1. PICK n \in Nat : DOMAIN ms = 1..n /\ n = Len(ms) /\ \A i \in 1..n : ms[i] \in Parted
  BY LenProperties, ElementOfSeq
<1>2. DOMAIN t = 1..n /\ \A i \in 1..n : t[i] = [ms[i] EXCEPT !.role = IF @ = "assistant" THEN @ ELSE "user"]
  BY <1>1 DEF NormalizeRoles
<1>3. t = [i \in 1..n |-> t[i]]
  BY <1>2 DEF NormalizeRoles
<1> HIDE DEF t
<1>4. \A i \in 1..n : /\ t[i] \in Messages /\ t[i].role \in {"user", "assistant"}
                      /\ t[i].blocks = ms[i].blocks /\ (t[i].role = "assistant" <=> ms[i].role = "assistant")
  BY <1>1, <1>2 DEF Parted, Messages
<1>5. \A i \in 1..n : t[i] \in InRole
  BY <1>1, <1>4 DEF InRole, Parted, HasResult
<1>6. t \in Seq(InRole)
  BY <1>3, <1>5
<1>7. \A i \in 1..n : CallsOf(t[i]) = CallsOf(ms[i]) /\ ResultsOf(t[i]) = ResultsOf(ms[i]) /\ CallsBefore(t, i) = CallsBefore(ms, i)
  <2>1. \A i \in 1..n : i > 1 => i - 1 \in 1..n
    OBVIOUS
  <2> QED
    BY <1>4, <2>1 DEF CallsOf, ResultsOf, CallsBefore, ToolUseIds
<1> QED
  BY <1>1, <1>2, <1>4, <1>6, <1>7 DEF Attached, Toolless, t

-----------------------------------------------------------------------------
(***************************************************************************)
(* Merging, the message in front and the messages in between touch nothing *)
(* but messages that are text alone.  Every other message is still there,  *)
(* in its place: at[i] is where the i-th message of S has gone, for the    *)
(* first n of them.                                                        *)
(***************************************************************************)
Carried(S, n, T, at) ==
    /\ at \in [1..n -> 1..Len(T)]
    /\ \A i \in 1..n : /\ T[at[i]].role = S[i].role
                       /\ IF IsPlainText(S[i]) THEN IsPlainText(T[at[i]]) ELSE T[at[i]] = S[i]
    /\ \A k \in 1..Len(T) : IsPlainText(T[k]) \/ \E i \in 1..n : at[i] = k /\ ~IsPlainText(S[i])
    /\ \A i, j \in 1..n : i < j => /\ at[i] <= at[j]
                                   /\ ~IsPlainText(S[i]) \/ ~IsPlainText(S[j]) => at[i] < at[j]
    /\ \A i \in 1..(n - 1) : S[i].role # S[i + 1].role => at[i + 1] = at[i] + 1
    /\ n > 0 => at[n] = Len(T)
    /\ n = 0 => T = <<>>

LEMMA CarriedNone == ASSUME NEW S PROVE \E at : Carried(S, 0, <<>>, at)
<1> DEFINE at == [i \in 1..0 |-> 1]
<1>1. at \in [1..0 -> 1..Len(<<>>)]
  OBVIOUS
<1>2. 1..0 = {} /\ 1..Len(<<>>) = {} /\ 1..(0 - 1) = {}
  OBVIOUS
<1> HIDE DEF at
<1>3. Carried(S, 0, <<>>, at)
  BY <1>1, <1>2 DEF Carried
<1> QED
  BY <1>3

\* One more message behind what there is, and if need be text before it.
Grows(T, U, m) ==
    /\ Len(U) \in Nat /\ Len(U) > Len(T) /\ U[Len(U)] = m
    /\ \A k \in 1..Len(T) : U[k] = T[k]
    /\ \A k \in (Len(T) + 1)..(Len(U) - 1) : IsPlainText(U[k])

LEMMA CarriedGrows ==
    ASSUME NEW S, NEW n \in Nat, NEW T, Len(T) \in Nat, NEW at, Carried(S, n, T, at),
           NEW U, Grows(T, U, S[n + 1]),
           n > 0 /\ S[n].role # S[n + 1].role => Len(U) = Len(T) + 1
    PROVE  \E by : Carried(S, n + 1, U, by)
<1> DEFINE by == [i \in 1..(n + 1) |-> IF i = n + 1 THEN Len(U) ELSE at[i]]
<1>0. at \in [1..n -> 1..Len(T)] /\ Len(U) \in Nat /\ Len(U) > Len(T)
  BY DEF Carried, Grows
<1>1. \A i \in 1..n : by[i] = at[i] /\ at[i] \in 1..Len(T) /\ at[i] \in 1..Len(U)
  BY <1>0
<1>2. by[n + 1] = Len(U) /\ by \in [1..(n + 1) -> 1..Len(U)]
  BY <1>0, <1>1
<1> HIDE DEF by
<1>3. \A i \in 1..(n + 1) : i \in 1..n \/ i = n + 1
  OBVIOUS
<1>4. U[Len(U)] = S[n + 1] /\ \A i \in 1..n : U[by[i]] = T[at[i]]
  BY <1>1 DEF Grows
<1>5. ASSUME NEW i \in 1..(n + 1)
      PROVE  /\ U[by[i]].role = S[i].role
             /\ IF IsPlainText(S[i]) THEN IsPlainText(U[by[i]]) ELSE U[by[i]] = S[i]
  <2>1. CASE i = n + 1
    BY <2>1, <1>2, <1>4
  <2>2. CASE i \in 1..n
    BY <2>2, <1>4 DEF Carried
  <2> QED
    BY <1>3, <2>1, <2>2
<1>6. ASSUME NEW k \in 1..Len(U)
      PROVE  IsPlainText(U[k]) \/ \E i \in 1..(n + 1) : by[i] = k /\ ~IsPlainText(S[i])
  <2>1. CASE k \in 1..Len(T)
    <3>1. U[k] = T[k]
      BY <2>1 DEF Grows
    <3>2. IsPlainText(T[k]) \/ \E i \in 1..n : at[i] = k /\ ~IsPlainText(S[i])
      BY <2>1 DEF Carried
    <3>3. \A i \in 1..n : i \in 1..(n + 1) /\ by[i] = at[i]
      BY <1>1
    <3> QED
      BY <3>1, <3>2, <3>3
  <2>2. CASE k = Len(U)
    <3>1. n + 1 \in 1..(n + 1)
      OBVIOUS
    <3> QED
      BY <2>2, <3>1, <1>2, <1>4
  <2>3. CASE k \in (Len(T) + 1)..(Len(U) - 1)
    BY <2>3 DEF Grows
  <2>4. k \in 1..Len(T) \/ k = Len(U) \/ k \in (Len(T) + 1)..(Len(U) - 1)
    BY <1>0
  <2> QED
    BY <2>1, <2>2, <2>3, <2>4
<1>7. ASSUME NEW i \in 1..(n + 1), NEW j \in 1..(n + 1), i < j
      PROVE  by[i] <= by[j] /\ (~IsPlainText(S[i]) \/ ~IsPlainText(S[j]) => by[i] < by[j])
  <2>1. CASE j = n + 1
    <3>1. i \in 1..n
      BY <2>1, <1>7
    <3>2. by[i] \in 1..Len(T) /\ by[j] = Len(U)
      BY <3>1, <2>1, <1>1, <1>2
    <3> QED
      BY <3>2, <1>0
  <2>2. CASE j \in 1..n
    <3>1. i \in 1..n
      BY <2>2, <1>7
    <3> QED
      BY <2>2, <3>1, <1>1, <1>7 DEF Carried
  <2> QED
    BY <1>3, <2>1, <2>2
<1>8. ASSUME NEW i \in 1..((n + 1) - 1), S[i].role # S[i + 1].role
      PROVE  by[i + 1] = by[i] + 1
  <2>1. CASE i = n
    <3>1. n > 0 /\ n \in 1..n
      BY <2>1
    <3>2. at[n] = Len(T) /\ by[n] = at[n]
      BY <3>1, <1>1 DEF Carried
    <3> QED
      BY <1>8, <2>1, <3>1, <3>2, <1>2
  <2>2. CASE i # n
    <3>1. i \in 1..(n - 1) /\ i \in 1..n /\ i + 1 \in 1..n
      BY <2>2
    <3> QED
      BY <1>8, <3>1, <1>1 DEF Carried
  <2> QED
    BY <2>1, <2>2
<1>9. n + 1 > 0 /\ n + 1 # 0
  OBVIOUS
<1>10. Carried(S, n + 1, U, by)
  BY <1>2, <1>5, <1>6, <1>7, <1>8, <1>9 DEF Carried
<1> QED
  BY <1>10

LEMMA CarriedTwice ==
    ASSUME NEW S, NEW n \in Nat, NEW T, Len(T) \in Nat, NEW a, Carried(S, n, T, a),
           NEW U, Len(U) \in Nat, NEW b, Carried(T, Len(T), U, b)
    PROVE  \E c : Carried(S, n, U, c)
<1> DEFINE c == [i \in 1..n |-> b[a[i]]]
<1>1. a \in [1..n -> 1..Len(T)] /\ b \in [1..Len(T) -> 1..Len(U)]
  BY DEF Carried
<1>2. c \in [1..n -> 1..Len(U)] /\ \A i \in 1..n : c[i] = b[a[i]] /\ a[i] \in 1..Len(T) /\ c[i] \in 1..Len(U)
  BY <1>1
<1> HIDE DEF c
<1>3. \A i \in 1..n : /\ U[c[i]].role = S[i].role
                      /\ IF IsPlainText(S[i]) THEN IsPlainText(U[c[i]]) ELSE U[c[i]] = S[i]
  <2> DEFINE Kept(y, x) == y.role = x.role /\ IF IsPlainText(x) THEN IsPlainText(y) ELSE y = x
  <2>1. \A i \in 1..n : Kept(T[a[i]], S[i])
    BY DEF Carried
  <2>2. \A j \in 1..Len(T) : Kept(U[b[j]], T[j])
    BY DEF Carried
  <2>3. \A x, y, z : Kept(z, y) /\ Kept(y, x) => Kept(z, x)
    OBVIOUS
  <2> HIDE DEF Kept
  <2>4. \A i \in 1..n : Kept(U[c[i]], S[i])
    BY <1>2, <2>1, <2>2, <2>3
  <2> QED
    BY <2>4 DEF Kept
<1>4. ASSUME NEW k \in 1..Len(U), ~IsPlainText(U[k])
      PROVE  \E i \in 1..n : c[i] = k /\ ~IsPlainText(S[i])
  <2>1. PICK j \in 1..Len(T) : b[j] = k /\ ~IsPlainText(T[j])
    BY <1>4 DEF Carried
  <2>2. PICK i \in 1..n : a[i] = j /\ ~IsPlainText(S[i])
    BY <2>1 DEF Carried
  <2> QED
    BY <2>1, <2>2, <1>2
<1>5. ASSUME NEW i \in 1..n, NEW j \in 1..n, i < j
      PROVE  c[i] <= c[j] /\ (~IsPlainText(S[i]) \/ ~IsPlainText(S[j]) => c[i] < c[j])
  <2>1. a[i] \in 1..Len(T) /\ a[j] \in 1..Len(T) /\ a[i] <= a[j]
    BY <1>5, <1>2 DEF Carried
  <2>2. CASE a[i] = a[j]
    <3>1. IsPlainText(S[i]) /\ IsPlainText(S[j])
      BY <2>2, <2>1, <1>5 DEF Carried
    <3>2. c[i] = c[j] /\ c[j] \in 1..Len(U)
      BY <1>2, <2>2
    <3> QED
      BY <3>1, <3>2
  <2>3. CASE a[i] < a[j]
    <3>1. b[a[i]] <= b[a[j]] /\ (~IsPlainText(T[a[i]]) \/ ~IsPlainText(T[a[j]]) => b[a[i]] < b[a[j]])
      BY <2>1, <2>3 DEF Carried
    <3>2. (~IsPlainText(S[i]) => ~IsPlainText(T[a[i]])) /\ (~IsPlainText(S[j]) => ~IsPlainText(T[a[j]]))
      BY DEF Carried
    <3> QED
      BY <3>1, <3>2, <1>2
  <2> QED
    BY <2>1, <2>2, <2>3
<1>6. ASSUME NEW i \in 1..(n - 1), S[i].role # S[i + 1].role
      PROVE  c[i + 1] = c[i] + 1
  <2>1. i \in 1..n /\ i + 1 \in 1..n
    OBVIOUS
  <2>2. a[i + 1] = a[i] + 1 /\ a[i] \in 1..Len(T) /\ a[i + 1] \in 1..Len(T)
    BY <1>6, <2>1, <1>2 DEF Carried
  <2>3. T[a[i]].role = S[i].role /\ T[a[i + 1]].role = S[i + 1].role
    BY <2>1 DEF Carried
  <2>4. a[i] \in 1..(Len(T) - 1)
    BY <2>2
  <2>5. b[a[i] + 1] = b[a[i]] + 1
    BY <1>6, <2>2, <2>3, <2>4 DEF Carried
  <2> QED
    BY <2>1, <2>2, <2>5, <1>2
<1>7. n > 0 => c[n] = Len(U)
  <2>1. SUFFICES ASSUME n > 0 PROVE c[n] = Len(U)
    OBVIOUS
  <2>2. n \in 1..n /\ a[n] = Len(T)
    BY <2>1 DEF Carried
  <2>3. Len(T) > 0
    BY <2>2, <1>1
  <2> QED
    BY <2>2, <2>3, <1>2 DEF Carried
<1>8. n = 0 => U = <<>>
  <2>1. n = 0 => Len(T) = 0
    BY DEF Carried
  <2> QED
    BY <2>1 DEF Carried
<1>9. Carried(S, n, U, c)
  <2>1. \A k \in 1..Len(U) : IsPlainText(U[k]) \/ \E i \in 1..n : c[i] = k /\ ~IsPlainText(S[i])
    BY <1>4
  <2> QED
    BY <2>1, <1>2, <1>3, <1>5, <1>6, <1>7, <1>8 DEF Carried
<1> QED
  BY <1>9

LEMMA PlainFacts ==
    ASSUME NEW m \in Messages, IsPlainText(m)
    PROVE  ~HasResult(m) /\ CallsOf(m) = {} /\ ResultsOf(m) = {}
<1>1. \A j \in DOMAIN m.blocks : ~IsToolUse(m.blocks[j]) /\ ~IsToolResult(m.blocks[j])
  BY BlockOf, KindFacts DEF IsPlainText
<1> QED
  BY <1>1 DEF HasResult, CallsOf, ResultsOf

LEMMA PlaceholderFacts ==
    ASSUME NEW role \in {"user", "assistant"}
    PROVE  Placeholder(role) \in InRole /\ IsPlainText(Placeholder(role)) /\ Placeholder(role).role = role
<1>1. Synthetic(Empty) \in ContentBlocks /\ IsText(Synthetic(Empty))
  <2>1. <<>> \in Seq(Nat)
    OBVIOUS
  <2> QED
    BY <2>1 DEF Synthetic, Empty, Block, ContentBlocks, Kinds, IsText
<1>2. <<Synthetic(Empty)>> \in Seq(ContentBlocks) /\ DOMAIN <<Synthetic(Empty)>> = {1}
  BY <1>1
<1>3. Placeholder(role) \in Messages /\ Placeholder(role).role = role /\ Placeholder(role).blocks = <<Synthetic(Empty)>>
  BY <1>2 DEF Placeholder, Message, Messages
<1>4. IsPlainText(Placeholder(role))
  BY <1>1, <1>2, <1>3 DEF IsPlainText
<1> QED
  BY <1>3, <1>4, PlainFacts DEF InRole, Parted

LEMMA LastIs ==
    ASSUME NEW S, NEW s \in Seq(S), s # <<>>
    PROVE  /\ Len(s) \in Nat /\ Len(s) > 0 /\ Last(s) = s[Len(s)] /\ Last(s) \in S
           /\ Front(s) \in Seq(S) /\ Len(Front(s)) = Len(s) - 1
           /\ \A i \in 1..(Len(s) - 1) : Front(s)[i] = s[i]
<1>1. Len(s) \in Nat /\ Len(s) # 0 /\ DOMAIN s = 1..Len(s)
  BY LenProperties, EmptySeq
<1>2. Len(s) \in DOMAIN s
  BY <1>1
<1>3. Last(s) = s[Len(s)] /\ Last(s) \in S
  BY <1>2, ElementOfSeq, <1>1 DEF Last
<1>4. 1 \in 1..(Len(s) + 1) /\ Len(s) - 1 \in (1 - 1)..Len(s)
  BY <1>1
<1>5. Front(s) \in Seq(S) /\ Len(Front(s)) = Len(s) - 1 /\ \A i \in 1..(Len(s) - 1) : Front(s)[i] = s[i]
  BY <1>1, <1>4, SubSeqProperties DEF Front
<1> QED
  BY <1>1, <1>3, <1>5

LEMMA MergedType ==
    ASSUME NEW m \in InRole, NEW n \in InRole, Mergeable(m, n)
    PROVE  LET both == [n EXCEPT !.blocks = m.blocks \o n.blocks]
           IN both \in InRole /\ both.role = n.role /\ IsPlainText(both)
<1> DEFINE blocks == m.blocks \o n.blocks
<1>1. m.blocks \in Seq(ContentBlocks) /\ n.blocks \in Seq(ContentBlocks) /\ n \in Messages
  BY DEF InRole, Parted, Messages
<1>2. blocks \in Seq(ContentBlocks) /\ Len(blocks) = Len(m.blocks) + Len(n.blocks)
      /\ \A i \in 1..(Len(m.blocks) + Len(n.blocks)) :
            blocks[i] = IF i <= Len(m.blocks) THEN m.blocks[i] ELSE n.blocks[i - Len(m.blocks)]
  BY <1>1, ConcatProperties
<1>3. \A i \in DOMAIN blocks : IsText(blocks[i])
  <2> HIDE DEF blocks
  <2>1. Len(m.blocks) \in Nat /\ Len(n.blocks) \in Nat /\ DOMAIN m.blocks = 1..Len(m.blocks) /\ DOMAIN n.blocks = 1..Len(n.blocks)
        /\ DOMAIN blocks = 1..(Len(m.blocks) + Len(n.blocks))
    BY <1>1, <1>2, LenProperties
  <2>2. ASSUME NEW i \in DOMAIN blocks PROVE IsText(blocks[i])
    <3>0. i \in 1..(Len(m.blocks) + Len(n.blocks))
      BY <2>1
    <3>1. CASE i <= Len(m.blocks)
      <4>1. i \in DOMAIN m.blocks /\ blocks[i] = m.blocks[i]
        <5>1. i \in 1..Len(m.blocks)
          BY <2>1, <3>0, <3>1
        <5>2. blocks[i] = m.blocks[i]
          BY <3>0, <3>1, <1>2
        <5> QED
          BY <2>1, <5>1, <5>2
      <4> QED
        BY <4>1 DEF Mergeable, IsPlainText
    <3>2. CASE ~(i <= Len(m.blocks))
      <4>1. i - Len(m.blocks) \in DOMAIN n.blocks /\ blocks[i] = n.blocks[i - Len(m.blocks)]
        <5>1. i - Len(m.blocks) \in 1..Len(n.blocks)
          <6>1. \A c, d \in Nat : \A k \in 1..(c + d) : ~(k <= c) => k - c \in 1..d
            OBVIOUS
          <6> QED
            BY <2>1, <3>0, <3>2, <6>1
        <5>2. blocks[i] = n.blocks[i - Len(m.blocks)]
          BY <3>0, <3>2, <1>2
        <5> QED
          BY <2>1, <5>1, <5>2
      <4> QED
        BY <4>1 DEF Mergeable, IsPlainText
    <3> QED
      BY <3>1, <3>2
  <2> QED
    BY <2>2
<1> DEFINE both == [n EXCEPT !.blocks = blocks]
<1> HIDE DEF blocks
<1>4. both \in Messages /\ both.role = n.role /\ both.blocks = blocks
  BY <1>1, <1>2 DEF Messages
<1>5. IsPlainText(both)
  BY <1>3, <1>4 DEF IsPlainText
<1>6. both \in InRole
  <2> HIDE DEF both
  <2> QED
    BY <1>4, <1>5, PlainFacts DEF InRole, Parted
<1> QED
  BY <1>4, <1>5, <1>6 DEF blocks

LEMMA AppendGrows ==
    ASSUME NEW S, NEW T \in Seq(S), NEW m \in S
    PROVE  Append(T, m) \in Seq(S) /\ Grows(T, Append(T, m), m) /\ Len(Append(T, m)) = Len(T) + 1
<1>1. Len(T) \in Nat
  BY LenProperties
<1>2. Append(T, m) \in Seq(S) /\ Len(Append(T, m)) = Len(T) + 1 /\ Append(T, m)[Len(T) + 1] = m
      /\ \A i \in 1..Len(T) : Append(T, m)[i] = T[i]
  BY AppendProperties
<1> QED
  BY <1>1, <1>2 DEF Grows

\* One step of the merging.
LEMMA MergeKeeps ==
    ASSUME NEW S \in Seq(InRole), NEW n \in Nat, n + 1 <= Len(S),
           NEW T \in Seq(InRole), NEW at, Carried(S, n, T, at)
    PROVE  /\ AddMerged(T, S[n + 1]) \in Seq(InRole)
           /\ \E by : Carried(S, n + 1, AddMerged(T, S[n + 1]), by)
<1> DEFINE m == S[n + 1]
<1>0. m \in InRole /\ Len(T) \in Nat /\ Len(S) \in Nat /\ n + 1 \in DOMAIN S
  <2>1. Len(S) \in Nat /\ n + 1 \in 1..Len(S) /\ DOMAIN S = 1..Len(S) /\ Len(T) \in Nat
    BY LenProperties
  <2> QED
    BY <2>1, ElementOfSeq
<1>1. CASE T # <<>> /\ Mergeable(Last(T), m)
  <2> DEFINE both == [m EXCEPT !.blocks = Last(T).blocks \o m.blocks]
             U    == Append(Front(T), both)
  <2>1. Last(T) \in InRole /\ Last(T) = T[Len(T)] /\ Len(T) > 0 /\ Front(T) \in Seq(InRole) /\ Len(Front(T)) = Len(T) - 1
        /\ \A i \in 1..(Len(T) - 1) : Front(T)[i] = T[i]
    BY <1>1, LastIs
  <2>2. both \in InRole /\ both.role = m.role /\ IsPlainText(both)
    BY <1>0, <1>1, <2>1, MergedType
  <2>3. AddMerged(T, m) = U
    BY <1>1 DEF AddMerged
  <2> HIDE DEF both, m
  <2>4. U \in Seq(InRole) /\ Len(U) = Len(T) /\ U[Len(T)] = both /\ \A i \in 1..(Len(T) - 1) : U[i] = T[i]
    <3>1. Len(Front(T)) + 1 = Len(T)
      BY <1>0, <2>1
    <3> QED
      BY <2>1, <2>2, <3>1, AppendProperties
  <2> HIDE DEF U
  <2>5. m.role = Last(T).role /\ IsPlainText(m) /\ IsPlainText(Last(T))
    BY <1>1 DEF Mergeable
  <2> DEFINE by == [i \in 1..(n + 1) |-> IF i = n + 1 THEN Len(T) ELSE at[i]]
  <2>6. n > 0 /\ at \in [1..n -> 1..Len(T)] /\ at[n] = Len(T)
    BY <1>1 DEF Carried
  <2>7. /\ by \in [1..(n + 1) -> 1..Len(U)] /\ by[n + 1] = Len(T)
        /\ \A i \in 1..n : by[i] = at[i] /\ at[i] \in 1..Len(T)
    BY <1>0, <2>1, <2>4, <2>6
  <2> HIDE DEF by
  <2>8. \A i \in 1..(n + 1) : i \in 1..n \/ i = n + 1
    OBVIOUS
  <2>9. \A i \in 1..n : U[at[i]].role = T[at[i]].role /\ (IsPlainText(T[at[i]]) => IsPlainText(U[at[i]]))
                        /\ (~IsPlainText(T[at[i]]) => U[at[i]] = T[at[i]])
    <3>1. \A k \in 1..Len(T) : k = Len(T) \/ k \in 1..(Len(T) - 1)
      BY <1>0
    <3> QED
      BY <2>1, <2>2, <2>4, <2>5, <2>7, <3>1
  <2>10. ASSUME NEW i \in 1..(n + 1)
         PROVE  /\ U[by[i]].role = S[i].role
                /\ IF IsPlainText(S[i]) THEN IsPlainText(U[by[i]]) ELSE U[by[i]] = S[i]
    <3>1. CASE i = n + 1
      BY <3>1, <2>2, <2>4, <2>5, <2>7 DEF m
    <3>2. CASE i \in 1..n
      <4>1. T[at[i]].role = S[i].role /\ IF IsPlainText(S[i]) THEN IsPlainText(T[at[i]]) ELSE T[at[i]] = S[i]
        BY <3>2 DEF Carried
      <4> QED
        BY <3>2, <4>1, <2>7, <2>9
    <3> QED
      BY <2>8, <3>1, <3>2
  <2>11. ASSUME NEW k \in 1..Len(U)
         PROVE  IsPlainText(U[k]) \/ \E i \in 1..(n + 1) : by[i] = k /\ ~IsPlainText(S[i])
    <3>1. CASE k = Len(T)
      BY <3>1, <2>2, <2>4
    <3>2. CASE k # Len(T)
      <4>1. U[k] = T[k] /\ k \in 1..Len(T)
        BY <3>2, <2>4, <1>0
      <4>2. IsPlainText(T[k]) \/ \E i \in 1..n : at[i] = k /\ ~IsPlainText(S[i])
        BY <4>1 DEF Carried
      <4>3. \A i \in 1..n : i \in 1..(n + 1) /\ by[i] = at[i]
        BY <2>7
      <4> QED
        BY <4>1, <4>2, <4>3
    <3> QED
      BY <3>1, <3>2
  <2>12. IsPlainText(S[n]) /\ S[n].role = m.role
    <3>1. n \in 1..n
      BY <2>6
    <3>2. T[Len(T)].role = S[n].role /\ (~IsPlainText(S[n]) => T[Len(T)] = S[n])
      BY <3>1, <2>6 DEF Carried
    <3> QED
      BY <3>2, <2>1, <2>5
  <2>13. ASSUME NEW i \in 1..(n + 1), NEW j \in 1..(n + 1), i < j
         PROVE  by[i] <= by[j] /\ (~IsPlainText(S[i]) \/ ~IsPlainText(S[j]) => by[i] < by[j])
    <3>1. CASE j = n + 1
      <4>1. i \in 1..n /\ by[i] \in 1..Len(T) /\ by[j] = Len(T)
        BY <3>1, <2>7, <2>13
      <4>2. ~IsPlainText(S[i]) => i < n
        BY <4>1, <2>12
      <4>3. ~IsPlainText(S[i]) => at[i] < at[n]
        <5>1. n \in 1..n
          BY <2>6
        <5> QED
          BY <4>1, <4>2, <5>1 DEF Carried
      <4> QED
        BY <3>1, <4>1, <4>3, <2>5, <2>6, <2>7, <1>0 DEF m
    <3>2. CASE j \in 1..n
      <4>1. i \in 1..n
        BY <3>2, <2>13
      <4> QED
        BY <3>2, <4>1, <2>7, <2>13 DEF Carried
    <3> QED
      BY <2>8, <3>1, <3>2
  <2>14. ASSUME NEW i \in 1..((n + 1) - 1), S[i].role # S[i + 1].role
         PROVE  by[i + 1] = by[i] + 1
    <3>1. i # n
      BY <2>12, <2>14 DEF m
    <3>2. i \in 1..(n - 1) /\ i \in 1..n /\ i + 1 \in 1..n
      BY <3>1
    <3> QED
      BY <2>14, <3>2, <2>7 DEF Carried
  <2>15. Carried(S, n + 1, U, by)
    <3>1. n + 1 # 0 /\ n + 1 > 0
      OBVIOUS
    <3> QED
      BY <3>1, <2>4, <2>7, <2>10, <2>11, <2>13, <2>14 DEF Carried
  <2> QED
    BY <2>3, <2>4, <2>15 DEF m
<1>2. CASE ~(T # <<>> /\ Mergeable(Last(T), m))
  <2>1. AddMerged(T, m) = Append(T, m)
    BY <1>2 DEF AddMerged
  <2>2. Append(T, m) \in Seq(InRole) /\ Grows(T, Append(T, m), m) /\ Len(Append(T, m)) = Len(T) + 1
    BY <1>0, AppendGrows
  <2>3. \E by : Carried(S, n + 1, Append(T, m), by)
    BY <1>0, <2>2, CarriedGrows
  <2> QED
    BY <2>1, <2>2, <2>3
<1> QED
  BY <1>1, <1>2

LEMMA AddMergedType ==
    ASSUME NEW T \in Seq(InRole), NEW m \in InRole
    PROVE  AddMerged(T, m) \in Seq(InRole)
<1>1. CASE T # <<>> /\ Mergeable(Last(T), m)
  <2>1. Last(T) \in InRole /\ Front(T) \in Seq(InRole)
    BY <1>1, LastIs
  <2>2. [m EXCEPT !.blocks = Last(T).blocks \o m.blocks] \in InRole
    BY <1>1, <2>1, MergedType
  <2>3. AddMerged(T, m) = Append(Front(T), [m EXCEPT !.blocks = Last(T).blocks \o m.blocks])
    BY <1>1 DEF AddMerged
  <2> QED
    BY <2>1, <2>2, <2>3, AppendProperties
<1>2. CASE ~(T # <<>> /\ Mergeable(Last(T), m))
  <2>1. AddMerged(T, m) = Append(T, m)
    BY <1>2 DEF AddMerged
  <2> QED
    BY <2>1, AppendProperties
<1> QED
  BY <1>1, <1>2

LEMMA MergeCarries ==
    ASSUME NEW ms \in Seq(InRole)
    PROVE  /\ MergeAdjacentSameRole(ms) \in Seq(InRole)
           /\ \E at : Carried(ms, Len(ms), MergeAdjacentSameRole(ms), at)
<1>1. PICK n \in Nat : n = Len(ms) /\ DOMAIN ms = 1..n /\ \A i \in 1..n : ms[i] \in InRole
  BY LenProperties, ElementOfSeq
<1>2. <<>> \in Seq(InRole)
  OBVIOUS
<1>3. MergeCloses(Seq(InRole), ms, n)
  BY <1>1, AddMergedType DEF MergeCloses
<1> DEFINE X == Seq(InRole)
<1>4. PICK out \in [0..n -> Seq(InRole)] :
              /\ out[0] = <<>>
              /\ \A k \in 0..(n - 1) : out[k + 1] = AddMerged(out[k], ms[k + 1])
              /\ MergeAdjacentSameRole(ms) = out[n]
  <2>1. <<>> \in X /\ MergeCloses(X, ms, n)
    BY <1>2, <1>3
  <2>2. \E out \in [0..n -> X] :
              /\ out[0] = <<>>
              /\ \A k \in 0..(n - 1) : out[k + 1] = AddMerged(out[k], ms[k + 1])
              /\ MergeAdjacentSameRole(ms) = out[n]
    <3> HIDE DEF X
    <3> QED
      BY <1>1, <2>1, MergeSteps
  <2> QED
    BY <2>2
<1> DEFINE Done(k) == \E at : Carried(ms, k, out[k], at)
           Right == {k \in Nat : k <= n => Done(k)}
<1>5. 0 \in Right
  BY <1>4, CarriedNone
<1>6. ASSUME NEW k \in Nat, k \in Right PROVE k + 1 \in Right
  <2>1. ASSUME k + 1 <= n PROVE Done(k + 1)
    <3>1. k \in 0..(n - 1) /\ k \in 0..n /\ k + 1 <= Len(ms) /\ k <= n
      BY <2>1, <1>1
    <3>2. out[k] \in Seq(InRole) /\ out[k + 1] = AddMerged(out[k], ms[k + 1])
      BY <3>1, <1>4
    <3>3. PICK at : Carried(ms, k, out[k], at)
      BY <3>1, <1>6
    <3>4. \E by : Carried(ms, k + 1, AddMerged(out[k], ms[k + 1]), by)
      BY <3>1, <3>2, <3>3, MergeKeeps
    <3> QED
      BY <3>2, <3>4
  <2> HIDE DEF Done
  <2> QED
    BY <2>1
<1>7. Done(n)
  <2> HIDE DEF Done
  <2>1. n \in Right
    <3> HIDE DEF Right
    <3> QED
      BY <1>5, <1>6, Induction
  <2> QED
    BY <2>1
<1>8. n \in 0..n
  OBVIOUS
<1> QED
  BY <1>1, <1>4, <1>7, <1>8

\* The message in front.
LEMMA StartCarries ==
    ASSUME NEW ms \in Seq(InRole)
    PROVE  LET t == EnsureStartsWithUser(ms)
           IN /\ t \in Seq(InRole) /\ (t # <<>> => t[1].role = "user")
              /\ \E at : Carried(ms, Len(ms), t, at)
<1>1. PICK n \in Nat : n = Len(ms) /\ DOMAIN ms = 1..n /\ \A i \in 1..n : ms[i] \in InRole
  BY LenProperties, ElementOfSeq
<1>2. CASE ms # <<>> /\ ms[1].role # "user"
  <2> DEFINE t == <<Placeholder("user")>> \o ms
             at == [i \in 1..n |-> i + 1]
  <2>0. n > 0
    BY <1>1, <1>2, EmptySeq
  <2>1. EnsureStartsWithUser(ms) = t
    BY <1>2 DEF EnsureStartsWithUser
  <2> DEFINE p == Placeholder("user")
  <2>2. p \in InRole /\ IsPlainText(p) /\ p.role = "user"
    BY PlaceholderFacts
  <2> HIDE DEF p
  <2>3. <<p>> \in Seq(InRole) /\ Len(<<p>>) = 1 /\ <<p>>[1] = p
    BY <2>2
  <2>4. t \in Seq(InRole) /\ Len(t) = n + 1 /\ t[1] = p /\ \A k \in 1..(n + 1) : k > 1 => t[k] = ms[k - 1]
    <3>1. <<p>> \o ms \in Seq(InRole) /\ Len(<<p>> \o ms) = 1 + n
          /\ \A k \in 1..(1 + n) : (<<p>> \o ms)[k] = IF k <= 1 THEN <<p>>[k] ELSE ms[k - 1]
      BY <1>1, <2>3, ConcatProperties
    <3>2. t = <<p>> \o ms
      BY DEF p
    <3> HIDE DEF t
    <3>3. 1 \in 1..(1 + n) /\ 1..(n + 1) = 1..(1 + n)
      OBVIOUS
    <3> QED
      BY <3>1, <3>2, <3>3, <2>3
  <2> HIDE DEF t
  <2>5. at \in [1..n -> 1..Len(t)] /\ \A i \in 1..n : at[i] = i + 1
    BY <2>4
  <2> HIDE DEF at
  <2>6. \A i \in 1..n : t[at[i]] = ms[i]
    <3>1. ASSUME NEW i \in 1..n PROVE t[at[i]] = ms[i]
      <4>1. i + 1 \in 1..(n + 1) /\ i + 1 > 1 /\ (i + 1) - 1 = i
        OBVIOUS
      <4> QED
        BY <4>1, <2>4, <2>5
    <3> QED
      BY <3>1
  <2>7. ASSUME NEW k \in 1..Len(t)
        PROVE  IsPlainText(t[k]) \/ \E i \in 1..n : at[i] = k /\ ~IsPlainText(ms[i])
    <3>1. CASE k = 1
      BY <3>1, <2>2, <2>4
    <3>2. CASE k # 1
      <4>1. k - 1 \in 1..n /\ (k - 1) + 1 = k /\ k \in 1..(n + 1) /\ k > 1
        BY <3>2, <2>4
      <4>2. at[k - 1] = k /\ t[k] = ms[k - 1]
        BY <4>1, <2>4, <2>5
      <4> QED
        BY <4>1, <4>2
    <3> QED
      BY <3>1, <3>2
  <2>8. \A i, j \in 1..n : i < j => at[i] < at[j] /\ at[i] <= at[j]
    BY <2>5
  <2>9. \A i \in 1..(n - 1) : at[i + 1] = at[i] + 1
    <3>1. \A i \in 1..(n - 1) : i \in 1..n /\ i + 1 \in 1..n
      OBVIOUS
    <3> QED
      BY <3>1, <2>5
  <2>10. at[n] = Len(t) /\ n # 0
    <3>1. n \in 1..n
      BY <2>0
    <3> QED
      BY <3>1, <2>4, <2>5, <2>0
  <2>11. Carried(ms, n, t, at)
    BY <2>5, <2>6, <2>7, <2>8, <2>9, <2>10 DEF Carried
  <2> QED
    BY <1>1, <2>1, <2>2, <2>4, <2>11
<1>3. CASE ~(ms # <<>> /\ ms[1].role # "user")
  <2>1. EnsureStartsWithUser(ms) = ms
    BY <1>3 DEF EnsureStartsWithUser
  <2> DEFINE at == [i \in 1..n |-> i]
  <2>2. at \in [1..n -> 1..n] /\ \A i \in 1..n : at[i] = i
    OBVIOUS
  <2> HIDE DEF at
  <2>3. \A i \in 1..(n - 1) : i \in 1..n /\ i + 1 \in 1..n
    OBVIOUS
  <2>4. n > 0 => n \in 1..n
    OBVIOUS
  <2>5. n = 0 => ms = <<>>
    BY <1>1, EmptySeq
  <2>6. \A k \in 1..n : IsPlainText(ms[k]) \/ \E i \in 1..n : at[i] = k /\ ~IsPlainText(ms[i])
    BY <2>2
  <2>7. \A i, j \in 1..n : i < j => at[i] < at[j] /\ at[i] <= at[j]
    BY <2>2
  <2>8. at \in [1..n -> 1..Len(ms)] /\ \A i \in 1..n : ms[at[i]] = ms[i]
    BY <1>1, <2>2
  <2>9. \A i \in 1..(n - 1) : at[i + 1] = at[i] + 1
    BY <2>2, <2>3
  <2>10. (n > 0 => at[n] = Len(ms)) /\ \A k \in 1..Len(ms) : k \in 1..n
    BY <1>1, <2>2, <2>4
  <2>11. Carried(ms, n, ms, at)
    BY <2>5, <2>6, <2>7, <2>8, <2>9, <2>10 DEF Carried
  <2> QED
    BY <1>1, <1>3, <2>1, <2>11
<1> QED
  BY <1>2, <1>3

\* Messages in turn, the first the user's.
InTurn(ms) == \A i \in DOMAIN ms : ms[i].role = IF i % 2 = 1 THEN "user" ELSE "assistant"

\* One step of the padding.
LEMMA TurnKeeps ==
    ASSUME NEW T \in Seq(InRole), InTurn(T), NEW m \in InRole, T = <<>> => m.role = "user"
    PROVE  /\ AddInTurn(T, m) \in Seq(InRole) /\ InTurn(AddInTurn(T, m)) /\ AddInTurn(T, m) # <<>>
           /\ Grows(T, AddInTurn(T, m), m)
           /\ (T # <<>> => Last(T).role # m.role) => Len(AddInTurn(T, m)) = Len(T) + 1
<1>1. PICK n \in Nat : n = Len(T) /\ DOMAIN T = 1..n /\ (n = 0 <=> T = <<>>)
  BY LenProperties, EmptySeq
<1>2. m.role \in {"user", "assistant"}
  BY DEF InRole
<1>3. CASE T # <<>> /\ Last(T).role = m.role
  <2> DEFINE p == Placeholder(OppositeRole(m.role))
             U == T \o <<p, m>>
  <2>1. OppositeRole(m.role) \in {"user", "assistant"} /\ OppositeRole(m.role) # m.role
    BY <1>2 DEF OppositeRole
  <2>2. p \in InRole /\ IsPlainText(p) /\ p.role = OppositeRole(m.role)
    BY <2>1, PlaceholderFacts
  <2> HIDE DEF p
  <2>3. <<p, m>> \in Seq(InRole) /\ Len(<<p, m>>) = 2 /\ <<p, m>>[1] = p /\ <<p, m>>[2] = m
    BY <2>2
  <2>4. AddInTurn(T, m) = U
    BY <1>3 DEF AddInTurn, p
  <2>5. U \in Seq(InRole) /\ Len(U) = n + 2 /\ DOMAIN U = 1..(n + 2) /\ U[n + 1] = p /\ U[n + 2] = m
        /\ \A i \in 1..n : U[i] = T[i]
    <3>1. U \in Seq(InRole) /\ Len(U) = n + 2
          /\ \A i \in 1..(n + 2) : U[i] = IF i <= n THEN T[i] ELSE <<p, m>>[i - n]
      BY <1>1, <2>3, ConcatProperties
    <3> HIDE DEF U
    <3>2. n + 1 \in 1..(n + 2) /\ n + 2 \in 1..(n + 2) /\ ~(n + 1 <= n) /\ ~(n + 2 <= n) /\ (n + 1) - n = 1 /\ (n + 2) - n = 2
      OBVIOUS
    <3>3. \A i \in 1..n : i \in 1..(n + 2) /\ i <= n
      OBVIOUS
    <3> QED
      BY <2>3, <3>1, <3>2, <3>3, LenProperties
  <2> HIDE DEF U
  <2>6. n > 0 /\ T[n].role = m.role
    BY <1>1, <1>3, LastIs
  <2>7. T[n].role = IF n % 2 = 1 THEN "user" ELSE "assistant"
    <3>1. n \in DOMAIN T
      BY <1>1, <2>6
    <3> QED
      BY <3>1 DEF InTurn
  <2>8. n % 2 \in {0, 1} /\ (n + 1) % 2 = 1 - (n % 2) /\ (n + 2) % 2 = n % 2
    OBVIOUS
  <2>9. p.role = IF (n + 1) % 2 = 1 THEN "user" ELSE "assistant"
    BY <1>2, <2>1, <2>2, <2>6, <2>7, <2>8
  <2>10. m.role = IF (n + 2) % 2 = 1 THEN "user" ELSE "assistant"
    BY <2>6, <2>7, <2>8
  <2>11. InTurn(U)
    <3>1. \A i \in 1..(n + 2) : i \in 1..n \/ i = n + 1 \/ i = n + 2
      OBVIOUS
    <3>2. \A i \in 1..n : U[i].role = IF i % 2 = 1 THEN "user" ELSE "assistant"
      BY <1>1, <2>5 DEF InTurn
    <3>3. ASSUME NEW i \in DOMAIN U PROVE U[i].role = IF i % 2 = 1 THEN "user" ELSE "assistant"
      BY <2>5, <2>9, <2>10, <3>1, <3>2
    <3> QED
      BY <3>3 DEF InTurn
  <2>12. Grows(T, U, m)
    <3>1. \A k \in (n + 1)..((n + 2) - 1) : k = n + 1
      OBVIOUS
    <3> QED
      BY <1>1, <2>2, <2>5, <3>1 DEF Grows
  <2>13. U # <<>>
    BY <2>5
  <2> QED
    BY <1>3, <2>4, <2>5, <2>11, <2>12, <2>13
<1>4. CASE ~(T # <<>> /\ Last(T).role = m.role)
  <2> DEFINE U == Append(T, m)
  <2>1. AddInTurn(T, m) = U
    BY <1>4 DEF AddInTurn
  <2>2. U \in Seq(InRole) /\ Grows(T, U, m) /\ Len(U) = n + 1
    BY <1>1, AppendGrows
  <2>3. DOMAIN U = 1..(n + 1) /\ U[n + 1] = m /\ \A i \in 1..n : U[i] = T[i]
    <3> HIDE DEF U
    <3> QED
      BY <1>1, <2>2, LenProperties DEF Grows
  <2> HIDE DEF U
  <2>4. m.role = IF (n + 1) % 2 = 1 THEN "user" ELSE "assistant"
    <3>1. CASE n = 0
      BY <3>1, <1>1
    <3>2. CASE n # 0
      <4>1. n \in DOMAIN T /\ T[n].role # m.role /\ T[n] \in InRole
        <5>1. T # <<>> /\ n \in DOMAIN T
          BY <1>1, <3>2
        <5> QED
          BY <1>1, <1>4, <5>1, LastIs
      <4>2. T[n].role = IF n % 2 = 1 THEN "user" ELSE "assistant"
        BY <4>1 DEF InTurn
      <4>3. n % 2 \in {0, 1} /\ (n + 1) % 2 = 1 - (n % 2)
        OBVIOUS
      <4> QED
        BY <1>2, <4>1, <4>2, <4>3
    <3> QED
      BY <3>1, <3>2
  <2>5. InTurn(U)
    <3>1. \A i \in 1..(n + 1) : i \in 1..n \/ i = n + 1
      OBVIOUS
    <3>2. \A i \in 1..n : U[i].role = IF i % 2 = 1 THEN "user" ELSE "assistant"
      BY <1>1, <2>3 DEF InTurn
    <3>3. ASSUME NEW i \in DOMAIN U PROVE U[i].role = IF i % 2 = 1 THEN "user" ELSE "assistant"
      BY <2>3, <2>4, <3>1, <3>2
    <3> QED
      BY <3>3 DEF InTurn
  <2>6. U # <<>>
    BY <2>2
  <2> QED
    BY <1>1, <2>1, <2>2, <2>5, <2>6
<1> QED
  BY <1>3, <1>4

LEMMA AddInTurnType ==
    ASSUME NEW T \in Seq(InRole), NEW m \in InRole
    PROVE  AddInTurn(T, m) \in Seq(InRole)
<1> DEFINE p == Placeholder(OppositeRole(m.role))
<1>1. p \in InRole
  <2>1. OppositeRole(m.role) \in {"user", "assistant"}
    BY DEF OppositeRole
  <2> QED
    BY <2>1, PlaceholderFacts
<1>2. <<p, m>> \in Seq(InRole)
  <2> HIDE DEF p
  <2> QED
    BY <1>1
<1> QED
  BY <1>2, ConcatProperties, AppendProperties DEF AddInTurn

LEMMA TurnCarries ==
    ASSUME NEW ms \in Seq(InRole), ms # <<>> => ms[1].role = "user"
    PROVE  LET t == EnsureAlternatingRoles(ms)
           IN t \in Seq(InRole) /\ InTurn(t) /\ \E at : Carried(ms, Len(ms), t, at)
<1>1. PICK n \in Nat : n = Len(ms) /\ DOMAIN ms = 1..n /\ \A i \in 1..n : ms[i] \in InRole
  BY LenProperties, ElementOfSeq
<1> DEFINE X == Seq(InRole)
<1>2. <<>> \in X /\ TurnCloses(X, ms, n)
  BY <1>1, AddInTurnType DEF TurnCloses
<1>3. PICK out \in [0..n -> X] :
              /\ out[0] = <<>>
              /\ \A k \in 0..(n - 1) : out[k + 1] = AddInTurn(out[k], ms[k + 1])
              /\ EnsureAlternatingRoles(ms) = out[n]
  <2> HIDE DEF X
  <2> QED
    BY <1>1, <1>2, TurnSteps
<1> DEFINE Done(k) == InTurn(out[k]) /\ \E at : Carried(ms, k, out[k], at)
           Right == {k \in Nat : k <= n => Done(k)}
<1>4. 0 \in Right
  <2>1. InTurn(<<>>)
    BY DEF InTurn
  <2> QED
    BY <2>1, <1>3, CarriedNone
<1>5. ASSUME NEW k \in Nat, k \in Right PROVE k + 1 \in Right
  <2>1. ASSUME k + 1 <= n PROVE Done(k + 1)
    <3>1. k \in 0..(n - 1) /\ k \in 0..n /\ k + 1 \in 1..n /\ k <= n /\ (k # 0 => k \in 1..n)
      BY <2>1
    <3> DEFINE T == out[k]
               m == ms[k + 1]
    <3>2. T \in Seq(InRole) /\ out[k + 1] = AddInTurn(T, m) /\ m \in InRole
      BY <1>1, <1>3, <3>1
    <3>3. InTurn(T) /\ \E at : Carried(ms, k, T, at)
      BY <1>5, <3>1
    <3> HIDE DEF T
    <3>4. PICK at : Carried(ms, k, T, at)
      BY <3>3
    <3>5. Len(T) \in Nat /\ (T = <<>> <=> Len(T) = 0)
      BY <3>2, LenProperties, EmptySeq
    <3>6. k # 0 => at[k] = Len(T) /\ Len(T) > 0 /\ T[Len(T)].role = ms[k].role
      <4>1. SUFFICES ASSUME k # 0 PROVE at[k] = Len(T) /\ Len(T) > 0 /\ T[Len(T)].role = ms[k].role
        OBVIOUS
      <4>2. k \in 1..k /\ k > 0
        BY <4>1
      <4>3. at[k] \in 1..Len(T) /\ at[k] = Len(T) /\ T[at[k]].role = ms[k].role
        BY <3>4, <4>2 DEF Carried
      <4> QED
        BY <4>3, <3>5
    <3>7. T = <<>> => m.role = "user"
      <4>1. SUFFICES ASSUME T = <<>> PROVE m.role = "user"
        OBVIOUS
      <4>2. k = 0
        BY <4>1, <3>5, <3>6
      <4>3. ms # <<>>
        BY <1>1, <3>1, EmptySeq
      <4> QED
        BY <4>2, <4>3
    <3> DEFINE U == AddInTurn(T, m)
    <3>8. /\ InTurn(U) /\ U \in Seq(InRole) /\ Grows(T, U, m)
          /\ (T # <<>> => Last(T).role # m.role) => Len(U) = Len(T) + 1
      <4> HIDE DEF m
      <4> QED
        BY <3>2, <3>3, <3>7, TurnKeeps
    <3> HIDE DEF U
    <3>9. k > 0 /\ ms[k].role # ms[k + 1].role => Len(U) = Len(T) + 1
      <4>1. SUFFICES ASSUME k > 0, ms[k].role # ms[k + 1].role PROVE Len(U) = Len(T) + 1
        OBVIOUS
      <4>2. T # <<>> /\ Last(T).role = ms[k].role
        <5>1. k # 0
          BY <4>1
        <5>2. T # <<>> /\ T[Len(T)].role = ms[k].role
          BY <5>1, <3>5, <3>6
        <5>3. Last(T) = T[Len(T)]
          BY <5>2, <3>2, LastIs
        <5> QED
          BY <5>2, <5>3
      <4> QED
        BY <4>1, <4>2, <3>8
    <3>10. Grows(T, U, ms[k + 1])
      BY <3>8
    <3> HIDE DEF m
    <3>11. \E by : Carried(ms, k + 1, U, by)
      BY <3>4, <3>5, <3>9, <3>10, CarriedGrows
    <3>12. out[k + 1] = U
      BY <3>2 DEF U
    <3> QED
      BY <3>8, <3>11, <3>12
  <2> HIDE DEF Done
  <2> QED
    BY <2>1
<1>6. Done(n)
  <2> HIDE DEF Done
  <2>1. n \in Right
    <3> HIDE DEF Right
    <3> QED
      BY <1>4, <1>5, Induction
  <2> QED
    BY <2>1
<1>7. n \in 0..n
  OBVIOUS
<1> QED
  BY <1>1, <1>3, <1>6, <1>7

\* Results stay with their calls, and where there are no calls and results
\* none appear.
LEMMA CarriedAttached ==
    ASSUME NEW S \in Seq(InRole), NEW T \in Seq(InRole), NEW at, Carried(S, Len(S), T, at), Attached(S)
    PROVE  Attached(T)
<1>1. Len(S) \in Nat /\ DOMAIN S = 1..Len(S) /\ Len(T) \in Nat /\ DOMAIN T = 1..Len(T)
  BY LenProperties
<1>2. \A i \in 1..Len(S) : S[i] \in InRole /\ S[i] \in Parted /\ S[i] \in Messages
  BY <1>1, ElementOfSeq DEF InRole, Parted
<1>3. \A k \in 1..Len(T) : T[k] \in Messages
  BY <1>1, ElementOfSeq DEF InRole, Parted
<1>4. ASSUME NEW k \in 1..Len(T), NEW id \in ResultsOf(T[k]) PROVE id \in CallsBefore(T, k)
  <2>1. ~IsPlainText(T[k])
    BY <1>3, <1>4, PlainFacts
  <2>2. PICK i \in 1..Len(S) : at[i] = k /\ ~IsPlainText(S[i])
    BY <2>1 DEF Carried
  <2>3. T[k] = S[i]
    BY <2>2 DEF Carried
  <2>4. id \in CallsBefore(S, i)
    BY <1>1, <1>4, <2>3 DEF Attached
  <2>5. i > 1 /\ S[i - 1].role = "assistant" /\ id \in Range(ToolUseIds(S[i - 1]))
    BY <2>4 DEF CallsBefore
  <2>6. S[i].role = "user"
    <3>1. HasResult(S[i])
      BY <1>4, <2>3 DEF ResultsOf, HasResult
    <3> QED
      BY <3>1, <1>2 DEF Parted
  <2>7. i - 1 \in 1..(Len(S) - 1) /\ i - 1 \in 1..Len(S) /\ (i - 1) + 1 = i
    BY <2>5, <1>1
  <2>8. at[i] = at[i - 1] + 1 /\ at[i - 1] \in 1..Len(T)
    BY <2>5, <2>6, <2>7 DEF Carried
  <2>9. k - 1 = at[i - 1] /\ k > 1
    BY <2>2, <2>8
  <2>10. ~IsPlainText(S[i - 1])
    <3>1. id \in CallsOf(S[i - 1])
      BY <1>2, <2>5, <2>7, CallsAreSelected
    <3> QED
      BY <3>1, <1>2, <2>7, PlainFacts
  <2>11. T[k - 1] = S[i - 1]
    BY <2>7, <2>9, <2>10 DEF Carried
  <2> QED
    BY <2>5, <2>9, <2>11 DEF CallsBefore
<1> QED
  BY <1>1, <1>4 DEF Attached

LEMMA CarriedToolless ==
    ASSUME NEW S \in Seq(InRole), NEW T \in Seq(InRole), NEW at, Carried(S, Len(S), T, at), Toolless(S)
    PROVE  Toolless(T)
<1>1. Len(S) \in Nat /\ DOMAIN S = 1..Len(S) /\ Len(T) \in Nat /\ DOMAIN T = 1..Len(T)
  BY LenProperties
<1>2. \A k \in 1..Len(T) : T[k] \in Messages
  BY <1>1, ElementOfSeq DEF InRole, Parted
<1>3. ASSUME NEW k \in 1..Len(T) PROVE CallsOf(T[k]) = {} /\ ResultsOf(T[k]) = {}
  <2>1. CASE IsPlainText(T[k])
    BY <1>2, <2>1, PlainFacts
  <2>2. CASE ~IsPlainText(T[k])
    <3>1. PICK i \in 1..Len(S) : at[i] = k /\ ~IsPlainText(S[i])
      BY <2>2 DEF Carried
    <3>2. T[k] = S[i]
      BY <3>1 DEF Carried
    <3> QED
      BY <3>2, <1>1 DEF Toolless
  <2> QED
    BY <2>1, <2>2
<1> QED
  BY <1>1, <1>3 DEF Toolless

\* What Normalize promises of any request.
LEMMA NormalizeFacts ==
    ASSUME NEW ms \in Seq(Given), NEW hasTools \in BOOLEAN
    PROVE  LET t == Normalize(ms, hasTools)
           IN t \in Seq(InRole) /\ InTurn(t) /\ Attached(t) /\ (~hasTools => Toolless(t))
<1> DEFINE a == ExpandServerToolResults(ms)
           b == TextualizeToolContent(a, hasTools)
           c == NormalizeRoles(b)
           d == MergeAdjacentSameRole(c)
           e == EnsureStartsWithUser(d)
           t == EnsureAlternatingRoles(e)
<1>1. a \in Seq(Parted)
  BY ExpandType
<1> HIDE DEF a
<1>2. b \in Seq(Parted) /\ Attached(b) /\ (~hasTools => Toolless(b))
  <2>1. CASE hasTools
    BY <1>1, <2>1, OrphansFacts DEF TextualizeToolContent
  <2>2. CASE ~hasTools
    <3>1. b \in Seq(Parted) /\ Toolless(b)
      BY <1>1, <2>2, ToollessFacts DEF TextualizeToolContent
    <3>2. Attached(b)
      BY <3>1 DEF Attached, Toolless
    <3> QED
      BY <3>1, <3>2
  <2> QED
    BY <2>1, <2>2
<1> HIDE DEF b
<1>3. c \in Seq(InRole) /\ Attached(c) /\ (~hasTools => Toolless(c))
  BY <1>2, RolesFacts
<1> HIDE DEF c
<1>4. d \in Seq(InRole) /\ \E at : Carried(c, Len(c), d, at)
  BY <1>3, MergeCarries
<1> HIDE DEF d
<1>5. e \in Seq(InRole) /\ (e # <<>> => e[1].role = "user") /\ \E at : Carried(d, Len(d), e, at)
  BY <1>4, StartCarries
<1> HIDE DEF e
<1>6. t \in Seq(InRole) /\ InTurn(t) /\ \E at : Carried(e, Len(e), t, at)
  BY <1>5, TurnCarries
<1> HIDE DEF t
<1>7. Attached(t) /\ (~hasTools => Toolless(t))
  <2>1. Attached(d) /\ (~hasTools => Toolless(d))
    BY <1>3, <1>4, CarriedAttached, CarriedToolless
  <2>2. Attached(e) /\ (~hasTools => Toolless(e))
    BY <2>1, <1>4, <1>5, CarriedAttached, CarriedToolless
  <2> QED
    BY <2>2, <1>5, <1>6, CarriedAttached, CarriedToolless
<1>8. Normalize(ms, hasTools) = t
  BY DEF Normalize, a, b, c, d, e, t
<1> QED
  BY <1>6, <1>7, <1>8

-----------------------------------------------------------------------------
(***************************************************************************)
(* The payload.  Its entries are those of one row of messages: what        *)
(* Normalize returned, and a message to continue with if that does not end *)
(* with the user.                                                          *)
(***************************************************************************)
LEMMA IdsAreNumbers ==
    ASSUME NEW m \in Messages
    PROVE  ToolUseIds(m) \in Seq(Nat) /\ ToolResults(m) \in Seq(Nat)
<1>1. ASSUME NEW s \in Seq(ContentBlocks) PROVE Ids(s) \in Seq(Nat)
  <2>1. PICK n \in Nat : DOMAIN s = 1..n /\ \A i \in 1..n : s[i] \in ContentBlocks
    BY LenProperties, ElementOfSeq
  <2>2. Ids(s) = [i \in 1..n |-> s[i].id] /\ \A i \in 1..n : s[i].id \in Nat
    BY <2>1 DEF Ids, ContentBlocks
  <2> QED
    BY <2>2
<1>2. m.blocks \in Seq(ContentBlocks)
  BY BlockOf
<1> DEFINE calls == {k \in DOMAIN m.blocks : IsToolUse(m.blocks[k])}
           results == {k \in DOMAIN m.blocks : IsToolResult(m.blocks[k])}
<1>3. ToolUseIds(m) = Ids(Chosen(m.blocks, calls))
  <2>1. [i \in DOMAIN m.blocks |-> IF IsToolUse(m.blocks[i]) THEN <<m.blocks[i]>> ELSE <<>>]
          = [i \in DOMAIN m.blocks |-> IF i \in calls THEN <<m.blocks[i]>> ELSE <<>>]
    OBVIOUS
  <2> QED
    BY <2>1 DEF ToolUseIds, Selected, Chosen
<1>4. ToolResults(m) = Ids(Chosen(m.blocks, results))
  <2>1. [i \in DOMAIN m.blocks |-> IF IsToolResult(m.blocks[i]) THEN <<m.blocks[i]>> ELSE <<>>]
          = [i \in DOMAIN m.blocks |-> IF i \in results THEN <<m.blocks[i]>> ELSE <<>>]
    OBVIOUS
  <2> QED
    BY <2>1 DEF ToolResults, Selected, Chosen
<1> HIDE DEF calls, results
<1>5. Chosen(m.blocks, calls) \in Seq(ContentBlocks) /\ Chosen(m.blocks, results) \in Seq(ContentBlocks)
  BY <1>2, ChosenFacts
<1> QED
  BY <1>1, <1>3, <1>4, <1>5

Among(ids, R)  == Selected(ids, LAMBDA id : id \in R)
Beyond(ids, R) == Selected(ids, LAMBDA id : id \notin R)

LEMMA AmongFacts ==
    ASSUME NEW ids \in Seq(Nat), NEW R
    PROVE  /\ Among(ids, R) \in Seq(Nat) /\ Range(Among(ids, R)) = Range(ids) \cap R
           /\ Beyond(ids, R) \in Seq(Nat) /\ Range(Beyond(ids, R)) = Range(ids) \ R
           /\ Range(ids) \subseteq R => Beyond(ids, R) = <<>>
<1> DEFINE within == {k \in DOMAIN ids : ids[k] \in R}
           without == {k \in DOMAIN ids : ids[k] \notin R}
<1>1. Among(ids, R) = Chosen(ids, within)
  <2>1. [i \in DOMAIN ids |-> IF ids[i] \in R THEN <<ids[i]>> ELSE <<>>]
          = [i \in DOMAIN ids |-> IF i \in within THEN <<ids[i]>> ELSE <<>>]
    OBVIOUS
  <2> QED
    BY <2>1 DEF Among, Selected, Chosen
<1>2. Beyond(ids, R) = Chosen(ids, without)
  <2>1. [i \in DOMAIN ids |-> IF ids[i] \notin R THEN <<ids[i]>> ELSE <<>>]
          = [i \in DOMAIN ids |-> IF i \in without THEN <<ids[i]>> ELSE <<>>]
    OBVIOUS
  <2> QED
    BY <2>1 DEF Beyond, Selected, Chosen
<1>3. {ids[i] : i \in DOMAIN ids \cap within} = Range(ids) \cap R /\ {ids[i] : i \in DOMAIN ids \cap without} = Range(ids) \ R
  BY DEF Range
<1>4. Range(ids) \subseteq R => DOMAIN ids \cap without = {}
  BY DEF Range
<1> HIDE DEF within, without
<1>5. Chosen(ids, within) \in Seq(Nat) /\ Range(Chosen(ids, within)) = {ids[i] : i \in DOMAIN ids \cap within}
  BY ChosenFacts
<1>6. /\ Chosen(ids, without) \in Seq(Nat) /\ Range(Chosen(ids, without)) = {ids[i] : i \in DOMAIN ids \cap without}
      /\ DOMAIN ids \cap without = {} => Chosen(ids, without) = <<>>
  BY ChosenFacts
<1> QED
  BY <1>1, <1>2, <1>3, <1>4, <1>5, <1>6

\* The results of an entry are those of its message, and if the calls are
\* there, the calls' ids in their order.
LEMMA ReorderFacts ==
    ASSUME NEW results \in Seq(Nat), NEW ids \in Seq(Nat)
    PROVE  LET r == ReorderToolResults(results, ids)
           IN Range(r) = Range(results) /\ (Range(results) \subseteq Range(ids) => r = Among(ids, Range(r)))
<1> DEFINE r == ReorderToolResults(results, ids)
<1>1. r = Among(ids, Range(results)) \o Beyond(results, Range(ids))
  BY DEF ReorderToolResults, Among, Beyond
<1> HIDE DEF r
<1>2. /\ Among(ids, Range(results)) \in Seq(Nat) /\ Range(Among(ids, Range(results))) = Range(ids) \cap Range(results)
      /\ Beyond(results, Range(ids)) \in Seq(Nat) /\ Range(Beyond(results, Range(ids))) = Range(results) \ Range(ids)
      /\ Range(results) \subseteq Range(ids) => Beyond(results, Range(ids)) = <<>>
  BY AmongFacts
<1>3. Range(r) = Range(results)
  <2>1. Range(r) = Range(Among(ids, Range(results))) \cup Range(Beyond(results, Range(ids)))
    BY <1>1, <1>2, ConcatRange
  <2> QED
    BY <2>1, <1>2
<1>4. ASSUME Range(results) \subseteq Range(ids) PROVE r = Among(ids, Range(r))
  <2> DEFINE a == Among(ids, Range(results))
  <2>1. r = a \o <<>> /\ a \in Seq(Nat)
    BY <1>1, <1>2, <1>4
  <2> HIDE DEF a
  <2>2. r = a
    BY <2>1, ConcatEmptySeq
  <2> QED
    BY <2>2, <1>3 DEF a
<1> QED
  BY <1>3, <1>4 DEF r

LEMMA RangeEmpty == ASSUME NEW S, NEW s \in Seq(S) PROVE Range(s) = {} <=> s = <<>>
<1>1. ASSUME s # <<>> PROVE Range(s) # {}
  <2>1. Len(s) \in Nat /\ Len(s) # 0 /\ DOMAIN s = 1..Len(s)
    BY <1>1, LenProperties, EmptySeq
  <2>2. 1 \in DOMAIN s
    BY <2>1
  <2> QED
    BY <2>2 DEF Range
<1>2. Range(<<>>) = {}
  BY DEF Range
<1> QED
  BY <1>1, <1>2

\* A user's entry is never empty, and its results follow the calls before it.
LEMMA UserEntryFacts ==
    ASSUME NEW m \in Messages, NEW ids \in Seq(Nat), NEW synthetic
    PROVE  LET e == UserEntry(m, ids, synthetic)
           IN /\ e.role = "user" /\ e.calls = <<>> /\ e.reasoning = 0
              /\ e.text # <<>> \/ e.results # <<>>
              /\ Range(e.results) = ResultsOf(m)
              /\ ResultsOf(m) \subseteq Range(ids) => e.results = Among(ids, Range(e.results))
              /\ ResultsOf(m) = {} => e.results = <<>>
<1> DEFINE results == ToolResults(m)
           e == UserEntry(m, ids, synthetic)
<1>1. results \in Seq(Nat) /\ Range(results) = ResultsOf(m) /\ (ResultsOf(m) = {} <=> results = <<>>)
  BY IdsAreNumbers, ResultsAreSelected
<1>2. /\ e.role = "user" /\ e.calls = <<>> /\ e.reasoning = 0 /\ e.results = ReorderToolResults(results, ids)
      /\ results = <<>> => e.text = TextOr(TextContent(m), synthetic)
  BY DEF UserEntry, Entry
<1>3. TextOr(TextContent(m), synthetic) # <<>>
  BY DEF TextOr
<1> HIDE DEF results, e
<1>4. Range(e.results) = Range(results) /\ (Range(results) \subseteq Range(ids) => e.results = Among(ids, Range(e.results)))
  BY <1>1, <1>2, ReorderFacts
<1>5. e.results = <<>> <=> ResultsOf(m) = {}
  <2>1. e.results \in Seq(Nat)
    <3>1. Among(ids, Range(results)) \in Seq(Nat) /\ Beyond(results, Range(ids)) \in Seq(Nat)
      BY <1>1, AmongFacts
    <3>2. e.results = Among(ids, Range(results)) \o Beyond(results, Range(ids))
      BY <1>2 DEF ReorderToolResults, Among, Beyond
    <3> QED
      BY <3>1, <3>2, ConcatProperties
  <2>2. Range(e.results) = {} <=> e.results = <<>>
    BY <2>1, RangeEmpty
  <2> QED
    BY <2>2, <1>1, <1>4
<1>6. e.text # <<>> \/ e.results # <<>>
  BY <1>1, <1>2, <1>3, <1>5
<1> QED
  BY <1>1, <1>2, <1>4, <1>5, <1>6 DEF e

Row(W, hasTools) ==
    /\ W \in Seq(InRole) /\ InTurn(W) /\ Attached(W) /\ Len(W) % 2 = 1
    /\ ~hasTools => Toolless(W)

\* One more message of the user's, of text.
LEMMA RowContinued ==
    ASSUME NEW T \in Seq(InRole), InTurn(T), Attached(T), Len(T) % 2 = 0, NEW m \in InRole, IsPlainText(m), m.role = "user",
           NEW hasTools \in BOOLEAN, ~hasTools => Toolless(T)
    PROVE  Row(Append(T, m), hasTools)
<1> DEFINE U == Append(T, m)
<1>1. PICK n \in Nat : n = Len(T) /\ DOMAIN T = 1..n /\ \A i \in 1..n : T[i] \in InRole
  BY LenProperties, ElementOfSeq
<1>2. U \in Seq(InRole) /\ Len(U) = n + 1 /\ DOMAIN U = 1..(n + 1) /\ U[n + 1] = m /\ \A i \in 1..n : U[i] = T[i]
  <2>1. U \in Seq(InRole) /\ Len(U) = n + 1 /\ U[n + 1] = m /\ \A i \in 1..n : U[i] = T[i]
    BY <1>1, AppendProperties
  <2> HIDE DEF U
  <2> QED
    BY <2>1, LenProperties
<1> HIDE DEF U
<1>3. \A i \in 1..(n + 1) : i \in 1..n \/ i = n + 1
  OBVIOUS
<1>4. n % 2 = 0 /\ (n + 1) % 2 = 1
  BY <1>1
<1>5. InTurn(U)
  <2>1. \A i \in 1..n : U[i].role = IF i % 2 = 1 THEN "user" ELSE "assistant"
    BY <1>1, <1>2 DEF InTurn
  <2>2. ASSUME NEW i \in DOMAIN U PROVE U[i].role = IF i % 2 = 1 THEN "user" ELSE "assistant"
    BY <1>2, <1>3, <1>4, <2>1
  <2> QED
    BY <2>2 DEF InTurn
<1>6. CallsOf(m) = {} /\ ResultsOf(m) = {}
  BY PlainFacts DEF InRole, Parted
<1>7. Attached(U)
  <2>1. \A i \in 1..n : i > 1 => i - 1 \in 1..n
    OBVIOUS
  <2>2. \A i \in 1..n : CallsBefore(U, i) = CallsBefore(T, i)
    BY <1>2, <2>1 DEF CallsBefore
  <2>3. \A i \in 1..n : ResultsOf(U[i]) \subseteq CallsBefore(U, i)
    BY <1>1, <1>2, <2>2 DEF Attached
  <2> QED
    BY <1>2, <1>3, <1>6, <2>3 DEF Attached
<1>8. ~hasTools => Toolless(U)
  BY <1>1, <1>2, <1>3, <1>6 DEF Toolless
<1> QED
  BY <1>2, <1>4, <1>5, <1>7, <1>8 DEF Row, U

\* How the messages of the row become entries; reasoning is replayed only where
\* the last message answers a call.
EntryOf(e, W, i) ==
    IF W[i].role = "user"
    THEN \E synthetic \in {Empty, Continue} : e = UserEntry(W[i], PrecedingIds(W, i), synthetic)
    ELSE /\ e.role = "assistant" /\ e.calls = ToolUseIds(W[i]) /\ e.results = <<>>
         /\ e.reasoning # 0 => i + 1 = Len(W) /\ Range(ToolUseIds(W[i])) \cap Range(ToolResults(W[i + 1])) # {}

EntriesOf(e, W) ==
    /\ DOMAIN e = 1..(Len(W) + 2) /\ Len(e) = Len(W) + 2
    /\ \A i \in {1, 2} : e[i] = SystemPair[i]
    /\ \A i \in 1..Len(W) : EntryOf(e[i + 2], W, i)

PayloadOf(ms, hasTools) == LET p == BuildPayload(ms, hasTools) IN Append(p.history, p.current)

LEMMA PayloadShape ==
    ASSUME NEW T, NEW n \in Nat, DOMAIN T = 1..n, Len(T) = n, NEW m, NEW answered, m.role = "user",
           answered = Range(ToolResults(m)),
           NEW W, Len(W) = n + 1, W[n + 1] = m, \A i \in 1..n : W[i] = T[i]
    PROVE  EntriesOf(Append(SystemPair \o BuildHistory(T, answered), UserEntry(m, PrecedingIds(T, n + 1), Continue)), W)
<1> DEFINE h == BuildHistory(T, answered)
           c == UserEntry(m, PrecedingIds(T, n + 1), Continue)
           A == Range(h) \cup Range(SystemPair) \cup {c}
           e == Append(SystemPair \o h, c)
<1>1. h \in Seq(A) /\ Len(h) = n
  <2>1. DOMAIN h = 1..n /\ h = [i \in 1..n |-> h[i]]
    BY DEF BuildHistory
  <2>2. \A i \in 1..n : h[i] \in A
    <3> HIDE DEF h
    <3> QED
      BY <2>1 DEF Range
  <2> HIDE DEF h, A
  <2> QED
    BY <2>1, <2>2
<1>2. SystemPair \in Seq(A) /\ Len(SystemPair) = 2
  <2>1. SystemPair[1] \in Range(SystemPair) /\ SystemPair[2] \in Range(SystemPair)
    BY DEF Range, SystemPair
  <2>2. SystemPair[1] \in A /\ SystemPair[2] \in A
    BY <2>1
  <2> HIDE DEF A
  <2> QED
    BY <2>2 DEF SystemPair
<1>3. c \in A
  OBVIOUS
<1>4. \A i \in 1..n : T[i].role = "user" => h[i] = UserEntry(T[i], PrecedingIds(T, i), Empty)
  BY DEF BuildHistory
<1>5. ASSUME NEW i \in 1..n, T[i].role # "user"
      PROVE  /\ h[i].role = "assistant" /\ h[i].calls = ToolUseIds(T[i]) /\ h[i].results = <<>>
             /\ h[i].reasoning # 0 => i = n /\ Range(ToolUseIds(T[i])) \cap answered # {}
  BY <1>5 DEF BuildHistory, AssistantEntry, Entry
<1> HIDE DEF h, A
<1>6. ASSUME NEW i \in 1..n PROVE EntryOf(h[i], W, i)
  <2>1. i > 1 => i - 1 \in 1..n
    OBVIOUS
  <2>2. PrecedingIds(T, i) = PrecedingIds(W, i) /\ T[i] = W[i]
    BY <2>1 DEF PrecedingIds
  <2>3. i = n => i + 1 = Len(W) /\ W[i + 1] = m
    OBVIOUS
  <2>4. CASE W[i].role = "user"
    BY <2>2, <2>4, <1>4 DEF EntryOf
  <2>5. CASE W[i].role # "user"
    BY <2>2, <2>3, <2>5, <1>5 DEF EntryOf
  <2> QED
    BY <2>4, <2>5
<1>7. EntryOf(c, W, n + 1)
  <2>1. n + 1 > 1 => n \in 1..n /\ (n + 1) - 1 = n
    OBVIOUS
  <2>2. PrecedingIds(T, n + 1) = PrecedingIds(W, n + 1)
    BY <2>1 DEF PrecedingIds
  <2> QED
    BY <2>2 DEF EntryOf
<1> HIDE DEF c
<1> DEFINE f == SystemPair \o h
<1>8. f \in Seq(A) /\ Len(f) = 2 + n /\ \A i \in 1..(2 + n) : f[i] = IF i <= 2 THEN SystemPair[i] ELSE h[i - 2]
  <2>1. f \in Seq(A) /\ Len(f) = Len(SystemPair) + Len(h)
        /\ \A i \in 1..(Len(SystemPair) + Len(h)) :
              f[i] = IF i <= Len(SystemPair) THEN SystemPair[i] ELSE h[i - Len(SystemPair)]
    BY <1>1, <1>2, ConcatProperties
  <2> HIDE DEF f
  <2> QED
    BY <2>1, <1>1, <1>2
<1> HIDE DEF f
<1> DEFINE g == Append(f, c)
<1>9. g \in Seq(A) /\ Len(g) = (2 + n) + 1 /\ g[(2 + n) + 1] = c /\ \A i \in 1..(2 + n) : g[i] = f[i]
  BY <1>3, <1>8, AppendProperties
<1> HIDE DEF g
<1>10. DOMAIN g = 1..(Len(W) + 2) /\ Len(g) = Len(W) + 2
  <2>1. (2 + n) + 1 = Len(W) + 2 /\ DOMAIN g = 1..Len(g)
    BY <1>9, LenProperties
  <2> QED
    BY <1>9, <2>1
<1>11. \A i \in {1, 2} : g[i] = SystemPair[i]
  <2>1. \A i \in {1, 2} : i \in 1..(2 + n) /\ i <= 2
    OBVIOUS
  <2> QED
    BY <2>1, <1>8, <1>9
<1>12. ASSUME NEW i \in 1..Len(W) PROVE EntryOf(g[i + 2], W, i)
  <2>1. CASE i = n + 1
    <3>1. i + 2 = (2 + n) + 1
      BY <2>1
    <3> QED
      BY <2>1, <3>1, <1>7, <1>9
  <2>2. CASE i # n + 1
    <3>1. i \in 1..n /\ i + 2 \in 1..(2 + n) /\ ~(i + 2 <= 2) /\ (i + 2) - 2 = i
      BY <2>2
    <3>2. g[i + 2] = h[i]
      BY <3>1, <1>8, <1>9
    <3> QED
      BY <3>1, <3>2, <1>6
  <2> QED
    BY <2>1, <2>2
<1>13. EntriesOf(g, W)
  BY <1>10, <1>11, <1>12 DEF EntriesOf
<1> QED
  BY <1>13 DEF g, f, h, c

RowOf(W, T) == W = T \/ \E m \in InRole : IsPlainText(m) /\ W = Append(T, m)

LEMMA PayloadFacts ==
    ASSUME NEW ms \in Seq(Given), NEW hasTools \in BOOLEAN
    PROVE  \E W : Row(W, hasTools) /\ EntriesOf(PayloadOf(ms, hasTools), W) /\ RowOf(W, Normalize(ms, hasTools))
<1> DEFINE T == Normalize(ms, hasTools)
           m == Message("user", <<Synthetic(Continue)>>)
           h == IF EndsWithUser(T) THEN Front(T) ELSE T
           c == IF EndsWithUser(T) THEN Last(T) ELSE m
<1>1. T \in Seq(InRole) /\ InTurn(T) /\ Attached(T) /\ (~hasTools => Toolless(T))
  BY NormalizeFacts
<1>2. PayloadOf(ms, hasTools)
        = Append(SystemPair \o BuildHistory(h, Range(ToolResults(c))), UserEntry(c, PrecedingIds(h, Len(h) + 1), Continue))
  BY DEF PayloadOf, BuildPayload
<1> HIDE DEF T
<1>3. PICK n \in Nat : n = Len(T) /\ DOMAIN T = 1..n /\ (n = 0 <=> T = <<>>)
  BY <1>1, LenProperties, EmptySeq
<1>4. n % 2 \in {0, 1} /\ (n > 0 => n \in DOMAIN T)
  BY <1>3
<1>5. CASE EndsWithUser(T)
  <2>1. n > 0 /\ Last(T) = T[n] /\ T[n].role = "user" /\ h = Front(T) /\ c = T[n]
        /\ Front(T) \in Seq(InRole) /\ Len(Front(T)) = n - 1 /\ \A i \in 1..(n - 1) : Front(T)[i] = T[i]
    BY <1>1, <1>3, <1>5, LastIs DEF EndsWithUser
  <2>2. n % 2 = 1
    BY <1>1, <1>4, <2>1 DEF InTurn
  <2> HIDE DEF h, c
  <2>3. PICK k \in Nat : k = n - 1 /\ k + 1 = n
    BY <2>1
  <2>4. DOMAIN h = 1..k /\ Len(h) = k
    BY <2>1, <2>3, LenProperties
  <2>5. EntriesOf(PayloadOf(ms, hasTools), T)
    <3>1. Len(T) = k + 1 /\ T[k + 1] = c /\ (\A i \in 1..k : T[i] = h[i]) /\ c.role = "user"
      BY <1>3, <2>1, <2>3
    <3> QED
      BY <1>2, <2>4, <3>1, PayloadShape
  <2>6. Row(T, hasTools) /\ RowOf(T, T)
    BY <1>1, <1>3, <2>2 DEF Row, RowOf
  <2> QED
    BY <2>5, <2>6 DEF T
<1>6. CASE ~EndsWithUser(T)
  <2>1. h = T /\ c = m
    BY <1>6
  <2>2. n % 2 = 0
    <3>1. SUFFICES ASSUME n % 2 = 1 PROVE FALSE
      BY <1>4
    <3>2. n > 0 /\ T # <<>>
      BY <3>1, <1>3
    <3>3. Last(T) = T[n]
      BY <3>2, <1>1, <1>3, LastIs
    <3> QED
      BY <3>1, <3>2, <3>3, <1>1, <1>4, <1>6 DEF InTurn, EndsWithUser
  <2>3. m \in InRole /\ IsPlainText(m) /\ m.role = "user"
    <3>1. Synthetic(Continue) \in ContentBlocks /\ IsText(Synthetic(Continue))
      <4>1. <<>> \in Seq(Nat)
        OBVIOUS
      <4> QED
        BY <4>1 DEF Synthetic, Continue, Block, ContentBlocks, Kinds, IsText
    <3>2. <<Synthetic(Continue)>> \in Seq(ContentBlocks) /\ DOMAIN <<Synthetic(Continue)>> = {1}
      BY <3>1
    <3>3. m \in Messages /\ m.role = "user" /\ m.blocks = <<Synthetic(Continue)>>
      BY <3>2 DEF Message, Messages
    <3>4. IsPlainText(m)
      BY <3>1, <3>2, <3>3 DEF IsPlainText
    <3> HIDE DEF m
    <3> QED
      BY <3>3, <3>4, PlainFacts DEF InRole, Parted
  <2> HIDE DEF m, h, c
  <2>4. Row(Append(T, m), hasTools)
    BY <1>1, <1>3, <2>2, <2>3, RowContinued
  <2>5. Len(Append(T, m)) = n + 1 /\ Append(T, m)[n + 1] = m /\ \A i \in 1..n : Append(T, m)[i] = T[i]
    BY <1>1, <1>3, <2>3, AppendProperties
  <2> DEFINE W == Append(T, m)
  <2> HIDE DEF W
  <2>6. EntriesOf(PayloadOf(ms, hasTools), W)
    <3>1. Len(W) = n + 1 /\ W[n + 1] = c /\ (\A i \in 1..n : W[i] = h[i]) /\ c.role = "user" /\ DOMAIN h = 1..n /\ Len(h) = n
      BY <1>3, <2>1, <2>3, <2>5 DEF W
    <3> QED
      BY <1>2, <3>1, PayloadShape
  <2>7. RowOf(W, T)
    BY <2>3 DEF RowOf, W
  <2>8. Row(W, hasTools)
    BY <2>4 DEF W
  <2> QED
    BY <2>6, <2>7, <2>8 DEF T
<1> QED
  BY <1>5, <1>6

\* What the two properties say of the payload of any request.
Alternate(e) ==
    /\ Len(e) % 2 = 1
    /\ \A i \in DOMAIN e : e[i].role = IF i % 2 = 1 THEN "user" ELSE "assistant"
    /\ \A i \in DOMAIN e : e[i].role = "user" => e[i].text # <<>> \/ e[i].results # <<>>

ResultsInPlace(e) ==
    \A i \in DOMAIN e : e[i].results = Among(IF i = 1 THEN <<>> ELSE e[i - 1].calls, Range(e[i].results))

LEMMA RowTypes ==
    ASSUME NEW W, NEW hasTools \in BOOLEAN, Row(W, hasTools), NEW i \in 1..Len(W)
    PROVE  /\ Len(W) \in Nat /\ DOMAIN W = 1..Len(W) /\ i \in Nat /\ W[i] \in Messages /\ W[i] \in Parted
           /\ PrecedingIds(W, i) \in Seq(Nat)
           /\ W[i].role = IF i % 2 = 1 THEN "user" ELSE "assistant"
           /\ W[i].role = "user" => ResultsOf(W[i]) \subseteq Range(PrecedingIds(W, i))
           /\ ~hasTools => CallsOf(W[i]) = {} /\ ResultsOf(W[i]) = {}
<1>1. Len(W) \in Nat /\ DOMAIN W = 1..Len(W) /\ W \in Seq(InRole) /\ i \in Nat
  BY LenProperties DEF Row
<1>2. \A j \in 1..Len(W) : W[j] \in Messages /\ W[j] \in Parted
  BY <1>1, ElementOfSeq DEF InRole, Parted
<1>3. i > 1 => i - 1 \in 1..Len(W)
  BY <1>1
<1>4. PrecedingIds(W, i) \in Seq(Nat)
  BY <1>2, <1>3, IdsAreNumbers DEF PrecedingIds
<1>5. W[i].role = IF i % 2 = 1 THEN "user" ELSE "assistant"
  BY <1>1 DEF Row, InTurn
<1>6. ResultsOf(W[i]) \subseteq Range(PrecedingIds(W, i))
  BY <1>1 DEF Row, Attached, CallsBefore, PrecedingIds
<1>7. ~hasTools => CallsOf(W[i]) = {} /\ ResultsOf(W[i]) = {}
  BY <1>1 DEF Row, Toolless
<1> QED
  BY <1>1, <1>2, <1>4, <1>5, <1>6, <1>7

LEMMA EntryFacts ==
    ASSUME NEW W, NEW hasTools \in BOOLEAN, Row(W, hasTools), NEW e, EntriesOf(e, W), NEW i \in 1..Len(W)
    PROVE  /\ e[i + 2].role = W[i].role
           /\ W[i].role = "user" => /\ e[i + 2].text # <<>> \/ e[i + 2].results # <<>>
                                    /\ e[i + 2].calls = <<>>
                                    /\ e[i + 2].results = Among(PrecedingIds(W, i), Range(e[i + 2].results))
                                    /\ ~hasTools => e[i + 2].results = <<>>
           /\ W[i].role # "user" => /\ e[i + 2].calls = ToolUseIds(W[i]) /\ e[i + 2].results = <<>>
                                    /\ ~hasTools => e[i + 2].calls = <<>>
<1>1. EntryOf(e[i + 2], W, i)
  BY DEF EntriesOf
<1>2. CASE W[i].role = "user"
  <2>1. PICK synthetic \in {Empty, Continue} : e[i + 2] = UserEntry(W[i], PrecedingIds(W, i), synthetic)
    BY <1>1, <1>2 DEF EntryOf
  <2>2. /\ W[i] \in Messages /\ PrecedingIds(W, i) \in Seq(Nat)
        /\ ResultsOf(W[i]) \subseteq Range(PrecedingIds(W, i))
        /\ ~hasTools => ResultsOf(W[i]) = {}
    BY <1>2, RowTypes
  <2> DEFINE u == UserEntry(W[i], PrecedingIds(W, i), synthetic)
  <2>3. /\ u.role = "user" /\ u.calls = <<>>
        /\ u.text # <<>> \/ u.results # <<>>
        /\ u.results = Among(PrecedingIds(W, i), Range(u.results))
        /\ ResultsOf(W[i]) = {} => u.results = <<>>
    BY <2>2, UserEntryFacts
  <2>4. e[i + 2] = u
    BY <2>1
  <2> HIDE DEF u
  <2> QED
    BY <1>2, <2>2, <2>3, <2>4
<1>3. CASE W[i].role # "user"
  <2>1. W[i] \in Messages /\ (~hasTools => CallsOf(W[i]) = {}) /\ W[i].role = "assistant"
    BY <1>3, RowTypes
  <2> QED
    BY <1>1, <1>3, <2>1, CallsAreSelected DEF EntryOf
<1> QED
  BY <1>2, <1>3

LEMMA PairFacts ==
    /\ SystemPair[1].role = "user" /\ SystemPair[1].text # <<>> /\ SystemPair[1].calls = <<>> /\ SystemPair[1].results = <<>>
    /\ SystemPair[2].role = "assistant" /\ SystemPair[2].calls = <<>> /\ SystemPair[2].results = <<>>
  BY DEF SystemPair, Entry

LEMMA AmongNone == ASSUME NEW R PROVE Among(<<>>, R) = <<>>
<1>1. <<>> \in Seq(Nat)
  OBVIOUS
<1>2. Among(<<>>, R) \in Seq(Nat) /\ Range(Among(<<>>, R)) = Range(<<>>) \cap R
  BY <1>1, AmongFacts
<1>3. Range(<<>>) = {}
  BY DEF Range
<1> QED
  BY <1>2, <1>3, RangeEmpty

LEMMA AmongNothing == ASSUME NEW ids \in Seq(Nat) PROVE Among(ids, {}) = <<>>
<1>1. Among(ids, {}) \in Seq(Nat) /\ Range(Among(ids, {})) = {}
  BY AmongFacts
<1> QED
  BY <1>1, RangeEmpty

\* Whatever messages come in, in whatever roles: Kiro gets user and assistant in
\* turn, the user first and last, and nothing of the user's that is empty.
THEOREM PayloadAlternates ==
    ASSUME NEW ms \in Seq(Given), NEW hasTools \in BOOLEAN
    PROVE  Alternate(PayloadOf(ms, hasTools))
<1> DEFINE e == PayloadOf(ms, hasTools)
<1>1. PICK W : Row(W, hasTools) /\ EntriesOf(e, W)
  BY PayloadFacts
<1> HIDE DEF e
<1>2. PICK n \in Nat : n = Len(W) /\ DOMAIN e = 1..(n + 2) /\ Len(e) = n + 2 /\ n % 2 = 1
  BY <1>1, LenProperties DEF Row, EntriesOf
<1>3. ASSUME NEW i \in 1..(n + 2)
      PROVE  /\ e[i].role = IF i % 2 = 1 THEN "user" ELSE "assistant"
             /\ e[i].role = "user" => e[i].text # <<>> \/ e[i].results # <<>>
  <2>1. CASE i \in {1, 2}
    <3>1. e[i] = SystemPair[i]
      BY <1>1, <2>1 DEF EntriesOf
    <3>2. CASE i = 1
      BY <3>1, <3>2, PairFacts
    <3>3. CASE i = 2
      BY <3>1, <3>3, PairFacts
    <3> QED
      BY <2>1, <3>2, <3>3
  <2>2. CASE i \notin {1, 2}
    <3>1. i - 2 \in 1..Len(W) /\ (i - 2) + 2 = i /\ i - 2 \in Nat
      BY <2>2, <1>2
    <3> DEFINE k == i - 2
    <3>2. k \in 1..Len(W) /\ i = k + 2 /\ k \in Nat
      BY <3>1
    <3> HIDE DEF k
    <3>3. e[k + 2].role = W[k].role /\ (W[k].role = "user" => e[k + 2].text # <<>> \/ e[k + 2].results # <<>>)
      BY <1>1, <3>2, EntryFacts
    <3>4. W[k].role = IF k % 2 = 1 THEN "user" ELSE "assistant"
      BY <1>1, <3>2, RowTypes
    <3>5. i % 2 = k % 2
      BY <3>2
    <3> QED
      BY <3>2, <3>3, <3>4, <3>5
  <2> QED
    BY <2>1, <2>2
<1>4. (n + 2) % 2 = 1
  BY <1>2
<1> QED
  BY <1>2, <1>3, <1>4 DEF Alternate, e

\* Whatever calls and results come in, with calls missing, repeated or out of
\* order: the results of an entry are those of calls of the entry before it, in
\* the order of the calls; and a request without tools has neither.
THEOREM PayloadResultsInPlace ==
    ASSUME NEW ms \in Seq(Given), NEW hasTools \in BOOLEAN
    PROVE  LET e == PayloadOf(ms, hasTools)
           IN ResultsInPlace(e) /\ (~hasTools => \A i \in DOMAIN e : e[i].calls = <<>> /\ e[i].results = <<>>)
<1> DEFINE e == PayloadOf(ms, hasTools)
<1>1. PICK W : Row(W, hasTools) /\ EntriesOf(e, W)
  BY PayloadFacts
<1> HIDE DEF e
<1>2. PICK n \in Nat : n = Len(W) /\ DOMAIN e = 1..(n + 2)
  BY <1>1, LenProperties DEF Row, EntriesOf
<1>3. e[1].calls = <<>> /\ e[1].results = <<>> /\ e[2].calls = <<>> /\ e[2].results = <<>>
  BY <1>1, PairFacts DEF EntriesOf
<1>4. ASSUME NEW k \in 1..n
      PROVE  /\ e[k + 2].results = Among(e[k + 1].calls, Range(e[k + 2].results))
             /\ ~hasTools => e[k + 2].calls = <<>> /\ e[k + 2].results = <<>>
  <2>0. k \in 1..Len(W) /\ k \in Nat
    BY <1>2
  <2> DEFINE before == e[k + 1].calls
             results == e[k + 2].results
  <2>1. /\ W[k].role = "user" => /\ results = Among(PrecedingIds(W, k), Range(results))
                                 /\ e[k + 2].calls = <<>>
                                 /\ ~hasTools => results = <<>>
        /\ W[k].role # "user" => /\ results = <<>>
                                 /\ ~hasTools => e[k + 2].calls = <<>>
    BY <1>1, <2>0, EntryFacts
  <2>2. W[k].role = IF k % 2 = 1 THEN "user" ELSE "assistant"
    BY <1>1, <2>0, RowTypes
  <2>3. k = 1 => PrecedingIds(W, k) = <<>> /\ before = <<>>
    BY <1>3 DEF PrecedingIds
  <2>4. ASSUME k # 1
        PROVE  /\ W[k].role = "user" => PrecedingIds(W, k) = before
               /\ W[k].role # "user" => before = <<>>
    <3> DEFINE j == k - 1
    <3>1. j \in 1..Len(W) /\ j \in Nat /\ k = j + 1 /\ k > 1 /\ k + 1 = j + 2
      BY <2>0, <2>4
    <3> HIDE DEF j
    <3>2. W[j].role = IF j % 2 = 1 THEN "user" ELSE "assistant"
      BY <1>1, <3>1, RowTypes
    <3>3. (W[j].role = "user" => e[j + 2].calls = <<>>) /\ (W[j].role # "user" => e[j + 2].calls = ToolUseIds(W[j]))
      BY <1>1, <3>1, EntryFacts
    <3>4. PrecedingIds(W, k) = ToolUseIds(W[j])
      <4>1. k - 1 = j
        BY <3>1
      <4> QED
        BY <3>1, <4>1 DEF PrecedingIds
    <3>5. j % 2 = 1 <=> k % 2 # 1
      BY <3>1
    <3> QED
      BY <3>1, <3>2, <3>3, <3>4, <3>5, <2>2
  <2>5. W[k].role # "user" => before = <<>>
    BY <2>2, <2>3, <2>4
  <2>6. results = Among(before, Range(results))
    <3>1. CASE W[k].role = "user"
      <4>1. PrecedingIds(W, k) = before
        BY <3>1, <2>3, <2>4
      <4> HIDE DEF before, results
      <4> QED
        BY <3>1, <4>1, <2>1
    <3>2. CASE W[k].role # "user"
      BY <3>2, <2>1, <2>5, AmongNone
    <3> QED
      BY <3>1, <3>2
  <2>7. ~hasTools => e[k + 2].calls = <<>> /\ e[k + 2].results = <<>>
    BY <2>1
  <2> QED
    BY <2>6, <2>7
<1>5. ASSUME NEW i \in DOMAIN e
      PROVE  /\ e[i].results = Among(IF i = 1 THEN <<>> ELSE e[i - 1].calls, Range(e[i].results))
             /\ ~hasTools => e[i].calls = <<>> /\ e[i].results = <<>>
  <2>0. i \in 1..(n + 2)
    BY <1>2
  <2>1. CASE i = 1
    BY <2>1, <1>3, AmongNone
  <2>2. CASE i = 2
    <3>1. i - 1 = 1
      BY <2>2
    <3> QED
      BY <2>2, <3>1, <1>3, AmongNone
  <2>3. CASE i # 1 /\ i # 2
    <3> DEFINE k == i - 2
    <3>1. k \in 1..n /\ k + 2 = i /\ k + 1 = i - 1
      BY <2>0, <2>3
    <3> HIDE DEF k
    <3> QED
      BY <2>3, <3>1, <1>4
  <2> QED
    BY <2>1, <2>2, <2>3
<1>6. ResultsInPlace(e)
  BY <1>5 DEF ResultsInPlace
<1> QED
  BY <1>5, <1>6 DEF e

\* Reasoning goes back only with the calls that are being answered: in the
\* payload of any request an entry with reasoning is the one before the current
\* message, and that has the result of one of its calls.
ReplaysInFlight(e) ==
    \A i \in DOMAIN e : e[i].reasoning # 0 => i + 1 = Len(e) /\ Range(e[i].calls) \cap Range(e[i + 1].results) # {}

\* Whatever reasoning a request has, no payload replays any of it but at the
\* calls that its current message answers (buildHistory, answersToolUses).
THEOREM PayloadReplaysInFlight ==
    ASSUME NEW ms \in Seq(Given), NEW hasTools \in BOOLEAN
    PROVE  ReplaysInFlight(PayloadOf(ms, hasTools))
<1> DEFINE e == PayloadOf(ms, hasTools)
<1>1. PICK W : Row(W, hasTools) /\ EntriesOf(e, W)
  BY PayloadFacts
<1> HIDE DEF e
<1>2. PICK n \in Nat : n = Len(W) /\ DOMAIN W = 1..n /\ DOMAIN e = 1..(n + 2) /\ Len(e) = n + 2 /\ n % 2 = 1
  BY <1>1, LenProperties DEF Row, EntriesOf
<1>3. ASSUME NEW i \in {1, 2} PROVE e[i].reasoning = 0
  BY <1>1 DEF EntriesOf, SystemPair, Entry
<1>4. ASSUME NEW k \in 1..n, e[k + 2].reasoning # 0
      PROVE  k + 1 = n /\ Range(e[k + 2].calls) \cap Range(e[(k + 1) + 2].results) # {}
  <2>1. EntryOf(e[k + 2], W, k)
    BY <1>1, <1>2 DEF EntriesOf
  <2>2. W[k].role # "user"
    <3>1. \A m, ids, synthetic : UserEntry(m, ids, synthetic).reasoning = 0
      BY DEF UserEntry, Entry
    <3> QED
      BY <2>1, <3>1, <1>4 DEF EntryOf
  <2>3. k + 1 = n /\ Range(e[k + 2].calls) \cap Range(ToolResults(W[k + 1])) # {}
    BY <1>2, <1>4, <2>1, <2>2 DEF EntryOf
  <2>4. k + 1 \in 1..n
    BY <2>3
  <2>5. W[k + 1].role = "user"
    BY <1>1, <1>2, <2>3, <2>4, RowTypes
  <2>6. W[k + 1] \in Messages /\ PrecedingIds(W, k + 1) \in Seq(Nat)
    BY <1>1, <1>2, <2>4, RowTypes
  <2>7. EntryOf(e[(k + 1) + 2], W, k + 1)
    BY <1>1, <1>2, <2>4 DEF EntriesOf
  <2>8. PICK synthetic \in {Empty, Continue} : e[(k + 1) + 2] = UserEntry(W[k + 1], PrecedingIds(W, k + 1), synthetic)
    BY <2>5, <2>7 DEF EntryOf
  <2>9. Range(UserEntry(W[k + 1], PrecedingIds(W, k + 1), synthetic).results) = ResultsOf(W[k + 1])
    BY <2>6, UserEntryFacts
  <2>10. Range(ToolResults(W[k + 1])) = ResultsOf(W[k + 1])
    BY <2>6, ResultsAreSelected
  <2> QED
    BY <2>3, <2>8, <2>9, <2>10
<1>5. ASSUME NEW i \in 1..(n + 2), e[i].reasoning # 0
      PROVE  i + 1 = Len(e) /\ Range(e[i].calls) \cap Range(e[i + 1].results) # {}
  <2>1. i \notin {1, 2}
    BY <1>3, <1>5
  <2>2. i - 2 \in 1..n /\ (i - 2) + 2 = i /\ ((i - 2) + 1) + 2 = i + 1
    BY <2>1
  <2>3. e[(i - 2) + 2].reasoning # 0
    BY <1>5, <2>2
  <2>4. (i - 2) + 1 = n /\ Range(e[(i - 2) + 2].calls) \cap Range(e[((i - 2) + 1) + 2].results) # {}
    BY <2>2, <2>3, <1>4
  <2> QED
    BY <1>2, <2>2, <2>4
<1>6. ReplaysInFlight(e)
  BY <1>2, <1>5 DEF ReplaysInFlight
<1> QED
  BY <1>6 DEF e

-----------------------------------------------------------------------------
(***************************************************************************)
(* The conversation itself.  Every request that can be sent is of messages *)
(* as Normalize expects them; and a text ends what has been written of an  *)
(* answer as long as there is only reasoning behind it.                    *)
(***************************************************************************)
AnswerBlocks == {b \in ContentBlocks : b.kind # "tool_result"}
Rounds == [redacted : Seq(Nat), text : Seq(Nat), held : Seq(Nat), calls : Seq(Nat),
           server : Nat, pending : Seq(Nat), before : Nat]
Remembered == [kind : Kinds, round : Nat]

ConversationTypes ==
    /\ msgs \in Seq(Given) /\ loop \in Seq(Given)
    /\ answer \in Seq(AnswerBlocks)
    /\ round \in Rounds /\ round.before <= Len(round.pending)
    /\ log \in Seq(Remembered) /\ asked \in Nat /\ asked <= Len(log)
    /\ round # NewRound => log # <<>>
    /\ pc \in {"client", "model"} /\ stream \in BOOLEAN

Idle == pc = "client" => round = NewRound

TextAtEnd ==
    stream /\ ~InTail /\ round.calls = <<>> /\ round.text # <<>> => answer # <<>> /\ Last(answer).kind = "text"

ConversationInv == ConversationTypes /\ Idle /\ TextAtEnd

LEMMA BlocksFacts ==
    ASSUME NEW kind \in Kinds, NEW ids \in Seq(Nat)
    PROVE  /\ Blocks(kind, ids) \in Seq(ContentBlocks)
           /\ kind # "tool_result" => Blocks(kind, ids) \in Seq(AnswerBlocks)
           /\ Len(Blocks(kind, ids)) = Len(ids)
           /\ \A j \in DOMAIN Blocks(kind, ids) : Blocks(kind, ids)[j].kind = kind /\ Blocks(kind, ids)[j] \in ContentBlocks
<1>1. PICK n \in Nat : n = Len(ids) /\ DOMAIN ids = 1..n /\ \A i \in 1..n : ids[i] \in Nat
  BY LenProperties, ElementOfSeq
<1>2. \A i \in 1..n : Block(kind, ids[i]) \in ContentBlocks /\ Block(kind, ids[i]).kind = kind
  <2>1. <<>> \in Seq(Nat)
    OBVIOUS
  <2> QED
    BY <1>1, <2>1 DEF Block, ContentBlocks, Kinds
<1>3. Blocks(kind, ids) = [i \in 1..n |-> Block(kind, ids[i])]
  BY <1>1 DEF Blocks
<1>4. \A i \in 1..n : kind # "tool_result" => Block(kind, ids[i]) \in AnswerBlocks
  BY <1>2 DEF AnswerBlocks
<1> QED
  BY <1>1, <1>2, <1>3, <1>4

\* The blocks of an answer.
LEMMA AnswerTypes ==
    ASSUME NEW blocks \in Seq(AnswerBlocks)
    PROVE  Message("assistant", blocks) \in Given
<1>1. DOMAIN blocks = 1..Len(blocks) /\ \A j \in DOMAIN blocks : blocks[j] \in AnswerBlocks
  BY LenProperties, ElementOfSeq
<1>2. blocks \in Seq(ContentBlocks)
  <2>1. AnswerBlocks \subseteq ContentBlocks
    BY DEF AnswerBlocks
  <2> QED
    BY <2>1, SeqMonotonic
<1> QED
  BY <1>1, <1>2 DEF Message, Messages, Given, AnswerBlocks

LEMMA UserTypes ==
    ASSUME NEW blocks \in Seq(ContentBlocks)
    PROVE  Message("user", blocks) \in Given
  BY DEF Message, Messages, Given

LEMMA ContentType ==
    ASSUME NEW r \in Rounds
    PROVE  /\ Blobs(r.redacted) \in Seq(AnswerBlocks) /\ Blobs(r.pending) \in Seq(AnswerBlocks)
           /\ Texts(r.held) \in Seq(AnswerBlocks) /\ Blocks("tool_use", r.calls) \in Seq(AnswerBlocks)
           /\ r.text \o r.held \in Seq(Nat) /\ Texts(r.text \o r.held) \in Seq(AnswerBlocks)
           /\ Content(r) \in Seq(AnswerBlocks)
<1>1. r.redacted \in Seq(Nat) /\ r.pending \in Seq(Nat) /\ r.held \in Seq(Nat) /\ r.calls \in Seq(Nat) /\ r.text \in Seq(Nat)
  BY DEF Rounds
<1>2. r.text \o r.held \in Seq(Nat)
  BY <1>1, ConcatProperties
<1>3. {"redacted_thinking", "text", "tool_use"} \subseteq Kinds \ {"tool_result"}
  BY DEF Kinds
<1>4. /\ Blobs(r.redacted) \in Seq(AnswerBlocks) /\ Blobs(r.pending) \in Seq(AnswerBlocks)
      /\ Texts(r.held) \in Seq(AnswerBlocks) /\ Blocks("tool_use", r.calls) \in Seq(AnswerBlocks)
      /\ Texts(r.text \o r.held) \in Seq(AnswerBlocks)
  BY <1>1, <1>2, <1>3, BlocksFacts DEF Blobs, Texts
<1>5. Blobs(r.redacted) \o Texts(r.text \o r.held) \in Seq(AnswerBlocks)
  BY <1>4, ConcatProperties
<1>6. Content(r) \in Seq(AnswerBlocks)
  BY <1>4, <1>5, ConcatProperties DEF Content
<1> QED
  BY <1>2, <1>4, <1>6

LEMMA PrefixType ==
    ASSUME NEW S, NEW s \in Seq(S), NEW n \in Nat, n <= Len(s)
    PROVE  SubSeq(s, 1, n) \in Seq(S) /\ Len(SubSeq(s, 1, n)) = n /\ \A i \in 1..n : SubSeq(s, 1, n)[i] = s[i]
<1>1. Len(s) \in Nat /\ \A i \in 1..n : s[i] \in S
  BY LenProperties, ElementOfSeq
<1>2. /\ SubSeq(s, 1, n) \in Seq(S)
      /\ Len(SubSeq(s, 1, n)) = IF 1 <= n THEN n - 1 + 1 ELSE 0
      /\ \A i \in 1..(n - 1 + 1) : SubSeq(s, 1, n)[i] = s[1 + i - 1]
  BY <1>1, SubSeqProperties
<1> QED
  BY <1>2

LEMMA FinishType ==
    ASSUME NEW r \in Rounds, r.before <= Len(r.pending), NEW blocks \in Seq(AnswerBlocks)
    PROVE  Finish(blocks, r) \in Seq(AnswerBlocks)
<1> DEFINE kept == IF HasText(r) /\ r.calls = <<>>
                   THEN SubSeq(r.pending, 1, IF r.held = <<>> THEN 0 ELSE r.before)
                   ELSE r.pending
<1>1. kept \in Seq(Nat)
  <2>1. r.pending \in Seq(Nat) /\ r.before \in Nat /\ Len(r.pending) \in Nat
    BY LenProperties DEF Rounds
  <2>2. SubSeq(r.pending, 1, 0) \in Seq(Nat) /\ SubSeq(r.pending, 1, r.before) \in Seq(Nat)
    BY <2>1, PrefixType
  <2> QED
    BY <2>1, <2>2
<1>2. Finish(blocks, r) = (blocks \o Blobs(kept)) \o Texts(r.held)
  BY DEF Finish
<1> HIDE DEF kept
<1>3. Blobs(kept) \in Seq(AnswerBlocks)
  <2>1. "redacted_thinking" \in Kinds
    BY DEF Kinds
  <2> QED
    BY <1>1, <2>1, BlocksFacts DEF Blobs
<1>4. blocks \o Blobs(kept) \in Seq(AnswerBlocks) /\ Texts(r.held) \in Seq(AnswerBlocks)
  BY <1>3, ConcatProperties, ContentType
<1> QED
  BY <1>2, <1>4, ConcatProperties

LEMMA ConcatInSeq == ASSUME NEW X, NEW S \in Seq(X), NEW T \in Seq(X) PROVE S \o T \in Seq(X)
  BY ConcatProperties

LEMMA ShownType ==
    ASSUME ConversationTypes, NEW result \in {"tool_search_tool_result", "advisor_tool_result"}
    PROVE  Shown(round, result) \in Seq(AnswerBlocks)
<1>1. answer \in Seq(AnswerBlocks) /\ round \in Rounds /\ round.server \in Nat
  BY DEF ConversationTypes, Rounds
<1> DEFINE shown == IF stream THEN Blobs(round.pending) ELSE Content(round)
           use == Block("server_tool_use", round.server)
           res == Block(result, round.server)
<1>2. shown \in Seq(AnswerBlocks)
  BY <1>1, ContentType
<1>3. <<use, res>> \in Seq(AnswerBlocks)
  <2>1. use \in AnswerBlocks /\ res \in AnswerBlocks
    <3>1. <<>> \in Seq(Nat)
      OBVIOUS
    <3> QED
      BY <1>1, <3>1 DEF Block, AnswerBlocks, ContentBlocks, Kinds
  <2> HIDE DEF use, res
  <2> QED
    BY <2>1
<1>4. Shown(round, result) = (answer \o shown) \o <<use, res>>
  BY DEF Shown
<1> HIDE DEF shown, use, res
<1>5. answer \o shown \in Seq(AnswerBlocks)
  BY <1>1, <1>2, ConcatInSeq
<1> DEFINE before == answer \o shown
           behind == <<use, res>>
<1>6. before \in Seq(AnswerBlocks) /\ behind \in Seq(AnswerBlocks) /\ Shown(round, result) = before \o behind
  BY <1>3, <1>4, <1>5
<1> HIDE DEF before, behind
<1>7. before \o behind \in Seq(AnswerBlocks)
  BY <1>6, ConcatInSeq
<1> QED
  BY <1>6, <1>7

LEMMA LastOfConcat ==
    ASSUME NEW S, NEW s \in Seq(S), NEW t \in Seq(S), t # <<>>
    PROVE  s \o t \in Seq(S) /\ s \o t # <<>> /\ Last(s \o t) = Last(t)
<1>1. PICK a \in Nat, b \in Nat : a = Len(s) /\ b = Len(t) /\ b > 0
  BY LastIs, LenProperties
<1> DEFINE u == s \o t
<1>2. u \in Seq(S) /\ Len(u) = a + b /\ \A i \in 1..(a + b) : u[i] = IF i <= a THEN s[i] ELSE t[i - a]
  BY <1>1, ConcatProperties
<1> HIDE DEF u
<1>3. u # <<>>
  BY <1>1, <1>2
<1>4. Last(u) = u[a + b] /\ Last(t) = t[b]
  <2>1. Last(u) = u[Len(u)]
    BY <1>2, <1>3, LastIs
  <2>2. Last(t) = t[Len(t)]
    BY LastIs
  <2> QED
    BY <1>1, <1>2, <2>1, <2>2
<1>5. a + b \in 1..(a + b) /\ ~(a + b <= a) /\ (a + b) - a = b
  BY <1>1
<1> QED
  BY <1>2, <1>3, <1>4, <1>5 DEF u

LEMMA LastBlock ==
    ASSUME NEW kind \in Kinds \ {"tool_result"}, NEW ids \in Seq(Nat), ids # <<>>, NEW blocks \in Seq(AnswerBlocks)
    PROVE  /\ blocks \o Blocks(kind, ids) \in Seq(AnswerBlocks)
           /\ blocks \o Blocks(kind, ids) # <<>>
           /\ Last(blocks \o Blocks(kind, ids)).kind = kind
<1> DEFINE t == Blocks(kind, ids)
<1>1. t \in Seq(AnswerBlocks) /\ Len(t) = Len(ids) /\ \A j \in DOMAIN t : t[j].kind = kind
  BY BlocksFacts
<1> HIDE DEF t
<1>2. Len(ids) \in Nat /\ Len(ids) # 0
  BY LenProperties, EmptySeq
<1>3. t # <<>>
  BY <1>1, <1>2
<1>4. Last(t) = t[Len(t)] /\ Len(t) \in DOMAIN t
  <2>1. Last(t) = t[Len(t)]
    BY <1>1, <1>3, LastIs
  <2>2. DOMAIN t = 1..Len(t)
    BY <1>1, LenProperties
  <2>3. Len(t) \in 1..Len(t)
    BY <1>1, <1>2
  <2> QED
    BY <2>1, <2>2, <2>3
<1> QED
  BY <1>1, <1>3, <1>4, LastOfConcat DEF t

-----------------------------------------------------------------------------
(* The steps. *)

LEMMA NoteFacts ==
    ASSUME log \in Seq(Remembered), NEW kind \in Kinds, NEW rnd \in Nat, Note(<<kind>>, rnd)
    PROVE  /\ log' = Append(log, [kind |-> kind, round |-> rnd])
           /\ log' \in Seq(Remembered) /\ log' # <<>> /\ Len(log') = Len(log) + 1 /\ Len(log) \in Nat
<1> DEFINE entry == [kind |-> kind, round |-> rnd]
<1>1. entry \in Remembered /\ Len(log) \in Nat
  BY LenProperties DEF Remembered
<1>2. [i \in DOMAIN <<kind>> |-> [kind |-> <<kind>>[i], round |-> rnd]] = <<entry>>
  <2>1. DOMAIN <<kind>> = 1..1 /\ <<kind>>[1] = kind
    OBVIOUS
  <2>2. [i \in 1..1 |-> [kind |-> <<kind>>[i], round |-> rnd]] = <<entry>>
    OBVIOUS
  <2> QED
    BY <2>1, <2>2
<1>3. log' = log \o <<entry>>
  BY <1>2 DEF Note
<1> HIDE DEF entry
<1>4. log' = Append(log, entry)
  BY <1>1, <1>3, AppendIsConcat
<1> QED
  BY <1>1, <1>4, AppendProperties DEF entry

LEMMA FrameFacts ==
    ASSUME ConversationTypes, NEW kind \in Kinds, Frame(kind)
    PROVE  /\ log' \in Seq(Remembered) /\ log' # <<>> /\ Len(log') = Len(log) + 1 /\ Len(log) \in Nat
           /\ \E rnd \in Nat : log' = Append(log, [kind |-> kind, round |-> rnd])
           /\ NewId \in Nat /\ <<NewId>> \in Seq(Nat)
           /\ msgs' = msgs /\ loop' = loop /\ pc' = pc /\ stream' = stream /\ asked' = asked /\ pc = "model"
<1>1. log \in Seq(Remembered) /\ Len(log) \in Nat /\ (round # NewRound => log # <<>>)
  BY LenProperties DEF ConversationTypes
<1>2. (IF round = NewRound THEN NewId ELSE Last(log).round) \in Nat
  <2>1. NewId \in Nat
    BY <1>1 DEF NewId
  <2>2. log # <<>> => Last(log).round \in Nat
    <3>1. log # <<>> => Last(log) \in Remembered
      BY <1>1, LastIs
    <3> QED
      BY <3>1 DEF Remembered
  <2> QED
    BY <1>1, <2>1, <2>2
<1>3. PICK rnd \in Nat : Note(<<kind>>, rnd)
  BY <1>2 DEF Frame, Said
<1>4. /\ log' = Append(log, [kind |-> kind, round |-> rnd])
      /\ log' \in Seq(Remembered) /\ log' # <<>> /\ Len(log') = Len(log) + 1
  BY <1>1, <1>3, NoteFacts
<1>5. NewId \in Nat /\ <<NewId>> \in Seq(Nat)
  BY <1>1 DEF NewId
<1> QED
  BY <1>1, <1>4, <1>5 DEF Frame, clientVars, requestVars

\* The client's steps leave the request alone, and append messages it may send.
LEMMA AskTypes ==
    ASSUME ConversationTypes, Ask
    PROVE  ConversationTypes' /\ round' = round /\ pc' = pc
<1>1. PICK role \in {"user", "developer"}, kind \in {"text", "image"} :
          /\ role = "developer" => kind = "text" /\ msgs # <<>>
          /\ Note(<<kind>>, 0)
          /\ Append1(role, <<Block(kind, NewId)>>)
  BY DEF Ask
<1>2. kind \in Kinds /\ kind # "tool_result" /\ kind # "tool_search_tool_result" /\ log \in Seq(Remembered)
  BY DEF Kinds, ConversationTypes
<1>3. log' \in Seq(Remembered) /\ log' # <<>> /\ Len(log') = Len(log) + 1 /\ Len(log) \in Nat
  BY <1>1, <1>2, NoteFacts
<1> DEFINE blocks == <<Block(kind, NewId)>>
<1>4. Block(kind, NewId) \in ContentBlocks /\ ~IsToolResult(Block(kind, NewId))
  <2>1. NewId \in Nat /\ <<>> \in Seq(Nat)
    BY <1>3 DEF NewId
  <2> QED
    BY <1>2, <2>1 DEF Block, ContentBlocks, Kinds, IsToolResult
<1>5. blocks \in Seq(ContentBlocks) /\ DOMAIN blocks = {1} /\ blocks[1] = Block(kind, NewId)
  BY <1>4
<1> HIDE DEF blocks
<1>6. Message(role, blocks) \in Given
  <2>1. Message(role, blocks) \in Messages
    BY <1>5 DEF Message, Messages
  <2>2. ~HasResult(Message(role, blocks))
    BY <1>4, <1>5 DEF HasResult, Message
  <2>3. Message(role, blocks).role # "assistant"
    BY DEF Message
  <2> QED
    BY <2>1, <2>2, <2>3 DEF Given
<1>7. msgs' = Append(msgs, Message(role, blocks))
      /\ UNCHANGED <<pc, stream, loop, used, asked, answer, round>>
  BY <1>1 DEF Append1, requestVars, blocks
<1>8. msgs' \in Seq(Given)
  BY <1>6, <1>7, AppendProperties DEF ConversationTypes
<1> QED
  BY <1>3, <1>7, <1>8 DEF ConversationTypes

LEMMA UnansweredType ==
    ASSUME ConversationTypes
    PROVE  Unanswered \in Seq(Nat)
<1>1. CASE msgs # <<>> /\ Last(msgs).role = "assistant"
  <2> DEFINE m == Last(msgs)
             places == {k \in DOMAIN m.blocks : m.blocks[k].kind = "tool_use"}
  <2>1. m \in Messages
    BY <1>1, LastIs DEF ConversationTypes, Given
  <2>2. Unanswered = Ids(Chosen(m.blocks, places))
    <3>1. [i \in DOMAIN m.blocks |-> IF m.blocks[i].kind = "tool_use" THEN <<m.blocks[i]>> ELSE <<>>]
            = [i \in DOMAIN m.blocks |-> IF i \in places THEN <<m.blocks[i]>> ELSE <<>>]
      OBVIOUS
    <3> QED
      BY <1>1, <3>1 DEF Unanswered, Calls, Selected, Chosen
  <2> HIDE DEF places, m
  <2>3. Chosen(m.blocks, places) \in Seq(ContentBlocks)
    BY <2>1, BlockOf, ChosenFacts
  <2> DEFINE s == Chosen(m.blocks, places)
  <2>4. s \in Seq(ContentBlocks) /\ Unanswered = Ids(s)
    BY <2>2, <2>3
  <2> HIDE DEF s
  <2>5. PICK n \in Nat : DOMAIN s = 1..n /\ \A i \in 1..n : s[i] \in ContentBlocks
    BY <2>4, LenProperties, ElementOfSeq
  <2>6. Ids(s) = [i \in 1..n |-> s[i].id] /\ \A i \in 1..n : s[i].id \in Nat
    BY <2>5 DEF Ids, ContentBlocks
  <2> QED
    BY <2>4, <2>6
<1>2. CASE ~(msgs # <<>> /\ Last(msgs).role = "assistant")
  BY <1>2 DEF Unanswered
<1> QED
  BY <1>1, <1>2

LEMMA AnswerStepTypes ==
    ASSUME ConversationTypes, Answer
    PROVE  ConversationTypes' /\ round' = round /\ pc' = pc
<1>1. PICK n \in Nat : n = Len(Unanswered) /\ DOMAIN Unanswered = 1..n /\ n > 0 /\ \A i \in 1..n : Unanswered[i] \in Nat
  <2>1. Unanswered \in Seq(Nat) /\ Unanswered # <<>>
    BY UnansweredType DEF Answer
  <2> QED
    BY <2>1, LenProperties, ElementOfSeq, EmptySeq
<1>2. PICK order \in [DOMAIN Unanswered -> Range(Unanswered)], extra \in {"nothing", "text", "image"} :
          LET results == [i \in DOMAIN order |-> Block("tool_result", order[i])] IN
          /\ Range(order) = Range(Unanswered)
          /\ \/ /\ extra = "nothing"
                /\ Append1("user", results) /\ UNCHANGED log
             \/ /\ extra # "nothing" /\ Room(1) /\ Note(<<extra>>, 0)
                /\ Append1("user", IF extra = "text" THEN Append(results, Block("text", NewId))
                                   ELSE [results EXCEPT ![1].images = <<NewId>>])
  BY DEF Answer
<1> DEFINE results == [i \in DOMAIN order |-> Block("tool_result", order[i])]
           more == IF extra = "text" THEN Append(results, Block("text", NewId)) ELSE [results EXCEPT ![1].images = <<NewId>>]
<1>3. log \in Seq(Remembered) /\ Len(log) \in Nat /\ NewId \in Nat
  BY LenProperties DEF ConversationTypes, NewId
<1>4. results \in Seq(ContentBlocks) /\ DOMAIN results = 1..n
  <2>1. \A i \in 1..n : order[i] \in Nat
    BY <1>1 DEF Range
  <2>2. \A i \in 1..n : Block("tool_result", order[i]) \in ContentBlocks
    <3>1. <<>> \in Seq(Nat)
      OBVIOUS
    <3> QED
      BY <2>1, <3>1 DEF Block, ContentBlocks, Kinds
  <2>3. results = [i \in 1..n |-> Block("tool_result", order[i])]
    BY <1>1
  <2> QED
    BY <2>2, <2>3
<1> HIDE DEF results
<1>5. more \in Seq(ContentBlocks)
  <2>1. CASE extra = "text"
    <3>1. Block("text", NewId) \in ContentBlocks
      <4>1. <<>> \in Seq(Nat)
        OBVIOUS
      <4> QED
        BY <1>3, <4>1 DEF Block, ContentBlocks, Kinds
    <3> QED
      BY <2>1, <3>1, <1>4, AppendProperties
  <2>2. CASE extra # "text"
    <3> DEFINE b == [results[1] EXCEPT !.images = <<NewId>>]
    <3>1. 1 \in 1..n /\ \A i \in 1..n : results[i] \in ContentBlocks
      BY <1>1, <1>4, ElementOfSeq
    <3>2. b \in ContentBlocks
      <4>1. <<NewId>> \in Seq(Nat)
        BY <1>3
      <4> QED
        BY <3>1, <4>1 DEF ContentBlocks
    <3>3. more = [i \in 1..n |-> IF i = 1 THEN b ELSE results[i]]
      <4>1. results = [i \in 1..n |-> results[i]]
        BY <1>4
      <4> QED
        BY <2>2, <3>1, <4>1
    <3> HIDE DEF b, more
    <3>4. \A i \in 1..n : (IF i = 1 THEN b ELSE results[i]) \in ContentBlocks
      BY <3>1, <3>2
    <3> QED
      BY <3>3, <3>4
  <2> QED
    BY <2>1, <2>2
<1> HIDE DEF more
<1>6. CASE extra = "nothing" /\ Append1("user", results) /\ UNCHANGED log
  <2>1. Message("user", results) \in Given
    BY <1>4, UserTypes
  <2>2. msgs' = Append(msgs, Message("user", results)) /\ UNCHANGED <<pc, stream, loop, used, asked, answer, round, log>>
    BY <1>6 DEF Append1, requestVars
  <2>3. msgs' \in Seq(Given)
    BY <2>1, <2>2, AppendProperties DEF ConversationTypes
  <2> QED
    BY <2>2, <2>3 DEF ConversationTypes
<1>7. CASE extra # "nothing" /\ Note(<<extra>>, 0) /\ Append1("user", more)
  <2>1. Message("user", more) \in Given
    BY <1>5, UserTypes
  <2>2. msgs' = Append(msgs, Message("user", more)) /\ UNCHANGED <<pc, stream, loop, used, asked, answer, round>>
    BY <1>7 DEF Append1, requestVars
  <2>3. msgs' \in Seq(Given)
    BY <2>1, <2>2, AppendProperties DEF ConversationTypes
  <2>4. log' \in Seq(Remembered) /\ log' # <<>> /\ Len(log') = Len(log) + 1
    <3>1. extra \in Kinds
      BY <1>7 DEF Kinds
    <3> QED
      BY <3>1, <1>3, <1>7, NoteFacts
  <2> QED
    BY <2>2, <2>3, <2>4, <1>3 DEF ConversationTypes
<1> QED
  BY <1>2, <1>6, <1>7 DEF results, more

LEMMA ForgetTypes ==
    ASSUME ConversationTypes, Forget
    PROVE  ConversationTypes' /\ round' = round /\ pc' = pc
<1>1. PICK n \in 1..(Len(msgs) - 1) : msgs' = SubSeq(msgs, n + 1, Len(msgs))
  BY DEF Forget
<1>2. msgs \in Seq(Given) /\ Len(msgs) \in Nat /\ DOMAIN msgs = 1..Len(msgs)
  BY LenProperties DEF ConversationTypes
<1>3. msgs' \in Seq(Given)
  <2>1. \A i \in (n + 1)..Len(msgs) : msgs[i] \in Given
    <3>1. \A i \in (n + 1)..Len(msgs) : i \in DOMAIN msgs
      BY <1>2
    <3> QED
      BY <3>1, <1>2, ElementOfSeq
  <2>2. n + 1 \in Int /\ Len(msgs) \in Int
    BY <1>2
  <2> QED
    BY <2>1, <2>2, <1>1, SubSeqProperties
<1>4. UNCHANGED <<pc, stream, loop, used, asked, answer, round, log>>
  BY DEF Forget, requestVars
<1> QED
  BY <1>3, <1>4 DEF ConversationTypes

LEMMA SendTypes ==
    ASSUME ConversationTypes, Send
    PROVE  ConversationTypes' /\ round' = round /\ pc' = "model"
<1>1. UNCHANGED <<msgs, answer, loop, round, log>> /\ stream' \in BOOLEAN /\ asked' = Len(log) /\ pc' = "model"
  BY DEF Send
<1>2. Len(log) \in Nat
  BY LenProperties DEF ConversationTypes
<1> QED
  BY <1>1, <1>2 DEF ConversationTypes

\* The model's frames.
LEMMA RoundFields ==
    ASSUME ConversationTypes
    PROVE  /\ round.redacted \in Seq(Nat) /\ round.text \in Seq(Nat) /\ round.held \in Seq(Nat) /\ round.calls \in Seq(Nat)
           /\ round.server \in Nat /\ round.pending \in Seq(Nat) /\ round.before \in Nat
           /\ round.before <= Len(round.pending) /\ Len(round.pending) \in Nat /\ <<>> \in Seq(Nat) /\ Len(<<>>) = 0
           /\ round = [redacted |-> round.redacted, text |-> round.text, held |-> round.held, calls |-> round.calls,
                       server |-> round.server, pending |-> round.pending, before |-> round.before]
<1>1. round \in Rounds /\ round.before <= Len(round.pending)
  BY DEF ConversationTypes
<1>2. round.pending \in Seq(Nat)
  BY <1>1 DEF Rounds
<1>3. Len(round.pending) \in Nat
  BY <1>2, LenProperties
<1>4. <<>> \in Seq(Nat) /\ Len(<<>>) = 0
  OBVIOUS
<1> QED
  BY <1>1, <1>3, <1>4 DEF Rounds

LEMMA TextFrameTypes ==
    ASSUME ConversationTypes, TextAtEnd, TextFrame
    PROVE  ConversationTypes' /\ TextAtEnd' /\ pc' = "model"
<1>1. /\ log' \in Seq(Remembered) /\ log' # <<>> /\ Len(log') = Len(log) + 1 /\ Len(log) \in Nat
      /\ NewId \in Nat /\ <<NewId>> \in Seq(Nat)
      /\ msgs' = msgs /\ loop' = loop /\ pc' = pc /\ stream' = stream /\ asked' = asked /\ pc = "model"
  <2>1. "text" \in Kinds /\ Frame("text")
    BY DEF Kinds, TextFrame
  <2> QED
    BY <2>1, FrameFacts
<1> DEFINE text == round.text \o round.held \o <<NewId>>
           shown == round.held \o <<NewId>>
<1>2. text \in Seq(Nat) /\ shown \in Seq(Nat) /\ shown # <<>>
  <2>1. round.text \o round.held \in Seq(Nat)
    BY RoundFields, ConcatProperties
  <2>2. text \in Seq(Nat) /\ shown \in Seq(Nat)
    BY <1>1, <2>1, RoundFields, ConcatProperties
  <2>3. <<NewId>> # <<>>
    OBVIOUS
  <2> QED
    BY <1>1, <2>2, <2>3, RoundFields, LastOfConcat
<1>3. round' = [Released EXCEPT !.text = text, !.held = <<>>]
      /\ answer' = IF stream THEN answer \o Blobs(round.pending) \o Texts(shown) ELSE answer
  BY DEF TextFrame, Released
<1> HIDE DEF text, shown
<1>4. round' \in Rounds /\ round'.before = 0 /\ round'.pending = <<>>
  BY <1>2, <1>3, RoundFields DEF Released, Rounds
<1>5. answer \in Seq(AnswerBlocks) /\ Blobs(round.pending) \in Seq(AnswerBlocks)
  BY ContentType DEF ConversationTypes
<1>6. answer \o Blobs(round.pending) \in Seq(AnswerBlocks)
  BY <1>5, ConcatProperties
<1>7. stream => answer' \in Seq(AnswerBlocks) /\ answer' # <<>> /\ Last(answer').kind = "text"
  <2>1. "text" \in Kinds \ {"tool_result"}
    BY DEF Kinds
  <2> QED
    BY <1>2, <1>3, <1>6, <2>1, LastBlock DEF Texts
<1>8. ~stream => answer' = answer
  BY <1>3
<1>9. answer' \in Seq(AnswerBlocks)
  BY <1>5, <1>7, <1>8 DEF ConversationTypes
<1>10. ConversationTypes'
  <2>1. Len(round'.pending) = 0
    BY <1>4
  <2> QED
    BY <1>1, <1>4, <1>9, <2>1 DEF ConversationTypes
<1>11. TextAtEnd'
  BY <1>1, <1>7 DEF TextAtEnd
<1> QED
  BY <1>1, <1>10, <1>11

LEMMA HeldFrameTypes ==
    ASSUME ConversationTypes, TextAtEnd, HeldFrame
    PROVE  ConversationTypes' /\ TextAtEnd' /\ pc' = "model"
<1>1. /\ log' \in Seq(Remembered) /\ log' # <<>> /\ Len(log') = Len(log) + 1 /\ Len(log) \in Nat
      /\ NewId \in Nat /\ <<NewId>> \in Seq(Nat)
      /\ msgs' = msgs /\ loop' = loop /\ pc' = pc /\ stream' = stream /\ asked' = asked /\ pc = "model"
  <2>1. "text" \in Kinds /\ Frame("text")
    BY DEF Kinds, HeldFrame
  <2> QED
    BY <2>1, FrameFacts
<1>2. round' = [round EXCEPT !.held = <<NewId>>, !.before = Len(round.pending)] /\ answer' = answer
  BY DEF HeldFrame
<1>3. round' \in Rounds /\ round'.before = Len(round'.pending) /\ round'.pending = round.pending
      /\ round'.calls = round.calls /\ round'.text = round.text /\ round'.server = round.server
  BY <1>1, <1>2, RoundFields DEF Rounds
<1>4. ConversationTypes'
  <2>1. round'.before <= Len(round'.pending)
    BY <1>3, RoundFields
  <2> QED
    BY <1>1, <1>2, <1>3, <2>1 DEF ConversationTypes
<1> QED
  BY <1>1, <1>2, <1>3, <1>4 DEF TextAtEnd, InTail

LEMMA BlobFrameTypes ==
    ASSUME ConversationTypes, TextAtEnd, BlobFrame
    PROVE  ConversationTypes' /\ TextAtEnd' /\ pc' = "model"
<1>1. /\ log' \in Seq(Remembered) /\ log' # <<>> /\ Len(log') = Len(log) + 1 /\ Len(log) \in Nat
      /\ NewId \in Nat /\ <<NewId>> \in Seq(Nat)
      /\ msgs' = msgs /\ loop' = loop /\ pc' = pc /\ stream' = stream /\ asked' = asked /\ pc = "model"
  <2>1. "redacted_thinking" \in Kinds /\ Frame("redacted_thinking")
    BY DEF Kinds, BlobFrame
  <2> QED
    BY <2>1, FrameFacts
<1> DEFINE redacted == Append(round.redacted, NewId)
           pending == IF stream /\ ~InTail THEN Append(round.pending, NewId) ELSE round.pending
<1>2. redacted \in Seq(Nat) /\ pending \in Seq(Nat) /\ round.before <= Len(pending)
  <2>1. Append(round.pending, NewId) \in Seq(Nat) /\ Len(Append(round.pending, NewId)) = Len(round.pending) + 1
    BY <1>1, RoundFields, AppendProperties
  <2>2. redacted \in Seq(Nat)
    BY <1>1, RoundFields, AppendProperties
  <2> QED
    BY <2>1, <2>2, RoundFields
<1>3. round' = [round EXCEPT !.redacted = redacted, !.pending = pending] /\ answer' = answer
  BY DEF BlobFrame
<1> HIDE DEF redacted, pending
<1>4. round' \in Rounds /\ round'.before = round.before /\ round'.pending = pending
      /\ round'.calls = round.calls /\ round'.text = round.text /\ round'.server = round.server
  BY <1>2, <1>3, RoundFields DEF Rounds
<1>5. ConversationTypes'
  <2>1. round'.before <= Len(round'.pending)
    BY <1>2, <1>4
  <2> QED
    BY <1>1, <1>3, <1>4, <2>1 DEF ConversationTypes
<1> QED
  BY <1>1, <1>3, <1>4, <1>5 DEF TextAtEnd, InTail

LEMMA CallFrameTypes ==
    ASSUME ConversationTypes, TextAtEnd, CallFrame
    PROVE  ConversationTypes' /\ TextAtEnd' /\ pc' = "model"
<1>1. /\ log' \in Seq(Remembered) /\ log' # <<>> /\ Len(log') = Len(log) + 1 /\ Len(log) \in Nat
      /\ NewId \in Nat /\ <<NewId>> \in Seq(Nat)
      /\ msgs' = msgs /\ loop' = loop /\ pc' = pc /\ stream' = stream /\ asked' = asked /\ pc = "model"
  <2>1. "tool_use" \in Kinds /\ Frame("tool_use")
    BY DEF Kinds, CallFrame
  <2> QED
    BY <2>1, FrameFacts
<1> DEFINE calls == Append(round.calls, NewId)
<1>2. calls \in Seq(Nat) /\ calls # <<>>
  <2>1. round.calls \in Seq(Nat) /\ NewId \in Nat
    BY <1>1, RoundFields
  <2> QED
    BY <2>1, AppendProperties
<1>3. round' = [Released EXCEPT !.calls = calls]
      /\ answer' = IF stream THEN answer \o Blobs(round.pending) \o Blocks("tool_use", <<NewId>>) ELSE answer
  BY DEF CallFrame, Released
<1> HIDE DEF calls
<1>4. round' \in Rounds /\ round'.before = 0 /\ round'.pending = <<>> /\ round'.calls = calls
  BY <1>2, <1>3, RoundFields DEF Released, Rounds
<1>5. answer \in Seq(AnswerBlocks) /\ Blobs(round.pending) \in Seq(AnswerBlocks)
  BY ContentType DEF ConversationTypes
<1>6. answer \o Blobs(round.pending) \in Seq(AnswerBlocks)
  BY <1>5, ConcatProperties
<1>7. stream => answer' \in Seq(AnswerBlocks)
  <2>1. "tool_use" \in Kinds \ {"tool_result"} /\ <<NewId>> # <<>>
    BY DEF Kinds
  <2> QED
    BY <1>1, <1>3, <1>6, <2>1, LastBlock
<1>8. answer' \in Seq(AnswerBlocks)
  BY <1>3, <1>5, <1>7
<1>9. ConversationTypes'
  <2>1. Len(round'.pending) = 0
    BY <1>4
  <2> QED
    BY <1>1, <1>4, <1>8, <2>1 DEF ConversationTypes
<1> QED
  BY <1>1, <1>2, <1>4, <1>9 DEF TextAtEnd

LEMMA ServerToolFrameTypes ==
    ASSUME ConversationTypes, TextAtEnd, ServerToolFrame
    PROVE  ConversationTypes' /\ TextAtEnd' /\ pc' = "model"
<1>1. /\ log' \in Seq(Remembered) /\ log' # <<>> /\ Len(log') = Len(log) + 1 /\ Len(log) \in Nat
      /\ NewId \in Nat /\ <<NewId>> \in Seq(Nat)
      /\ msgs' = msgs /\ loop' = loop /\ pc' = pc /\ stream' = stream /\ asked' = asked /\ pc = "model"
  <2>1. "server_tool_use" \in Kinds /\ Frame("server_tool_use")
    BY DEF Kinds, ServerToolFrame
  <2> QED
    BY <2>1, FrameFacts
<1>2. round' = [round EXCEPT !.server = NewId] /\ answer' = answer
  BY DEF ServerToolFrame
<1>3. round' \in Rounds /\ round'.before = round.before /\ round'.pending = round.pending /\ round'.server = NewId
  BY <1>1, <1>2, RoundFields DEF Rounds
<1>4. NewId # 0
  BY <1>1 DEF NewId
<1>5. ConversationTypes'
  <2>1. round'.before <= Len(round'.pending)
    BY <1>3, RoundFields
  <2> QED
    BY <1>1, <1>2, <1>3, <2>1 DEF ConversationTypes
<1> QED
  BY <1>1, <1>3, <1>4, <1>5 DEF TextAtEnd, InTail

\* The ends of a round.
LEMMA NewRoundFacts ==
    /\ NewRound \in Rounds /\ NewRound.before = 0 /\ NewRound.pending = <<>> /\ NewRound.text = <<>>
    /\ NewRound.before <= Len(NewRound.pending)
<1>1. <<>> \in Seq(Nat) /\ Len(<<>>) = 0
  OBVIOUS
<1> QED
  BY <1>1 DEF NewRound, Rounds

LEMMA OverFacts ==
    ASSUME ConversationTypes, Over, msgs' \in Seq(Given), log' \in Seq(Remembered)
    PROVE  ConversationInv'
<1>1. pc' = "client" /\ stream' = TRUE /\ asked' = 0 /\ answer' = <<>> /\ loop' = <<>> /\ round' = NewRound
  BY DEF Over
<1>2. <<>> \in Seq(Given) /\ <<>> \in Seq(AnswerBlocks) /\ Len(log') \in Nat
  BY LenProperties
<1>3. ConversationTypes'
  BY <1>1, <1>2, NewRoundFacts DEF ConversationTypes
<1> QED
  BY <1>1, <1>3, NewRoundFacts DEF ConversationInv, Idle, TextAtEnd

LEMMA DeliverFacts ==
    ASSUME ConversationTypes, NEW blocks \in Seq(AnswerBlocks), Deliver(blocks)
    PROVE  ConversationInv' /\ msgs' = Append(msgs, Message("assistant", blocks)) /\ Last(msgs') = Message("assistant", blocks)
<1>1. msgs' = Append(msgs, Message("assistant", blocks)) /\ Over /\ log' = log
  BY DEF Deliver
<1>2. Message("assistant", blocks) \in Given /\ msgs \in Seq(Given) /\ log \in Seq(Remembered)
  BY AnswerTypes DEF ConversationTypes
<1>3. msgs' \in Seq(Given) /\ msgs' # <<>> /\ Len(msgs') = Len(msgs) + 1 /\ msgs'[Len(msgs) + 1] = Message("assistant", blocks)
  BY <1>1, <1>2, AppendProperties
<1>4. Last(msgs') = msgs'[Len(msgs')]
  BY <1>3, LastIs
<1> QED
  BY <1>1, <1>2, <1>3, <1>4, OverFacts

LEMMA AnsweredTypes ==
    ASSUME ConversationTypes, Answered
    PROVE  ConversationInv'
<1> DEFINE blocks == IF stream THEN Finish(answer, round) ELSE answer \o Content(round)
<1>1. answer \in Seq(AnswerBlocks) /\ round \in Rounds /\ round.before <= Len(round.pending)
  BY DEF ConversationTypes
<1>2. blocks \in Seq(AnswerBlocks)
  BY <1>1, FinishType, ContentType, ConcatProperties
<1>3. Deliver(blocks)
  BY DEF Answered
<1> HIDE DEF blocks
<1> QED
  BY <1>2, <1>3, DeliverFacts

LEMMA FailedTypes ==
    ASSUME ConversationTypes, Failed
    PROVE  ConversationInv'
<1>1. Over /\ log' = SubSeq(log, 1, asked) /\ msgs' = msgs
  BY DEF Failed
<1>2. log' \in Seq(Remembered) /\ msgs' \in Seq(Given)
  BY <1>1, PrefixType DEF ConversationTypes
<1> QED
  BY <1>1, <1>2, OverFacts

LEMMA ServerToolTypes ==
    ASSUME ConversationTypes, ServerTool
    PROVE  ConversationInv'
<1>1. PICK result \in {"tool_search_tool_result", "advisor_tool_result"} :
          LET shown == Shown(round, result) IN
          \/ /\ round.calls = <<>> /\ used < MaxRounds /\ Room(1)
             /\ loop' = loop \o ServerRound(round)
             /\ answer' = shown /\ used' = used + 1 /\ round' = NewRound
             /\ UNCHANGED <<clientVars, pc, stream, log, asked>>
          \/ /\ round.calls # <<>> \/ used = MaxRounds
             /\ Deliver(IF stream THEN Finish(shown, Released) ELSE shown)
  BY DEF ServerTool
<1>2. Shown(round, result) \in Seq(AnswerBlocks)
  BY ShownType
<1>3. CASE /\ loop' = loop \o ServerRound(round)
           /\ answer' = Shown(round, result) /\ round' = NewRound
           /\ UNCHANGED <<clientVars, pc, stream, log, asked>>
  <2>1. ServerRound(round) \in Seq(Given)
    <3> DEFINE said == Blobs(round.redacted) \o Blocks("server_tool_use", <<round.server>>)
               res == Blocks("tool_result", <<round.server>>)
    <3>1. "server_tool_use" \in Kinds \ {"tool_result"} /\ "tool_result" \in Kinds /\ <<round.server>> \in Seq(Nat) /\ <<round.server>> # <<>>
      <4>1. round.server \in Nat
        BY RoundFields
      <4> QED
        BY <4>1 DEF Kinds
    <3>2. Blobs(round.redacted) \in Seq(AnswerBlocks)
      BY ContentType DEF ConversationTypes
    <3>3. said \in Seq(AnswerBlocks)
      BY <3>1, <3>2, LastBlock
    <3>4. res \in Seq(ContentBlocks)
      BY <3>1, BlocksFacts
    <3> HIDE DEF said, res
    <3>5. Message("assistant", said) \in Given /\ Message("user", res) \in Given
      BY <3>3, <3>4, AnswerTypes, UserTypes
    <3>6. ServerRound(round) = <<Message("assistant", said), Message("user", res)>>
      BY DEF ServerRound, said, res
    <3> QED
      BY <3>5, <3>6
  <2>2. loop' \in Seq(Given)
    BY <1>3, <2>1, ConcatProperties DEF ConversationTypes
  <2>3. ConversationTypes'
    BY <1>2, <1>3, <2>2, NewRoundFacts DEF ConversationTypes, clientVars
  <2> QED
    BY <1>3, <2>3, NewRoundFacts DEF ConversationInv, Idle, TextAtEnd
<1>4. CASE Deliver(IF stream THEN Finish(Shown(round, result), Released) ELSE Shown(round, result))
  <2>1. Released \in Rounds /\ Released.before <= Len(Released.pending)
    <3>1. round \in Rounds /\ <<>> \in Seq(Nat) /\ Len(<<>>) = 0
      BY DEF ConversationTypes
    <3>2. Released \in Rounds /\ Released.before = 0 /\ Released.pending = <<>>
      BY <3>1 DEF Released, Rounds
    <3> QED
      BY <3>1, <3>2
  <2>2. Finish(Shown(round, result), Released) \in Seq(AnswerBlocks)
    BY <1>2, <2>1, FinishType
  <2> QED
    BY <1>2, <1>4, <2>2, DeliverFacts
<1> QED
  BY <1>1, <1>3, <1>4

LEMMA ConversationInit == Init => ConversationInv
<1> SUFFICES ASSUME Init PROVE ConversationInv
  OBVIOUS
<1>1. <<>> \in Seq(Given) /\ <<>> \in Seq(AnswerBlocks) /\ <<>> \in Seq(Remembered) /\ Len(<<>>) = 0
  OBVIOUS
<1>2. ConversationTypes
  BY <1>1, NewRoundFacts DEF Init, ConversationTypes
<1> QED
  BY <1>2, NewRoundFacts DEF Init, ConversationInv, Idle, TextAtEnd

LEMMA ConversationStep == ConversationInv /\ [Next]_vars => ConversationInv'
<1> SUFFICES ASSUME ConversationInv, [Next]_vars PROVE ConversationInv'
  OBVIOUS
<1>0. ConversationTypes /\ Idle /\ TextAtEnd
  BY DEF ConversationInv
<1>1. ASSUME pc = "client", Ask \/ Answer \/ Forget \/ Send PROVE ConversationInv'
  <2>1. round = NewRound
    BY <1>0, <1>1 DEF Idle
  <2>2. ConversationTypes' /\ round' = round
    BY <1>0, <1>1, AskTypes, AnswerStepTypes, ForgetTypes, SendTypes
  <2> QED
    BY <2>1, <2>2, NewRoundFacts DEF ConversationInv, Idle, TextAtEnd
<1>2. Ask \/ Answer \/ Forget \/ Send => pc = "client"
  BY DEF Ask, Answer, Forget, Send, Turn
<1>3. ASSUME TextFrame \/ HeldFrame \/ BlobFrame \/ CallFrame \/ ServerToolFrame PROVE ConversationInv'
  <2>1. ConversationTypes' /\ TextAtEnd' /\ pc' = "model"
    BY <1>0, <1>3, TextFrameTypes, HeldFrameTypes, BlobFrameTypes, CallFrameTypes, ServerToolFrameTypes
  <2> QED
    BY <2>1 DEF ConversationInv, Idle
<1>4. ASSUME Answered \/ Failed \/ ServerTool PROVE ConversationInv'
  BY <1>0, <1>4, AnsweredTypes, FailedTypes, ServerToolTypes
<1>5. ASSUME UNCHANGED vars PROVE ConversationInv'
  BY <1>5 DEF vars, ConversationInv, ConversationTypes, Idle, TextAtEnd, InTail
<1> QED
  BY <1>1, <1>2, <1>3, <1>4, <1>5 DEF Next

\* In every conversation the messages, the answer and the round are of their
\* types, results are the user's or a server tool's, and a text ends what has
\* been written of an answer unless a call or a server tool's has come.
THEOREM ConversationInvariance == Spec => []ConversationInv
  BY ConversationInit, ConversationStep, PTL DEF Spec

LEMMA RequestType == ConversationInv => Request \in Seq(Given)
  BY ConcatProperties DEF ConversationInv, ConversationTypes, Request

\* Every payload of a conversation has user and assistant in turn, for any number
\* of messages and rounds, however much the client has dropped.
THEOREM ConversationTurnsAlternate == Spec => []TurnsAlternate
<1>1. ConversationInv => TurnsAlternate
  <2> SUFFICES ASSUME ConversationInv PROVE TurnsAlternate
    OBVIOUS
  <2>1. \A hasTools \in BOOLEAN : Alternate(PayloadOf(Request, hasTools))
    BY RequestType, PayloadAlternates
  <2>2. \A hasTools : Entries(hasTools) = PayloadOf(Request, hasTools)
    BY DEF Entries, PayloadOf
  <2>3. \A hasTools \in BOOLEAN : Alternate(Entries(hasTools))
    BY <2>1, <2>2
  <2> QED
    BY <2>3 DEF TurnsAlternate, Alternate
<1> QED
  BY <1>1, ConversationInvariance, PTL

\* In every payload of a conversation a result stands behind its call, in the
\* calls' order.
THEOREM ConversationResultsFollowCalls == Spec => []ResultsFollowCalls
<1>1. ConversationInv => ResultsFollowCalls
  <2> SUFFICES ASSUME ConversationInv PROVE ResultsFollowCalls
    OBVIOUS
  <2>1. \A hasTools \in BOOLEAN : LET e == PayloadOf(Request, hasTools)
            IN ResultsInPlace(e) /\ (~hasTools => \A i \in DOMAIN e : e[i].calls = <<>> /\ e[i].results = <<>>)
    BY RequestType, PayloadResultsInPlace
  <2>2. \A hasTools : Entries(hasTools) = PayloadOf(Request, hasTools)
    BY DEF Entries, PayloadOf
  <2>3. ResultsInPlace(Entries(TRUE)) /\ \A i \in DOMAIN Entries(FALSE) : Entries(FALSE)[i].calls = <<>> /\ Entries(FALSE)[i].results = <<>>
    BY <2>1, <2>2
  <2> QED
    BY <2>3 DEF ResultsFollowCalls, ResultsInPlace, Among
<1> QED
  BY <1>1, ConversationInvariance, PTL

\* An answer of text without calls ends with its text, streamed or not, however
\* many blobs came before, behind or in the middle of it.
THEOREM ConversationTextEndsAnswer == Spec => TextEndsAnswer
<1> DEFINE TextLast == pc = "model" /\ ~InTail /\ round.calls = <<>> /\ HasText(round) /\ msgs' # msgs
                         => Last(Last(msgs').blocks).kind = "text"
<1>1. ConversationInv /\ [Next]_vars => [TextLast]_vars
  <2> SUFFICES ASSUME ConversationInv, Next, pc = "model", ~InTail, round.calls = <<>>, HasText(round), msgs' # msgs
               PROVE  Last(Last(msgs').blocks).kind = "text"
    OBVIOUS
  <2>1. Answered
    <3>1. ~(Ask \/ Answer \/ Forget \/ Send)
      BY DEF Ask, Answer, Forget, Send, Turn
    <3>2. ~(TextFrame \/ HeldFrame \/ BlobFrame \/ CallFrame \/ ServerToolFrame)
      BY DEF TextFrame, HeldFrame, BlobFrame, CallFrame, ServerToolFrame, Frame, clientVars
    <3>3. ~Failed /\ ~ServerTool
      BY DEF Failed, ServerTool
    <3> QED
      BY <3>1, <3>2, <3>3 DEF Next
  <2> DEFINE blocks == IF stream THEN Finish(answer, round) ELSE answer \o Content(round)
  <2>2. ConversationTypes /\ TextAtEnd /\ answer \in Seq(AnswerBlocks) /\ round \in Rounds /\ round.before <= Len(round.pending)
    BY DEF ConversationInv, ConversationTypes
  <2>3. blocks \in Seq(AnswerBlocks)
    BY <2>2, FinishType, ContentType, ConcatProperties
  <2>4. Deliver(blocks)
    BY <2>1 DEF Answered
  <2>5. Last(msgs') = Message("assistant", blocks)
    <3> HIDE DEF blocks
    <3> QED
      BY <2>2, <2>3, <2>4, DeliverFacts
  <2>6. "text" \in Kinds \ {"tool_result"} /\ "redacted_thinking" \in Kinds
    BY DEF Kinds
  <2>7. round.held \in Seq(Nat) /\ round.text \in Seq(Nat)
    BY <2>2, RoundFields
  <2>8. CASE stream /\ round.held # <<>>
    <3> DEFINE kept == SubSeq(round.pending, 1, round.before)
    <3>1. kept \in Seq(Nat)
      BY <2>2, RoundFields, PrefixType
    <3>2. blocks = (answer \o Blobs(kept)) \o Texts(round.held)
      BY <2>8 DEF Finish
    <3> HIDE DEF kept, blocks
    <3>3. Blobs(kept) \in Seq(AnswerBlocks)
      BY <2>6, <3>1, BlocksFacts DEF Blobs, Kinds
    <3>4. answer \o Blobs(kept) \in Seq(AnswerBlocks)
      BY <2>2, <3>3, ConcatProperties
    <3>5. Last(blocks).kind = "text"
      BY <2>6, <2>7, <2>8, <3>2, <3>4, LastBlock DEF Texts
    <3> QED
      BY <2>5, <3>5 DEF Message
  <2>9. CASE stream /\ round.held = <<>>
    <3>1. round.text # <<>>
      BY <2>9 DEF HasText
    <3>2. answer # <<>> /\ Last(answer).kind = "text"
      BY <2>2, <2>9, <3>1 DEF TextAtEnd
    <3>3. blocks = (answer \o Blobs(<<>>)) \o Texts(<<>>)
      <4>1. SubSeq(round.pending, 1, 0) = <<>>
        BY SubSeqEmpty
      <4> QED
        BY <2>9, <4>1 DEF Finish
    <3>4. Blobs(<<>>) = <<>> /\ Texts(<<>>) = <<>>
      BY DEF Blobs, Texts, Blocks
    <3> HIDE DEF blocks
    <3>5. answer \o <<>> = answer
      BY <2>2, ConcatEmptySeq
    <3>6. blocks = answer
      BY <3>3, <3>4, <3>5
    <3> QED
      BY <2>5, <3>2, <3>6 DEF Message
  <2>10. CASE ~stream
    <3> DEFINE text == round.text \o round.held
               front == Blobs(round.redacted)
    <3>1. text \in Seq(Nat) /\ text # <<>>
      <4>1. round.text = <<>> \/ round.held # <<>> => text # <<>>
        <5>1. round.held # <<>> => text # <<>>
          BY <2>7, LastOfConcat
        <5>2. round.text = <<>> => text = round.held
          BY <2>7, ConcatEmptySeq
        <5> QED
          BY <5>1, <5>2 DEF HasText
      <4>2. round.held = <<>> => text = round.text
        BY <2>7, ConcatEmptySeq
      <4> QED
        BY <2>7, <4>1, <4>2, ConcatProperties DEF HasText
    <3>2. front \in Seq(AnswerBlocks)
      BY <2>2, ContentType
    <3>3. Content(round) = (front \o Texts(text)) \o Blocks("tool_use", <<>>)
      BY DEF Content
    <3>4. Blocks("tool_use", <<>>) = <<>>
      BY DEF Blocks
    <3> HIDE DEF text, front
    <3>5. front \o Texts(text) \in Seq(AnswerBlocks) /\ front \o Texts(text) # <<>> /\ Last(front \o Texts(text)).kind = "text"
      BY <2>6, <3>1, <3>2, LastBlock DEF Texts
    <3>6. Content(round) = front \o Texts(text)
      BY <3>3, <3>4, <3>5, ConcatEmptySeq
    <3>7. Last(answer \o Content(round)).kind = "text"
      <4> DEFINE c == front \o Texts(text)
      <4>1. c \in Seq(AnswerBlocks) /\ c # <<>> /\ Last(c).kind = "text" /\ Content(round) = c
        BY <3>5, <3>6
      <4> HIDE DEF c
      <4>2. Last(answer \o c) = Last(c)
        BY <2>2, <4>1, LastOfConcat
      <4> QED
        BY <4>1, <4>2
    <3> QED
      BY <2>5, <2>10, <3>7 DEF Message
  <2> QED
    BY <2>8, <2>9, <2>10
<1> QED
  BY <1>1, ConversationInvariance, PTL DEF Spec, TextEndsAnswer

-----------------------------------------------------------------------------
(***************************************************************************)
(* Calls and their answers.  The passes keep each call that is answered in *)
(* the next message so; "open" are the calls that need not be.             *)
(***************************************************************************)
AnsweredNext(S, i, id) == i < Len(S) /\ S[i + 1].role = "user" /\ id \in ResultsOf(S[i + 1])

Replied(S, open) ==
    \A i \in DOMAIN S : \A id \in CallsOf(S[i]) :
        S[i].role = "assistant" /\ (id \in open \/ AnsweredNext(S, i, id))

LEMMA CarriedReplied ==
    ASSUME NEW S \in Seq(InRole), NEW T \in Seq(InRole), NEW at, Carried(S, Len(S), T, at),
           NEW open, Replied(S, open)
    PROVE  Replied(T, open)
<1>1. Len(S) \in Nat /\ DOMAIN S = 1..Len(S) /\ Len(T) \in Nat /\ DOMAIN T = 1..Len(T)
  BY LenProperties
<1>2. \A i \in 1..Len(S) : S[i] \in Messages
  BY <1>1, ElementOfSeq DEF InRole, Parted
<1>3. \A k \in 1..Len(T) : T[k] \in Messages
  BY <1>1, ElementOfSeq DEF InRole, Parted
<1>4. ASSUME NEW k \in 1..Len(T), NEW id \in CallsOf(T[k])
      PROVE  T[k].role = "assistant" /\ (id \in open \/ AnsweredNext(T, k, id))
  <2>1. ~IsPlainText(T[k])
    BY <1>3, <1>4, PlainFacts
  <2>2. PICK i \in 1..Len(S) : at[i] = k /\ ~IsPlainText(S[i])
    BY <2>1 DEF Carried
  <2>3. T[k] = S[i]
    BY <2>2 DEF Carried
  <2>4. S[i].role = "assistant" /\ (id \in open \/ AnsweredNext(S, i, id))
    BY <1>1, <1>4, <2>3 DEF Replied
  <2>5. ASSUME AnsweredNext(S, i, id) PROVE AnsweredNext(T, k, id)
    <3>1. i + 1 \in 1..Len(S) /\ S[i + 1].role = "user" /\ id \in ResultsOf(S[i + 1]) /\ i \in 1..(Len(S) - 1)
      BY <1>1, <2>5 DEF AnsweredNext
    <3>2. at[i + 1] = k + 1
      BY <2>2, <2>4, <3>1 DEF Carried
    <3>3. ~IsPlainText(S[i + 1])
      BY <1>2, <3>1, PlainFacts
    <3>4. T[k + 1] = S[i + 1] /\ at[i + 1] \in 1..Len(T)
      BY <3>1, <3>2, <3>3 DEF Carried
    <3> QED
      BY <1>1, <3>1, <3>2, <3>4 DEF AnsweredNext
  <2> QED
    BY <2>3, <2>4, <2>5
<1> QED
  BY <1>1, <1>4 DEF Replied

\* Textualizing orphaned results leaves those alone that answer a call.
LEMMA OrphansReplied ==
    ASSUME NEW ms \in Seq(Parted), NEW open, Replied(ms, open)
    PROVE  Replied(TextualizeOrphanToolResults(ms), open)
<1> DEFINE t == TextualizeOrphanToolResults(ms)
<1>0. Len(ms) \in Nat /\ DOMAIN ms = 1..Len(ms) /\ \A i \in DOMAIN ms : ms[i] \in Messages
  BY LenProperties, ElementOfSeq DEF Parted
<1>1. /\ t \in Seq(Parted) /\ DOMAIN t = DOMAIN ms
      /\ \A i \in DOMAIN ms :
            /\ t[i].role = ms[i].role
            /\ DOMAIN t[i].blocks = DOMAIN ms[i].blocks
            /\ \A j \in DOMAIN ms[i].blocks :
                  \/ t[i].blocks[j] = ms[i].blocks[j]
                  \/ /\ IsToolResult(ms[i].blocks[j]) /\ ms[i].blocks[j].id \notin CallsBefore(ms, i)
                     /\ t[i].blocks[j] = AsText(ms[i].blocks[j])
  BY OrphansFacts
<1> HIDE DEF t
<1>2. Len(t) = Len(ms)
  BY <1>0, <1>1, LenProperties
<1>3. ASSUME NEW i \in DOMAIN ms PROVE CallsOf(t[i]) \subseteq CallsOf(ms[i])
  <2>1. ASSUME NEW j \in DOMAIN t[i].blocks, IsToolUse(t[i].blocks[j])
        PROVE  j \in DOMAIN ms[i].blocks /\ t[i].blocks[j] = ms[i].blocks[j]
    <3>1. j \in DOMAIN ms[i].blocks /\ ms[i].blocks[j] \in ContentBlocks
      BY <1>0, <1>1, BlockOf
    <3>2. ~IsToolUse(AsText(ms[i].blocks[j]))
      BY <3>1, KindFacts
    <3> QED
      BY <2>1, <3>1, <3>2, <1>1
  <2> QED
    BY <2>1 DEF CallsOf
<1>4. ASSUME NEW i \in DOMAIN ms, NEW id \in ResultsOf(ms[i]), id \in CallsBefore(ms, i) PROVE id \in ResultsOf(t[i])
  <2>1. PICK j \in DOMAIN ms[i].blocks : IsToolResult(ms[i].blocks[j]) /\ ms[i].blocks[j].id = id
    BY <1>4 DEF ResultsOf
  <2>2. j \in DOMAIN t[i].blocks /\ t[i].blocks[j] = ms[i].blocks[j]
    BY <1>1, <1>4, <2>1
  <2> QED
    BY <2>1, <2>2 DEF ResultsOf
<1>5. ASSUME NEW i \in DOMAIN t, NEW id \in CallsOf(t[i])
      PROVE  t[i].role = "assistant" /\ (id \in open \/ AnsweredNext(t, i, id))
  <2>1. i \in DOMAIN ms /\ id \in CallsOf(ms[i]) /\ i \in Nat
    BY <1>0, <1>1, <1>3, <1>5
  <2>2. ms[i].role = "assistant" /\ (id \in open \/ AnsweredNext(ms, i, id))
    BY <2>1 DEF Replied
  <2>3. ASSUME AnsweredNext(ms, i, id) PROVE AnsweredNext(t, i, id)
    <3>1. i + 1 \in DOMAIN ms /\ ms[i + 1].role = "user" /\ id \in ResultsOf(ms[i + 1]) /\ i < Len(ms)
      BY <1>0, <2>1, <2>3 DEF AnsweredNext
    <3>2. id \in CallsBefore(ms, i + 1)
      <4>1. Range(ToolUseIds(ms[i])) = CallsOf(ms[i])
        BY <1>0, <2>1, CallsAreSelected
      <4>2. (i + 1) - 1 = i /\ i + 1 > 1
        BY <1>0, <2>1
      <4> QED
        BY <2>1, <2>2, <4>1, <4>2 DEF CallsBefore
    <3>3. id \in ResultsOf(t[i + 1])
      BY <3>1, <3>2, <1>4
    <3> QED
      BY <1>1, <1>2, <3>1, <3>3 DEF AnsweredNext
  <2> QED
    BY <1>1, <2>1, <2>2, <2>3
<1> QED
  BY <1>5 DEF Replied, t

LEMMA RolesReplied ==
    ASSUME NEW ms \in Seq(Parted), NEW open, Replied(ms, open)
    PROVE  Replied(NormalizeRoles(ms), open)
<1> DEFINE t == NormalizeRoles(ms)
<1>1. /\ t \in Seq(InRole) /\ DOMAIN t = DOMAIN ms
      /\ \A i \in DOMAIN ms : t[i].blocks = ms[i].blocks /\ (t[i].role = "assistant" <=> ms[i].role = "assistant")
  BY RolesFacts
<1> HIDE DEF t
<1>2. \A i \in DOMAIN t : ms[i].role = "user" => t[i].role = "user"
  <2>1. \A i \in DOMAIN t : t[i] \in InRole
    BY <1>1, LenProperties, ElementOfSeq
  <2> QED
    BY <1>1, <2>1 DEF InRole
<1>3. Len(t) = Len(ms) /\ Len(ms) \in Nat /\ DOMAIN ms = 1..Len(ms)
  BY <1>1, LenProperties
<1>4. \A i \in DOMAIN ms : CallsOf(t[i]) = CallsOf(ms[i]) /\ ResultsOf(t[i]) = ResultsOf(ms[i])
  BY <1>1 DEF CallsOf, ResultsOf
<1>5. ASSUME NEW i \in DOMAIN ms, NEW id, AnsweredNext(ms, i, id) PROVE AnsweredNext(t, i, id)
  <2>1. i + 1 \in DOMAIN ms /\ ms[i + 1].role = "user" /\ id \in ResultsOf(ms[i + 1]) /\ i < Len(ms)
    BY <1>3, <1>5 DEF AnsweredNext
  <2> QED
    BY <2>1, <1>1, <1>2, <1>3, <1>4 DEF AnsweredNext
<1> QED
  BY <1>1, <1>4, <1>5 DEF Replied, t

-----------------------------------------------------------------------------
(***************************************************************************)
(* Messages as the client has them.  A call in some blocks is open, or a   *)
(* server tool's result is right behind it, or no such result is behind it *)
(* and it is answered later.                                               *)
(***************************************************************************)
NoResultBehind(B, j) == \A k \in DOMAIN B : k > j => ~IsServerToolResult(B[k])
PairedAt(B, j) == j + 1 \in DOMAIN B /\ IsServerToolResult(B[j + 1]) /\ B[j + 1].id = B[j].id

Provided(B, open, later) ==
    \A j \in DOMAIN B : IsToolUse(B[j]) =>
        \/ B[j].id \in open
        \/ PairedAt(B, j)
        \/ B[j].id \in later /\ NoResultBehind(B, j)

AccountedFor(m, open, later) == (CallsOf(m) # {} => m.role = "assistant") /\ Provided(m.blocks, open, later)
RepliesAfter(ms, i) == IF i < Len(ms) /\ ms[i + 1].role = "user" THEN ResultsOf(ms[i + 1]) ELSE {}
Accounted(ms, open) == \A i \in DOMAIN ms : AccountedFor(ms[i], open, RepliesAfter(ms, i))

\* Replies of a message to the one before it; and a sequence whose calls are
\* answered, those of its last message by what comes next ("later").
RepliesIn(m) == IF m.role = "user" THEN ResultsOf(m) ELSE {}
RepliedUnless(S, open, later) ==
    \A i \in DOMAIN S : \A id \in CallsOf(S[i]) :
        S[i].role = "assistant" /\ (id \in open \/ AnsweredNext(S, i, id) \/ (i = Len(S) /\ id \in later))

LEMMA RepliedConcat ==
    ASSUME NEW X, NEW S \in Seq(X), NEW T \in Seq(X), NEW open, NEW later, NEW last,
           RepliedUnless(S, open, later), RepliedUnless(T, open, last),
           later \subseteq open \cup (IF T = <<>> THEN {} ELSE RepliesIn(T[1]))
    PROVE  RepliedUnless(S \o T, open, last)
<1>1. PICK a \in Nat, b \in Nat : a = Len(S) /\ b = Len(T) /\ DOMAIN S = 1..a /\ DOMAIN T = 1..b /\ (T = <<>> <=> b = 0)
  BY LenProperties, EmptySeq
<1> DEFINE U == S \o T
<1>2. U \in Seq(X) /\ Len(U) = a + b /\ \A i \in 1..(a + b) : U[i] = IF i <= a THEN S[i] ELSE T[i - a]
  BY <1>1, ConcatProperties
<1> HIDE DEF U
<1>3. DOMAIN U = 1..(a + b)
  BY <1>1, <1>2, LenProperties
<1>4. ASSUME NEW i \in 1..(a + b), i <= a, NEW id \in CallsOf(U[i])
      PROVE  U[i].role = "assistant" /\ (id \in open \/ AnsweredNext(U, i, id))
  <2>1. U[i] = S[i] /\ i \in 1..a
    BY <1>2, <1>4
  <2>2. S[i].role = "assistant" /\ (id \in open \/ AnsweredNext(S, i, id) \/ (i = a /\ id \in later))
    BY <1>1, <1>4, <2>1 DEF RepliedUnless
  <2>3. ASSUME AnsweredNext(S, i, id) PROVE AnsweredNext(U, i, id)
    <3>1. i + 1 \in 1..(a + b) /\ i + 1 <= a /\ i < a + b
      BY <1>1, <1>4, <2>3 DEF AnsweredNext
    <3>2. U[i + 1] = S[i + 1]
      BY <3>1, <1>2
    <3> QED
      BY <2>3, <3>1, <3>2, <1>2 DEF AnsweredNext
  <2>4. ASSUME i = a, id \in later, id \notin open PROVE AnsweredNext(U, i, id)
    <3>1. b # 0 /\ T[1].role = "user" /\ id \in ResultsOf(T[1])
      BY <2>4, <1>1 DEF RepliesIn
    <3>2. i + 1 \in 1..(a + b) /\ ~(i + 1 <= a) /\ (i + 1) - a = 1 /\ i < a + b
      BY <2>4, <3>1
    <3>3. U[i + 1] = T[1]
      BY <3>2, <1>2
    <3> QED
      BY <3>1, <3>2, <3>3, <1>2 DEF AnsweredNext
  <2> QED
    BY <2>1, <2>2, <2>3, <2>4
<1>5. ASSUME NEW i \in 1..(a + b), ~(i <= a), NEW id \in CallsOf(U[i])
      PROVE  U[i].role = "assistant" /\ (id \in open \/ AnsweredNext(U, i, id) \/ (i = a + b /\ id \in last))
  <2>1. U[i] = T[i - a] /\ i - a \in 1..b
    BY <1>2, <1>5
  <2>2. T[i - a].role = "assistant" /\ (id \in open \/ AnsweredNext(T, i - a, id) \/ (i - a = b /\ id \in last))
    BY <1>1, <1>5, <2>1 DEF RepliedUnless
  <2>3. ASSUME AnsweredNext(T, i - a, id) PROVE AnsweredNext(U, i, id)
    <3>1. i + 1 \in 1..(a + b) /\ ~(i + 1 <= a) /\ (i + 1) - a = (i - a) + 1 /\ i < a + b
      BY <1>1, <1>5, <2>3 DEF AnsweredNext
    <3>2. U[i + 1] = T[(i - a) + 1]
      BY <3>1, <1>2
    <3> QED
      BY <2>3, <3>1, <3>2, <1>2 DEF AnsweredNext
  <2>4. i - a = b => i = a + b
    OBVIOUS
  <2> QED
    BY <2>1, <2>2, <2>3, <2>4
<1>6. ASSUME NEW i \in DOMAIN U, NEW id \in CallsOf(U[i])
      PROVE  U[i].role = "assistant" /\ (id \in open \/ AnsweredNext(U, i, id) \/ (i = Len(U) /\ id \in last))
  <2>1. i \in 1..(a + b)
    BY <1>3
  <2> QED
    BY <2>1, <1>2, <1>4, <1>5, <1>6
<1>7. RepliedUnless(U, open, last)
  BY <1>6 DEF RepliedUnless
<1> QED
  BY <1>7 DEF U

LEMMA RepliedOne ==
    ASSUME NEW m, NEW open, NEW later, CallsOf(m) # {} => m.role = "assistant", CallsOf(m) \subseteq open \cup later
    PROVE  RepliedUnless(<<m>>, open, later)
<1>1. DOMAIN <<m>> = {1} /\ Len(<<m>>) = 1 /\ <<m>>[1] = m
  OBVIOUS
<1> QED
  BY <1>1 DEF RepliedUnless

LEMMA AppendCalls ==
    ASSUME NEW B \in Seq(ContentBlocks), NEW b \in ContentBlocks, NEW role
    PROVE  /\ CallsOf(Message(role, Append(B, b))) = CallsOf(Message(role, B)) \cup (IF IsToolUse(b) THEN {b.id} ELSE {})
           /\ ResultsOf(Message(role, Append(B, b))) = ResultsOf(Message(role, B)) \cup (IF IsToolResult(b) THEN {b.id} ELSE {})
<1> DEFINE C == Append(B, b)
<1>1. PICK n \in Nat : n = Len(B) /\ DOMAIN B = 1..n
  BY LenProperties
<1>2. C \in Seq(ContentBlocks) /\ Len(C) = n + 1 /\ C[n + 1] = b /\ \A i \in 1..n : C[i] = B[i]
  BY <1>1, AppendProperties
<1> HIDE DEF C
<1>3. DOMAIN C = 1..(n + 1) /\ \A i \in 1..(n + 1) : i \in 1..n \/ i = n + 1
  BY <1>2, LenProperties
<1>4. n + 1 \in 1..(n + 1) /\ \A i \in 1..n : i \in 1..(n + 1)
  OBVIOUS
<1>5. \A role1, D : Message(role1, D).blocks = D
  BY DEF Message
<1>6. ASSUME NEW id PROVE id \in CallsOf(Message(role, C)) <=> id \in CallsOf(Message(role, B)) \/ (IsToolUse(b) /\ id = b.id)
  <2> DEFINE Is(x) == IsToolUse(x) /\ x.id = id
  <2>1. id \in CallsOf(Message(role, C)) <=> \E j \in 1..(n + 1) : Is(C[j])
    BY <1>3, <1>5 DEF CallsOf
  <2>2. id \in CallsOf(Message(role, B)) <=> \E j \in 1..n : Is(B[j])
    BY <1>1, <1>5 DEF CallsOf
  <2>3. Is(b) <=> IsToolUse(b) /\ id = b.id
    OBVIOUS
  <2> HIDE DEF Is
  <2>4. (\E j \in 1..(n + 1) : Is(C[j])) <=> (\E j \in 1..n : Is(B[j])) \/ Is(b)
    BY <1>2, <1>3, <1>4
  <2> QED
    BY <2>1, <2>2, <2>3, <2>4
<1>7. ASSUME NEW id PROVE id \in ResultsOf(Message(role, C)) <=> id \in ResultsOf(Message(role, B)) \/ (IsToolResult(b) /\ id = b.id)
  <2> DEFINE Is(x) == IsToolResult(x) /\ x.id = id
  <2>1. id \in ResultsOf(Message(role, C)) <=> \E j \in 1..(n + 1) : Is(C[j])
    BY <1>3, <1>5 DEF ResultsOf
  <2>2. id \in ResultsOf(Message(role, B)) <=> \E j \in 1..n : Is(B[j])
    BY <1>1, <1>5 DEF ResultsOf
  <2>3. Is(b) <=> IsToolResult(b) /\ id = b.id
    OBVIOUS
  <2> HIDE DEF Is
  <2>4. (\E j \in 1..(n + 1) : Is(C[j])) <=> (\E j \in 1..n : Is(B[j])) \/ Is(b)
    BY <1>2, <1>3, <1>4
  <2> QED
    BY <2>1, <2>2, <2>3, <2>4
<1>8. \A id : id \in CallsOf(Message(role, C)) <=> id \in CallsOf(Message(role, B)) \cup (IF IsToolUse(b) THEN {b.id} ELSE {})
  BY <1>6
<1>9. \A id : id \in ResultsOf(Message(role, C)) <=> id \in ResultsOf(Message(role, B)) \cup (IF IsToolResult(b) THEN {b.id} ELSE {})
  BY <1>7
<1> QED
  BY <1>8, <1>9 DEF C

\* What the fold over the blocks of an answer keeps: what has been flushed is
\* answered, and so is the segment begun, once its results are there.
CallsIn(B)   == CallsOf(Message("assistant", B))
ResultsIn(B) == ResultsOf(Message("user", B))
ResultsOnly(B) == \A j \in DOMAIN B : B[j].kind = "tool_result"

Segmented(s, B, n, open, later) ==
    /\ s \in SegmentStates
    /\ RepliedUnless(s.out, open, {})
    /\ ResultsOnly(s.results)
    /\ \A id \in CallsIn(s.assistant) :
          \/ id \in open
          \/ s.results # <<>> /\ id \in ResultsIn(s.results)
          \/ s.results = <<>> /\ n \in DOMAIN B /\ B[n].id = id /\ PairedAt(B, n)
          \/ s.results = <<>> /\ id \in later /\ NoResultBehind(B, n)

LEMMA CallsOfSegment ==
    /\ \A role : CallsOf(Message(role, <<>>)) = {}
    /\ \A B : ResultsOnly(B) => CallsOf(Message("user", B)) = {}
    /\ \A role, B : CallsOf(Message(role, B)) = CallsIn(B) /\ Message(role, B).role = role
    /\ \A B : RepliesIn(Message("user", B)) = ResultsIn(B)
<1>1. \A role, B : CallsOf(Message(role, B)) = {B[j].id : j \in {k \in DOMAIN B : IsToolUse(B[k])}} /\ Message(role, B).role = role
  BY DEF CallsOf, Message
<1>2. DOMAIN <<>> = {}
  OBVIOUS
<1>3. \A B : ResultsOnly(B) => {k \in DOMAIN B : IsToolUse(B[k])} = {}
  BY DEF ResultsOnly, IsToolUse
<1>4. \A role : CallsOf(Message(role, <<>>)) = {}
  BY <1>1, <1>2
<1>5. \A B : ResultsOnly(B) => CallsOf(Message("user", B)) = {}
  BY <1>1, <1>3
<1>6. \A role, B : CallsOf(Message(role, B)) = CallsIn(B) /\ Message(role, B).role = role
  BY <1>1 DEF CallsIn
<1>7. \A B : RepliesIn(Message("user", B)) = ResultsIn(B)
  BY <1>1 DEF RepliesIn, ResultsIn
<1> QED
  BY <1>4, <1>5, <1>6, <1>7

LEMMA RepliedEmpty == \A open, later : RepliedUnless(<<>>, open, later)
  BY DEF RepliedUnless

LEMMA FlushReplied ==
    ASSUME NEW s \in SegmentStates, NEW open, NEW later, RepliedUnless(s.out, open, {}), ResultsOnly(s.results),
           CallsIn(s.assistant) \subseteq open \cup (IF s.results = <<>> THEN later ELSE ResultsIn(s.results))
    PROVE  RepliedUnless(FlushSegments(s).out, open, later)
<1> DEFINE spoken == NonEmpty("assistant", s.assistant)
           results == NonEmpty("user", s.results)
           first == IF s.results = <<>> THEN later ELSE ResultsIn(s.results)
<1>1. s.out \in Seq(Parted) /\ spoken \in Seq(Parted) /\ results \in Seq(Parted) /\ s.out \o spoken \in Seq(Parted)
  <2>1. s.out \in Seq(Parted) /\ s.assistant \in Seq(Spoken) /\ s.results \in Seq(ContentBlocks)
    BY DEF SegmentStates
  <2>2. <<>> \in Seq(Parted) /\ \A m \in Parted : <<m>> \in Seq(Parted)
    OBVIOUS
  <2>3. spoken \in Seq(Parted) /\ results \in Seq(Parted)
    BY <2>1, <2>2, MessageTypes DEF NonEmpty
  <2> HIDE DEF spoken, results
  <2> QED
    BY <2>1, <2>3, ConcatProperties
<1>2. FlushSegments(s).out = (s.out \o spoken) \o results
  BY DEF FlushSegments, Segments
<1>3. RepliedUnless(spoken, open, first)
  <2>1. CASE s.assistant = <<>>
    BY <2>1, RepliedEmpty DEF NonEmpty
  <2>2. CASE s.assistant # <<>>
    <3> DEFINE m == Message("assistant", s.assistant)
    <3>1. m.role = "assistant" /\ CallsOf(m) \subseteq open \cup first
      BY CallsOfSegment
    <3>2. spoken = <<m>>
      BY <2>2 DEF NonEmpty
    <3> HIDE DEF m, spoken, first
    <3> QED
      BY <3>1, <3>2, RepliedOne
  <2> QED
    BY <2>1, <2>2
<1> HIDE DEF spoken
<1>4. RepliedUnless(s.out \o spoken, open, first)
  <2>1. {} \subseteq open \cup (IF spoken = <<>> THEN {} ELSE RepliesIn(spoken[1]))
    OBVIOUS
  <2> HIDE DEF first
  <2> QED
    BY <1>1, <1>3, <2>1, RepliedConcat
<1>5. CASE s.results = <<>>
  <2>1. results = <<>> /\ first = later
    BY <1>5 DEF NonEmpty
  <2>2. (s.out \o spoken) \o <<>> = s.out \o spoken
    BY <1>1, ConcatEmptySeq
  <2> QED
    BY <1>2, <1>4, <2>1, <2>2
<1>6. CASE s.results # <<>>
  <2> DEFINE m == Message("user", s.results)
  <2>1. results = <<m>> /\ first = ResultsIn(s.results)
    BY <1>6 DEF NonEmpty
  <2>2. CallsOf(m) = {} /\ RepliesIn(m) = ResultsIn(s.results)
    BY CallsOfSegment
  <2> HIDE DEF m, results, first
  <2>3. RepliedUnless(results, open, later)
    BY <2>1, <2>2, RepliedOne
  <2>4. first \subseteq open \cup (IF results = <<>> THEN {} ELSE RepliesIn(results[1]))
    <3>1. results # <<>> /\ results[1] = m
      BY <2>1
    <3> QED
      BY <2>1, <2>2, <3>1
  <2> QED
    BY <1>1, <1>2, <1>4, <2>3, <2>4, RepliedConcat
<1> QED
  BY <1>5, <1>6

LEMMA AddBlockReplied ==
    ASSUME NEW B \in Seq(ContentBlocks), NEW n \in Nat, n + 1 \in DOMAIN B, B[n + 1].kind # "tool_result",
           NEW open, NEW later, Provided(B, open, later), NEW s, Segmented(s, B, n, open, later)
    PROVE  Segmented(AddBlock(s, B[n + 1]), B, n + 1, open, later)
<1> DEFINE b == B[n + 1]
           t == AddBlock(s, b)
<1>1. b \in ContentBlocks /\ b.kind # "tool_result" /\ DOMAIN B = 1..Len(B) /\ Len(B) \in Nat
  BY ElementOfSeq, LenProperties
<1>2. s \in SegmentStates /\ t \in SegmentStates
  BY <1>1, AddBlockType DEF Segmented
<1>3. s.out \in Seq(Parted) /\ s.assistant \in Seq(ContentBlocks) /\ s.results \in Seq(ContentBlocks)
  <2>1. Spoken \subseteq ContentBlocks
    BY DEF Spoken
  <2> QED
    BY <1>2, <2>1, SeqMonotonic DEF SegmentStates
<1>4. NoResultBehind(B, n) => NoResultBehind(B, n + 1) /\ ~IsServerToolResult(b)
  <2>1. \A k \in DOMAIN B : k > n + 1 => k > n
    BY <1>1
  <2>2. n + 1 > n
    OBVIOUS
  <2> QED
    BY <2>1, <2>2 DEF NoResultBehind
<1>5. CASE IsServerToolResult(b)
  <2> DEFINE r == [b EXCEPT !.kind = "tool_result"]
  <2>1. t.out = s.out /\ t.assistant = s.assistant /\ t.results = Append(s.results, r)
    BY <1>2, <1>5 DEF AddBlock, SegmentStates
  <2>2. r \in ContentBlocks /\ r.kind = "tool_result" /\ r.id = b.id /\ IsToolResult(r)
    BY <1>1, KindFacts DEF IsToolResult, ContentBlocks
  <2> HIDE DEF r, t
  <2>3. t.results # <<>> /\ ResultsOnly(t.results) /\ ResultsIn(t.results) = ResultsIn(s.results) \cup {b.id}
    <3>1. Len(s.results) \in Nat /\ DOMAIN s.results = 1..Len(s.results)
      BY <1>3, LenProperties
    <3>2. /\ t.results # <<>> /\ Len(t.results) = Len(s.results) + 1 /\ t.results[Len(s.results) + 1] = r
          /\ \A i \in 1..Len(s.results) : t.results[i] = s.results[i]
          /\ DOMAIN t.results = 1..(Len(s.results) + 1)
      <4> DEFINE R == Append(s.results, r)
      <4>1. R \in Seq(ContentBlocks) /\ R # <<>> /\ Len(R) = Len(s.results) + 1 /\ R[Len(s.results) + 1] = r
            /\ \A i \in 1..Len(s.results) : R[i] = s.results[i]
        BY <1>3, <2>2, AppendProperties
      <4>2. t.results = R
        BY <2>1
      <4> HIDE DEF R
      <4>3. DOMAIN R = 1..(Len(s.results) + 1)
        BY <4>1, LenProperties
      <4> QED
        BY <4>1, <4>2, <4>3
    <3>3. ResultsOnly(t.results)
      <4>1. \A i \in 1..(Len(s.results) + 1) : i \in 1..Len(s.results) \/ i = Len(s.results) + 1
        BY <3>1
      <4> QED
        BY <2>2, <3>1, <3>2, <4>1 DEF ResultsOnly, Segmented
    <3>4. ResultsIn(t.results) = ResultsIn(s.results) \cup {b.id}
      BY <1>3, <2>1, <2>2, AppendCalls DEF ResultsIn
    <3> QED
      BY <3>2, <3>3, <3>4
  <2>4. ASSUME NEW id \in CallsIn(t.assistant) PROVE id \in open \/ id \in ResultsIn(t.results)
    <3>1. \/ id \in open
          \/ id \in ResultsIn(s.results)
          \/ n \in DOMAIN B /\ B[n].id = id /\ PairedAt(B, n)
          \/ NoResultBehind(B, n)
      BY <2>1, <2>4 DEF Segmented
    <3> QED
      BY <3>1, <1>4, <1>5, <2>3 DEF PairedAt
  <2>5. RepliedUnless(t.out, open, {})
    BY <2>1 DEF Segmented
  <2>6. Segmented(t, B, n + 1, open, later)
    BY <1>2, <2>3, <2>4, <2>5 DEF Segmented
  <2> QED
    BY <2>6 DEF t
<1>6. CASE ~IsServerToolResult(b)
  <2> DEFINE u == IF s.results = <<>> THEN s ELSE FlushSegments(s)
  <2>1. u \in SegmentStates /\ u.results = <<>> /\ RepliedUnless(u.out, open, {})
    <3>1. CASE s.results = <<>>
      BY <3>1, <1>2 DEF Segmented
    <3>2. CASE s.results # <<>>
      <4>1. CallsIn(s.assistant) \subseteq open \cup ResultsIn(s.results)
        BY <3>2 DEF Segmented
      <4>2. RepliedUnless(FlushSegments(s).out, open, {})
        BY <1>2, <3>2, <4>1, FlushReplied DEF Segmented
      <4>3. FlushSegments(s).results = <<>>
        BY DEF FlushSegments, Segments
      <4> QED
        BY <1>2, <3>2, <4>2, <4>3, FlushType
    <3> QED
      BY <3>1, <3>2
  <2>2. ASSUME NEW id \in CallsIn(u.assistant) PROVE id \in open \/ (id \in later /\ NoResultBehind(B, n))
    <3>1. CASE s.results = <<>>
      BY <2>2, <3>1, <1>6 DEF Segmented, PairedAt
    <3>2. CASE s.results # <<>>
      <4>1. u.assistant = <<>>
        BY <3>2 DEF FlushSegments, Segments
      <4> QED
        BY <2>2, <4>1, CallsOfSegment DEF CallsIn
    <3> QED
      BY <3>1, <3>2
  <2>3. t = [u EXCEPT !.assistant = Append(@, b)]
    BY <1>6 DEF AddBlock
  <2> HIDE DEF u, t, b
  <2>4. t.out = u.out /\ t.results = <<>> /\ t.assistant = Append(u.assistant, b)
    BY <2>1, <2>3 DEF SegmentStates
  <2>5. u.assistant \in Seq(ContentBlocks)
    <3>1. Spoken \subseteq ContentBlocks
      BY DEF Spoken
    <3> QED
      BY <2>1, <3>1, SeqMonotonic DEF SegmentStates
  <2>6. CallsIn(t.assistant) = CallsIn(u.assistant) \cup (IF IsToolUse(b) THEN {b.id} ELSE {})
    BY <1>1, <2>4, <2>5, AppendCalls DEF CallsIn
  <2>7. IsToolUse(b) => b.id \in open \/ PairedAt(B, n + 1) \/ (b.id \in later /\ NoResultBehind(B, n + 1))
    BY DEF Provided, b
  <2>8. ASSUME NEW id \in CallsIn(t.assistant)
        PROVE  \/ id \in open
               \/ B[n + 1].id = id /\ PairedAt(B, n + 1)
               \/ id \in later /\ NoResultBehind(B, n + 1)
    <3>1. CASE id \in CallsIn(u.assistant)
      BY <3>1, <2>2, <1>4
    <3>2. CASE IsToolUse(b) /\ id = b.id
      BY <3>2, <2>7 DEF b
    <3> QED
      BY <3>1, <3>2, <2>6, <2>8
  <2>9. ResultsOnly(<<>>)
    BY DEF ResultsOnly
  <2>10. RepliedUnless(t.out, open, {}) /\ ResultsOnly(t.results) /\ t.results = <<>>
    BY <2>1, <2>4, <2>9
  <2>11. t \in SegmentStates /\ n + 1 \in DOMAIN B
    BY <1>2 DEF t, b
  <2>12. Segmented(t, B, n + 1, open, later)
    BY <2>8, <2>10, <2>11 DEF Segmented
  <2> QED
    BY <2>12 DEF t, b
<1> QED
  BY <1>5, <1>6

LEMMA ExpandReplied ==
    ASSUME NEW m \in Given, HasServerToolResult(m), NEW open, NEW later, AccountedFor(m, open, later)
    PROVE  RepliedUnless(ExpandAssistantMessage(m), open, later)
<1>1. /\ m \in Messages /\ \A j \in DOMAIN m.blocks : m.blocks[j].kind # "tool_result"
      /\ m.blocks \in Seq(ContentBlocks) /\ Provided(m.blocks, open, later)
  BY BlockOf DEF Given, HasServerToolResult, AccountedFor
<1>2. PICK n \in Nat : \E out \in [0..n -> SegmentStates] :
            /\ DOMAIN m.blocks = 1..n
            /\ out[0] = Segments
            /\ \A k \in 0..(n - 1) : out[k + 1] = AddBlock(out[k], m.blocks[k + 1])
            /\ ExpandAssistantMessage(m) = FlushSegments(out[n]).out
  BY ExpandOut
<1>4. PICK out \in [0..n -> SegmentStates] :
            /\ DOMAIN m.blocks = 1..n
            /\ out[0] = Segments
            /\ \A k \in 0..(n - 1) : out[k + 1] = AddBlock(out[k], m.blocks[k + 1])
            /\ ExpandAssistantMessage(m) = FlushSegments(out[n]).out
  BY <1>2
<1> DEFINE B == m.blocks
<1>4a. B \in Seq(ContentBlocks) /\ Provided(B, open, later) /\ DOMAIN B = 1..n /\ \A j \in DOMAIN B : B[j].kind # "tool_result"
  BY <1>1, <1>4
<1>4b. \A k \in 0..(n - 1) : out[k + 1] = AddBlock(out[k], B[k + 1])
  BY <1>4
<1> HIDE DEF B
<1> DEFINE Right == {k \in Nat : k <= n => Segmented(out[k], B, k, open, later)}
<1>5. 0 \in Right
  <2>1. Segments.out = <<>> /\ Segments.assistant = <<>> /\ Segments.results = <<>>
    BY DEF Segments
  <2>2. CallsIn(<<>>) = {} /\ ResultsOnly(<<>>)
    BY CallsOfSegment DEF CallsIn, ResultsOnly
  <2>3. Segmented(Segments, B, 0, open, later)
    BY <2>1, <2>2, SegmentsType, RepliedEmpty DEF Segmented
  <2> QED
    BY <1>4, <2>3
<1>6. ASSUME NEW k \in Nat, k \in Right PROVE k + 1 \in Right
  <2> SUFFICES ASSUME k + 1 <= n PROVE Segmented(out[k + 1], B, k + 1, open, later)
    OBVIOUS
  <2>1. k \in 0..(n - 1) /\ k + 1 \in 1..n /\ k <= n
    OBVIOUS
  <2>2. Segmented(out[k], B, k, open, later)
    BY <1>6, <2>1
  <2>3. out[k + 1] = AddBlock(out[k], B[k + 1]) /\ k + 1 \in DOMAIN B /\ B[k + 1].kind # "tool_result"
    BY <1>4a, <1>4b, <2>1
  <2>4. Segmented(AddBlock(out[k], B[k + 1]), B, k + 1, open, later)
    BY <1>4a, <2>2, <2>3, AddBlockReplied
  <2> QED
    BY <2>3, <2>4
<1>7. n \in Right
  <2> HIDE DEF Right
  <2> QED
    BY <1>5, <1>6, Induction
<1>8. Segmented(out[n], B, n, open, later)
  BY <1>7
<1>9. ~PairedAt(B, n)
  <2>1. n + 1 \notin DOMAIN B
    BY <1>4a
  <2> QED
    BY <2>1 DEF PairedAt
<1>10. CallsIn(out[n].assistant) \subseteq open \cup (IF out[n].results = <<>> THEN later ELSE ResultsIn(out[n].results))
  BY <1>8, <1>9 DEF Segmented
<1>11. out[n] \in SegmentStates /\ RepliedUnless(out[n].out, open, {}) /\ ResultsOnly(out[n].results)
  BY <1>8 DEF Segmented
<1> QED
  BY <1>4, <1>10, <1>11, FlushReplied

\* A message that is not expanded.
LEMMA WholeReplied ==
    ASSUME NEW m \in Messages, ~HasServerToolResult(m), NEW open, NEW later, AccountedFor(m, open, later)
    PROVE  RepliedUnless(<<m>>, open, later)
<1>1. ASSUME NEW id \in CallsOf(m) PROVE id \in open \cup later
  <2>1. PICK j \in DOMAIN m.blocks : IsToolUse(m.blocks[j]) /\ m.blocks[j].id = id
    BY <1>1 DEF CallsOf
  <2>2. m.role = "assistant"
    BY <1>1 DEF AccountedFor
  <2>3. ~PairedAt(m.blocks, j)
    BY <2>2 DEF HasServerToolResult, PairedAt
  <2> QED
    BY <2>1, <2>3 DEF AccountedFor, Provided
<1>2. CallsOf(m) # {} => m.role = "assistant"
  BY DEF AccountedFor
<1> QED
  BY <1>1, <1>2, RepliedOne

LEMMA RequestReplied ==
    ASSUME NEW ms \in Seq(Given), NEW open, Accounted(ms, open)
    PROVE  Replied(ExpandServerToolResults(ms), open)
<1> DEFINE each == [i \in DOMAIN ms |->
                      IF HasServerToolResult(ms[i]) THEN ExpandAssistantMessage(ms[i]) ELSE <<ms[i]>>]
<1>1. PICK n \in Nat : n = Len(ms) /\ DOMAIN ms = 1..n /\ \A i \in 1..n : ms[i] \in Given /\ ms[i] \in Messages
  BY LenProperties, ElementOfSeq DEF Given
<1>2. each \in Seq(Seq(Parted)) /\ Len(each) = n
  <2>1. \A i \in 1..n : each[i] \in Seq(Parted)
    BY <1>1, ExpandOneType, WholeType
  <2>2. each = [i \in 1..n |-> each[i]]
    BY <1>1
  <2> HIDE DEF each
  <2> QED
    BY <2>1, <2>2
<1>3. ASSUME NEW i \in 1..n PROVE RepliedUnless(each[i], open, RepliesAfter(ms, i))
  <2>1. AccountedFor(ms[i], open, RepliesAfter(ms, i))
    BY <1>1 DEF Accounted
  <2> QED
    BY <1>1, <2>1, ExpandReplied, WholeReplied
<1>4. ASSUME NEW i \in 1..n, i < n, RepliesAfter(ms, i) # {}
      PROVE  each[i + 1] = <<ms[i + 1]>> /\ RepliesIn(ms[i + 1]) = RepliesAfter(ms, i)
  <2>1. i + 1 \in 1..n /\ ms[i + 1].role = "user"
    BY <1>4 DEF RepliesAfter
  <2>2. ~HasServerToolResult(ms[i + 1])
    BY <2>1 DEF HasServerToolResult
  <2> QED
    BY <1>1, <1>4, <2>1, <2>2 DEF RepliesAfter, RepliesIn
<1>5. ExpandServerToolResults(ms) = FlattenSeq(each)
  BY DEF ExpandServerToolResults
<1> HIDE DEF each
<1>6a. PICK out : Flattens(out, Parted, each, n, FlattenSeq(each))
  BY <1>2, FlattenSteps
<1>6. /\ out \in [0..n -> Seq(Parted)] /\ out[0] = <<>>
      /\ \A k \in 0..(n - 1) : out[k + 1] = out[k] \o each[k + 1]
      /\ FlattenSeq(each) = out[n]
  BY <1>6a DEF Flattens
<1> DEFINE After(k) == IF k = 0 THEN {} ELSE RepliesAfter(ms, k)
           Right == {k \in Nat : k <= n => RepliedUnless(out[k], open, After(k))}
<1>7. 0 \in Right
  BY <1>6, RepliedEmpty
<1>8. ASSUME NEW k \in Nat, k \in Right PROVE k + 1 \in Right
  <2> SUFFICES ASSUME k + 1 <= n PROVE RepliedUnless(out[k + 1], open, After(k + 1))
    OBVIOUS
  <2>1. k \in 0..(n - 1) /\ k \in 0..n /\ k + 1 \in 1..n /\ k <= n
    OBVIOUS
  <2>2. out[k + 1] = out[k] \o each[k + 1] /\ out[k] \in Seq(Parted) /\ each[k + 1] \in Seq(Parted)
    BY <1>2, <1>6, <2>1, ElementOfSeq, LenProperties
  <2>3. RepliedUnless(out[k], open, After(k)) /\ RepliedUnless(each[k + 1], open, After(k + 1))
    BY <1>3, <1>8, <2>1
  <2>4. After(k) \subseteq open \cup (IF each[k + 1] = <<>> THEN {} ELSE RepliesIn(each[k + 1][1]))
    <3>1. SUFFICES ASSUME After(k) # {} PROVE each[k + 1] # <<>> /\ RepliesIn(each[k + 1][1]) = After(k)
      OBVIOUS
    <3>2. k \in 1..n /\ k < n /\ RepliesAfter(ms, k) # {} /\ After(k) = RepliesAfter(ms, k)
      BY <2>1, <3>1
    <3> HIDE DEF After
    <3>3. each[k + 1] = <<ms[k + 1]>> /\ RepliesIn(ms[k + 1]) = RepliesAfter(ms, k)
      BY <3>2, <1>4
    <3> QED
      BY <3>2, <3>3
  <2> HIDE DEF After
  <2>5. RepliedUnless(out[k] \o each[k + 1], open, After(k + 1))
    BY <2>2, <2>3, <2>4, RepliedConcat
  <2> QED
    BY <2>2, <2>5
<1>9. n \in Right
  <2> HIDE DEF Right
  <2> QED
    BY <1>7, <1>8, Induction
<1>10. RepliedUnless(out[n], open, After(n)) /\ After(n) = {}
  BY <1>1, <1>9 DEF RepliesAfter
<1> QED
  BY <1>5, <1>6, <1>10 DEF RepliedUnless, Replied

LEMMA NormalizeReplied ==
    ASSUME NEW ms \in Seq(Given), NEW open, Accounted(ms, open)
    PROVE  Replied(Normalize(ms, TRUE), open)
<1> DEFINE a == ExpandServerToolResults(ms)
           b == TextualizeOrphanToolResults(a)
           c == NormalizeRoles(b)
           d == MergeAdjacentSameRole(c)
           e == EnsureStartsWithUser(d)
           t == EnsureAlternatingRoles(e)
<1>1. a \in Seq(Parted) /\ Replied(a, open)
  BY ExpandType, RequestReplied
<1> HIDE DEF a
<1>2. b \in Seq(Parted) /\ Replied(b, open)
  BY <1>1, OrphansFacts, OrphansReplied
<1> HIDE DEF b
<1>3. c \in Seq(InRole) /\ Replied(c, open)
  BY <1>2, RolesFacts, RolesReplied
<1> HIDE DEF c
<1>4. d \in Seq(InRole) /\ \E at : Carried(c, Len(c), d, at)
  BY <1>3, MergeCarries
<1> HIDE DEF d
<1>5. e \in Seq(InRole) /\ (e # <<>> => e[1].role = "user") /\ \E at : Carried(d, Len(d), e, at)
  BY <1>4, StartCarries
<1> HIDE DEF e
<1>6. t \in Seq(InRole) /\ \E at : Carried(e, Len(e), t, at)
  BY <1>5, TurnCarries
<1> HIDE DEF t
<1>7. Replied(d, open)
  BY <1>3, <1>4, CarriedReplied
<1>8. Replied(e, open)
  BY <1>4, <1>5, <1>7, CarriedReplied
<1>9. Replied(t, open)
  BY <1>5, <1>6, <1>8, CarriedReplied
<1>10. Normalize(ms, TRUE) = t
  BY DEF Normalize, TextualizeToolContent, a, b, c, d, e, t
<1> QED
  BY <1>9, <1>10

LEMMA RowReplied ==
    ASSUME NEW T \in Seq(InRole), NEW open, Replied(T, open), NEW W, RowOf(W, T)
    PROVE  Replied(W, open)
<1>1. SUFFICES ASSUME NEW m \in InRole, IsPlainText(m), W = Append(T, m) PROVE Replied(W, open)
  BY DEF RowOf
<1>2. PICK n \in Nat : n = Len(T) /\ DOMAIN T = 1..n
  BY LenProperties
<1>3. W \in Seq(InRole) /\ Len(W) = n + 1 /\ W[n + 1] = m /\ \A i \in 1..n : W[i] = T[i]
  BY <1>1, <1>2, AppendProperties
<1>4. DOMAIN W = 1..(n + 1) /\ \A i \in 1..(n + 1) : i \in 1..n \/ i = n + 1
  BY <1>3, LenProperties
<1>5. CallsOf(m) = {}
  BY <1>1, PlainFacts DEF InRole, Parted
<1>6. ASSUME NEW i \in 1..n, NEW id \in CallsOf(W[i])
      PROVE  W[i].role = "assistant" /\ (id \in open \/ AnsweredNext(W, i, id))
  <2>1. T[i].role = "assistant" /\ (id \in open \/ AnsweredNext(T, i, id))
    BY <1>2, <1>3, <1>6 DEF Replied
  <2>2. ASSUME AnsweredNext(T, i, id) PROVE AnsweredNext(W, i, id)
    <3>1. i < n /\ i + 1 \in 1..n /\ i < n + 1
      BY <1>2, <2>2 DEF AnsweredNext
    <3> QED
      BY <2>2, <3>1, <1>3 DEF AnsweredNext
  <2> QED
    BY <2>1, <2>2, <1>3
<1> QED
  BY <1>3, <1>4, <1>5, <1>6 DEF Replied

\* Each call of an entry is open or the next entry has its result.
CallsReplied(e, open) ==
    \A i \in DOMAIN e : \A id \in Range(e[i].calls) :
        id \in open \/ (i < Len(e) /\ id \in Range(e[i + 1].results))

\* In the payload of any request every call is answered by the next entry if
\* the messages account for it: however they are split at the results of server
\* tools, textualized, merged and padded, a result stays behind its call.
THEOREM PayloadAnswersCalls ==
    ASSUME NEW ms \in Seq(Given), NEW open, Accounted(ms, open)
    PROVE  CallsReplied(PayloadOf(ms, TRUE), open)
<1> DEFINE e == PayloadOf(ms, TRUE)
<1>1. PICK W : Row(W, TRUE) /\ EntriesOf(e, W) /\ RowOf(W, Normalize(ms, TRUE))
  BY PayloadFacts
<1> HIDE DEF e
<1>2. Replied(W, open)
  BY <1>1, NormalizeFacts, NormalizeReplied, RowReplied
<1>3. PICK n \in Nat : n = Len(W) /\ DOMAIN W = 1..n /\ DOMAIN e = 1..(n + 2) /\ Len(e) = n + 2
  BY <1>1, LenProperties DEF Row, EntriesOf
<1>4. Range(<<>>) = {}
  BY DEF Range
<1>5. ASSUME NEW k \in 1..n, NEW id \in Range(e[k + 2].calls)
      PROVE  id \in open \/ (k < n /\ id \in Range(e[(k + 1) + 2].results))
  <2>1. W[k].role # "user" /\ e[k + 2].calls = ToolUseIds(W[k])
    <3>1. EntryOf(e[k + 2], W, k)
      BY <1>1, <1>3 DEF EntriesOf
    <3>2. ASSUME W[k].role = "user" PROVE e[k + 2].calls = <<>>
      <4>1. \A m, ids, synthetic : UserEntry(m, ids, synthetic).calls = <<>>
        BY DEF UserEntry, Entry
      <4> QED
        BY <3>1, <3>2, <4>1 DEF EntryOf
    <3>3. W[k].role # "user"
      BY <3>2, <1>4, <1>5
    <3> QED
      BY <3>1, <3>3 DEF EntryOf
  <2>2. id \in CallsOf(W[k])
    BY <1>1, <1>3, <1>5, <2>1, RowTypes, CallsAreSelected
  <2>3. id \in open \/ AnsweredNext(W, k, id)
    BY <1>2, <1>3, <2>2 DEF Replied
  <2>4. ASSUME AnsweredNext(W, k, id) PROVE k < n /\ id \in Range(e[(k + 1) + 2].results)
    <3>1. k < n /\ k + 1 \in 1..n /\ W[k + 1].role = "user" /\ id \in ResultsOf(W[k + 1])
      BY <1>3, <2>4 DEF AnsweredNext
    <3>2. EntryOf(e[(k + 1) + 2], W, k + 1)
      BY <1>1, <1>3, <3>1 DEF EntriesOf
    <3>3. PICK synthetic \in {Empty, Continue} : e[(k + 1) + 2] = UserEntry(W[k + 1], PrecedingIds(W, k + 1), synthetic)
      BY <3>1, <3>2 DEF EntryOf
    <3>4. W[k + 1] \in Messages /\ PrecedingIds(W, k + 1) \in Seq(Nat)
      BY <1>1, <1>3, <3>1, RowTypes
    <3>5. Range(UserEntry(W[k + 1], PrecedingIds(W, k + 1), synthetic).results) = ResultsOf(W[k + 1])
      BY <3>4, UserEntryFacts
    <3> QED
      BY <3>1, <3>3, <3>5
  <2> QED
    BY <2>3, <2>4
<1>6. ASSUME NEW i \in 1..(n + 2), NEW id \in Range(e[i].calls)
      PROVE  id \in open \/ (i < n + 2 /\ id \in Range(e[i + 1].results))
  <2>1. CASE i \in {1, 2}
    <3>1. e[i].calls = <<>>
      BY <1>1, <2>1, PairFacts DEF EntriesOf
    <3> QED
      BY <1>4, <1>6, <3>1
  <2>2. CASE i \notin {1, 2}
    <3>1. i - 2 \in 1..n /\ (i - 2) + 2 = i /\ ((i - 2) + 1) + 2 = i + 1 /\ (i - 2 < n => i < n + 2)
      BY <2>2
    <3>2. id \in Range(e[(i - 2) + 2].calls)
      BY <1>6, <3>1
    <3>3. id \in open \/ (i - 2 < n /\ id \in Range(e[((i - 2) + 1) + 2].results))
      BY <3>1, <3>2, <1>5
    <3> QED
      BY <3>1, <3>3
  <2> QED
    BY <2>1, <2>2
<1>7. CallsReplied(e, open)
  BY <1>3, <1>6 DEF CallsReplied
<1> QED
  BY <1>7 DEF e

-----------------------------------------------------------------------------
(***************************************************************************)
(* The conversation accounts for its calls: what the client has sent or    *)
(* got, what the loop has appended, and what has been written of an answer *)
(* whose calls are of this round or share theirs with a server tool's.     *)
(***************************************************************************)
AllAccounted(ms, open, last) ==
    \A i \in DOMAIN ms : AccountedFor(ms[i], open, RepliesAfter(ms, i) \cup (IF i = Len(ms) THEN last ELSE {}))

LEMMA ProvidedMore ==
    ASSUME NEW B, NEW open, NEW later, NEW open2, NEW later2, Provided(B, open, later),
           open \subseteq open2, later \subseteq open2 \cup later2
    PROVE  Provided(B, open2, later2)
  BY DEF Provided

LEMMA AccountedMore ==
    ASSUME NEW m, NEW open, NEW later, NEW open2, NEW later2, AccountedFor(m, open, later),
           open \subseteq open2, later \subseteq open2 \cup later2
    PROVE  AccountedFor(m, open2, later2)
  BY ProvidedMore DEF AccountedFor

LEMMA AccountedConcat ==
    ASSUME NEW X, NEW S \in Seq(X), NEW T \in Seq(X), NEW open, NEW later, NEW last,
           AllAccounted(S, open, later), AllAccounted(T, open, last),
           later \subseteq open \cup (IF T = <<>> THEN {} ELSE RepliesIn(T[1]))
    PROVE  AllAccounted(S \o T, open, last)
<1>1. PICK a \in Nat, b \in Nat : a = Len(S) /\ b = Len(T) /\ DOMAIN S = 1..a /\ DOMAIN T = 1..b /\ (T = <<>> <=> b = 0)
  BY LenProperties, EmptySeq
<1> DEFINE U == S \o T
           After(V, i, more) == RepliesAfter(V, i) \cup (IF i = Len(V) THEN more ELSE {})
<1>2. U \in Seq(X) /\ Len(U) = a + b /\ \A i \in 1..(a + b) : U[i] = IF i <= a THEN S[i] ELSE T[i - a]
  BY <1>1, ConcatProperties
<1> HIDE DEF U
<1>3. DOMAIN U = 1..(a + b)
  BY <1>1, <1>2, LenProperties
<1>4. ASSUME NEW i \in 1..(a + b), i <= a PROVE AccountedFor(U[i], open, After(U, i, last))
  <2>1. U[i] = S[i] /\ i \in 1..a
    BY <1>2, <1>4
  <2>2. AccountedFor(S[i], open, After(S, i, later))
    BY <1>1, <2>1 DEF AllAccounted
  <2>3. RepliesAfter(S, i) \subseteq RepliesAfter(U, i)
    <3>1. CASE i < a
      <4>1. i + 1 \in 1..(a + b) /\ i + 1 <= a /\ i < a + b
        BY <3>1, <1>4
      <4>2. U[i + 1] = S[i + 1]
        BY <4>1, <1>2
      <4> QED
        BY <4>1, <4>2, <3>1, <1>1, <1>2 DEF RepliesAfter
    <3>2. CASE ~(i < a)
      BY <3>2, <1>1 DEF RepliesAfter
    <3> QED
      BY <3>1, <3>2
  <2>4. ASSUME i = a PROVE later \subseteq open \cup RepliesAfter(U, i)
    <3>1. CASE T = <<>>
      BY <3>1
    <3>2. CASE T # <<>>
      <4>1. i + 1 \in 1..(a + b) /\ ~(i + 1 <= a) /\ (i + 1) - a = 1 /\ i < a + b
        BY <2>4, <3>2, <1>1
      <4>2. U[i + 1] = T[1]
        BY <4>1, <1>2
      <4>3. RepliesIn(T[1]) = RepliesAfter(U, i)
        BY <4>1, <4>2, <1>2 DEF RepliesAfter, RepliesIn
      <4> QED
        BY <4>3, <3>2
    <3> QED
      BY <3>1, <3>2
  <2>5. After(S, i, later) \subseteq open \cup After(U, i, last)
    BY <2>3, <2>4, <1>1
  <2> HIDE DEF After
  <2> QED
    BY <2>1, <2>2, <2>5, AccountedMore
<1>5. ASSUME NEW i \in 1..(a + b), ~(i <= a) PROVE AccountedFor(U[i], open, After(U, i, last))
  <2>1. U[i] = T[i - a] /\ i - a \in 1..b
    BY <1>2, <1>5
  <2>2. AccountedFor(T[i - a], open, After(T, i - a, last))
    BY <1>1, <2>1 DEF AllAccounted
  <2>3. RepliesAfter(T, i - a) \subseteq RepliesAfter(U, i)
    <3>1. CASE i - a < b
      <4>1. i + 1 \in 1..(a + b) /\ ~(i + 1 <= a) /\ (i + 1) - a = (i - a) + 1 /\ i < a + b
        BY <3>1, <1>5
      <4>2. U[i + 1] = T[(i - a) + 1]
        BY <4>1, <1>2
      <4> QED
        BY <4>1, <4>2, <3>1, <1>1, <1>2 DEF RepliesAfter
    <3>2. CASE ~(i - a < b)
      BY <3>2, <1>1 DEF RepliesAfter
    <3> QED
      BY <3>1, <3>2
  <2>4. i - a = b => i = a + b
    OBVIOUS
  <2>5. After(T, i - a, last) \subseteq open \cup After(U, i, last)
    BY <2>3, <2>4, <1>1, <1>2
  <2> HIDE DEF After
  <2> QED
    BY <2>1, <2>2, <2>5, AccountedMore
<1>6. ASSUME NEW i \in DOMAIN U PROVE AccountedFor(U[i], open, After(U, i, last))
  <2>1. i \in 1..(a + b)
    BY <1>3
  <2> HIDE DEF After
  <2> QED
    BY <2>1, <1>4, <1>5
<1>7. AllAccounted(U, open, last)
  BY <1>6 DEF AllAccounted
<1> QED
  BY <1>7 DEF U

LEMMA AccountedOne ==
    ASSUME NEW m, NEW open, NEW last, AccountedFor(m, open, last)
    PROVE  AllAccounted(<<m>>, open, last)
<1>1. DOMAIN <<m>> = {1} /\ Len(<<m>>) = 1 /\ <<m>>[1] = m
  OBVIOUS
<1>2. AccountedFor(m, open, RepliesAfter(<<m>>, 1) \cup last)
  BY AccountedMore
<1> QED
  BY <1>1, <1>2 DEF AllAccounted

LEMMA AccountedGrow ==
    ASSUME NEW ms, NEW open, NEW last, AllAccounted(ms, open, last), NEW open2, open \subseteq open2,
           NEW last2, last \subseteq open2 \cup last2
    PROVE  AllAccounted(ms, open2, last2)
<1>1. ASSUME NEW i \in DOMAIN ms
      PROVE  AccountedFor(ms[i], open2, RepliesAfter(ms, i) \cup (IF i = Len(ms) THEN last2 ELSE {}))
  <2> DEFINE after  == RepliesAfter(ms, i) \cup (IF i = Len(ms) THEN last ELSE {})
             after2 == RepliesAfter(ms, i) \cup (IF i = Len(ms) THEN last2 ELSE {})
  <2>1. AccountedFor(ms[i], open, after)
    BY DEF AllAccounted
  <2>2. after \subseteq open2 \cup after2
    OBVIOUS
  <2> HIDE DEF after, after2
  <2>3. AccountedFor(ms[i], open2, after2)
    BY <2>1, <2>2, AccountedMore
  <2> QED
    BY <2>3 DEF after2
<1> QED
  BY <1>1 DEF AllAccounted

LEMMA AccountedRest ==
    ASSUME NEW X, NEW ms \in Seq(X), NEW open, NEW last, AllAccounted(ms, open, last), NEW n \in 1..(Len(ms) - 1)
    PROVE  AllAccounted(SubSeq(ms, n + 1, Len(ms)), open, last)
<1> DEFINE U == SubSeq(ms, n + 1, Len(ms))
<1>1. PICK a \in Nat : a = Len(ms) /\ DOMAIN ms = 1..a /\ n \in Nat /\ n < a /\ \A i \in 1..a : ms[i] \in X
  BY LenProperties, ElementOfSeq
<1>2. U \in Seq(X) /\ Len(U) = a - n /\ \A i \in 1..(a - n) : U[i] = ms[n + i]
  <2>1. \A i \in (n + 1)..a : ms[i] \in X
    BY <1>1
  <2>2. /\ U \in Seq(X)
        /\ Len(U) = IF n + 1 <= a THEN a - (n + 1) + 1 ELSE 0
        /\ \A i \in 1..(a - (n + 1) + 1) : U[i] = ms[(n + 1) + i - 1]
    BY <1>1, <2>1, SubSeqProperties
  <2> HIDE DEF U
  <2>3. a - (n + 1) + 1 = a - n /\ n + 1 <= a /\ \A i \in 1..(a - n) : (n + 1) + i - 1 = n + i
    BY <1>1
  <2> QED
    BY <2>2, <2>3
<1> HIDE DEF U
<1>3. DOMAIN U = 1..(a - n)
  BY <1>2, LenProperties
<1>4. ASSUME NEW i \in 1..(a - n)
      PROVE  AccountedFor(U[i], open, RepliesAfter(U, i) \cup (IF i = Len(U) THEN last ELSE {}))
  <2>1. n + i \in 1..a /\ U[i] = ms[n + i] /\ (n + i = a <=> i = a - n) /\ (n + i < a <=> i < a - n)
    BY <1>1, <1>2
  <2>2. AccountedFor(ms[n + i], open, RepliesAfter(ms, n + i) \cup (IF n + i = a THEN last ELSE {}))
    BY <1>1, <2>1 DEF AllAccounted
  <2>3. RepliesAfter(U, i) = RepliesAfter(ms, n + i)
    <3>1. CASE i < a - n
      <4>1. i + 1 \in 1..(a - n) /\ n + (i + 1) = (n + i) + 1
        BY <3>1
      <4>2. U[i + 1] = ms[(n + i) + 1]
        BY <4>1, <1>2
      <4> QED
        BY <4>2, <2>1, <3>1, <1>1, <1>2 DEF RepliesAfter
    <3>2. CASE ~(i < a - n)
      BY <3>2, <2>1, <1>1, <1>2 DEF RepliesAfter
    <3> QED
      BY <3>1, <3>2
  <2> QED
    BY <2>1, <2>2, <2>3, <1>2
<1>5. AllAccounted(U, open, last)
  BY <1>3, <1>4 DEF AllAccounted
<1> QED
  BY <1>5 DEF U

\* Blocks: a client's calls, blocks that have nothing to do with calls, and an
\* answer of which each call is open, has its result behind it, or is one of
\* the "calls" of this round.
ClientCalls(B) == {B[j].id : j \in {k \in DOMAIN B : B[k].kind = "tool_use"}}
Resultless(B) == \A j \in DOMAIN B : ~IsServerToolResult(B[j])
Quiet(B) == Resultless(B) /\ \A j \in DOMAIN B : ~IsToolUse(B[j])
Tallied(B, open, calls) == Provided(B, open, ClientCalls(B)) /\ ClientCalls(B) \subseteq open \cup calls

LEMMA ProvidedConcat ==
    ASSUME NEW X, NEW B \in Seq(X), NEW C \in Seq(X), NEW open, NEW first, NEW later,
           Provided(B, open, first), Provided(C, open, later),
           first \subseteq open \/ (Resultless(C) /\ first \subseteq later)
    PROVE  Provided(B \o C, open, later)
<1>1. PICK a \in Nat, b \in Nat : a = Len(B) /\ b = Len(C) /\ DOMAIN B = 1..a /\ DOMAIN C = 1..b
  BY LenProperties
<1> DEFINE U == B \o C
<1>2. U \in Seq(X) /\ Len(U) = a + b /\ \A i \in 1..(a + b) : U[i] = IF i <= a THEN B[i] ELSE C[i - a]
  BY <1>1, ConcatProperties
<1> HIDE DEF U
<1>3. DOMAIN U = 1..(a + b)
  BY <1>1, <1>2, LenProperties
<1>4. ASSUME NEW j \in 1..(a + b), j <= a, IsToolUse(U[j])
      PROVE  U[j].id \in open \/ PairedAt(U, j) \/ (U[j].id \in later /\ NoResultBehind(U, j))
  <2>1. U[j] = B[j] /\ j \in 1..a
    BY <1>2, <1>4
  <2>2. U[j].id \in open \/ PairedAt(B, j) \/ (U[j].id \in first /\ NoResultBehind(B, j))
    BY <1>1, <1>4, <2>1 DEF Provided
  <2>3. ASSUME PairedAt(B, j) PROVE PairedAt(U, j)
    <3>1. j + 1 \in 1..(a + b) /\ j + 1 <= a
      BY <1>1, <2>3 DEF PairedAt
    <3>2. U[j + 1] = B[j + 1]
      BY <3>1, <1>2
    <3> QED
      BY <2>1, <2>3, <3>1, <3>2, <1>3 DEF PairedAt
  <2>4. ASSUME U[j].id \in first, NoResultBehind(B, j), Resultless(C) PROVE NoResultBehind(U, j)
    <3>1. ASSUME NEW k \in 1..(a + b), k > j PROVE ~IsServerToolResult(U[k])
      <4>1. CASE k <= a
        <5>1. k \in 1..a /\ U[k] = B[k]
          BY <4>1, <1>2
        <5> QED
          BY <5>1, <3>1, <2>4, <1>1 DEF NoResultBehind
      <4>2. CASE ~(k <= a)
        <5>1. k - a \in 1..b /\ U[k] = C[k - a]
          BY <4>2, <1>2
        <5> QED
          BY <5>1, <2>4, <1>1 DEF Resultless
      <4> QED
        BY <4>1, <4>2
    <3> QED
      BY <3>1, <1>3 DEF NoResultBehind
  <2> QED
    BY <2>2, <2>3, <2>4
<1>5. ASSUME NEW j \in 1..(a + b), ~(j <= a), IsToolUse(U[j])
      PROVE  U[j].id \in open \/ PairedAt(U, j) \/ (U[j].id \in later /\ NoResultBehind(U, j))
  <2>1. U[j] = C[j - a] /\ j - a \in 1..b
    BY <1>2, <1>5
  <2>2. U[j].id \in open \/ PairedAt(C, j - a) \/ (U[j].id \in later /\ NoResultBehind(C, j - a))
    BY <1>1, <1>5, <2>1 DEF Provided
  <2>3. ASSUME PairedAt(C, j - a) PROVE PairedAt(U, j)
    <3>1. j + 1 \in 1..(a + b) /\ ~(j + 1 <= a) /\ (j + 1) - a = (j - a) + 1
      BY <1>1, <1>5, <2>3 DEF PairedAt
    <3>2. U[j + 1] = C[(j - a) + 1]
      BY <3>1, <1>2
    <3> QED
      BY <2>1, <2>3, <3>1, <3>2, <1>3 DEF PairedAt
  <2>4. ASSUME NoResultBehind(C, j - a) PROVE NoResultBehind(U, j)
    <3>1. ASSUME NEW k \in 1..(a + b), k > j PROVE ~IsServerToolResult(U[k])
      <4>1. k - a \in 1..b /\ U[k] = C[k - a] /\ k - a > j - a
        BY <1>2, <1>5, <3>1
      <4> QED
        BY <4>1, <2>4, <1>1 DEF NoResultBehind
    <3> QED
      BY <3>1, <1>3 DEF NoResultBehind
  <2> QED
    BY <2>2, <2>3, <2>4
<1>6. Provided(U, open, later)
  <2>1. \A j \in DOMAIN U : j \in 1..(a + b)
    BY <1>3
  <2> QED
    BY <2>1, <1>4, <1>5 DEF Provided
<1> QED
  BY <1>6 DEF U

LEMMA ClientCallsConcat ==
    ASSUME NEW X, NEW B \in Seq(X), NEW C \in Seq(X)
    PROVE  ClientCalls(B \o C) = ClientCalls(B) \cup ClientCalls(C)
<1>1. PICK a \in Nat, b \in Nat : a = Len(B) /\ b = Len(C) /\ DOMAIN B = 1..a /\ DOMAIN C = 1..b
  BY LenProperties
<1> DEFINE U == B \o C
<1>2. U \in Seq(X) /\ Len(U) = a + b /\ \A i \in 1..(a + b) : U[i] = IF i <= a THEN B[i] ELSE C[i - a]
  BY <1>1, ConcatProperties
<1> HIDE DEF U
<1>3. DOMAIN U = 1..(a + b)
  BY <1>1, <1>2, LenProperties
<1>4. ASSUME NEW id \in ClientCalls(U) PROVE id \in ClientCalls(B) \/ id \in ClientCalls(C)
  <2>1. PICK j \in 1..(a + b) : U[j].kind = "tool_use" /\ U[j].id = id
    BY <1>3, <1>4 DEF ClientCalls
  <2>2. CASE j <= a
    BY <2>1, <2>2, <1>1, <1>2 DEF ClientCalls
  <2>3. CASE ~(j <= a)
    <3>1. j - a \in 1..b /\ U[j] = C[j - a]
      BY <2>3, <1>2
    <3> QED
      BY <2>1, <3>1, <1>1 DEF ClientCalls
  <2> QED
    BY <2>2, <2>3
<1>5. ASSUME NEW id \in ClientCalls(B) PROVE id \in ClientCalls(U)
  <2>1. PICK j \in 1..a : B[j].kind = "tool_use" /\ B[j].id = id
    BY <1>1, <1>5 DEF ClientCalls
  <2>2. j \in 1..(a + b) /\ j <= a
    OBVIOUS
  <2>3. U[j] = B[j]
    BY <2>2, <1>2
  <2> QED
    BY <2>1, <2>2, <2>3, <1>3 DEF ClientCalls
<1>6. ASSUME NEW id \in ClientCalls(C) PROVE id \in ClientCalls(U)
  <2>1. PICK j \in 1..b : C[j].kind = "tool_use" /\ C[j].id = id
    BY <1>1, <1>6 DEF ClientCalls
  <2>2. a + j \in 1..(a + b) /\ ~(a + j <= a) /\ (a + j) - a = j
    OBVIOUS
  <2>3. U[a + j] = C[j]
    BY <2>2, <1>2
  <2> QED
    BY <2>1, <2>2, <2>3, <1>3 DEF ClientCalls
<1>7. ClientCalls(U) = ClientCalls(B) \cup ClientCalls(C)
  BY <1>4, <1>5, <1>6
<1> QED
  BY <1>7 DEF U

LEMMA QuietFacts ==
    ASSUME NEW B, Quiet(B)
    PROVE  Resultless(B) /\ ClientCalls(B) = {} /\ \A open, later : Provided(B, open, later)
<1>1. \A j \in DOMAIN B : B[j].kind # "tool_use"
  BY DEF Quiet, IsToolUse
<1>2. ClientCalls(B) = {}
  BY <1>1 DEF ClientCalls
<1> QED
  BY <1>2 DEF Quiet, Provided

LEMMA BlocksQuiet ==
    ASSUME NEW ids
    PROVE  Quiet(Blobs(ids)) /\ Quiet(Texts(ids))
  BY DEF Quiet, Resultless, Blobs, Texts, Blocks, Block, IsToolUse, IsServerToolResult

LEMMA CallBlocks ==
    ASSUME NEW ids
    PROVE  /\ Resultless(Blocks("tool_use", ids)) /\ ClientCalls(Blocks("tool_use", ids)) = Range(ids)
           /\ \A open : Provided(Blocks("tool_use", ids), open, Range(ids))
<1> DEFINE C == Blocks("tool_use", ids)
<1>1. DOMAIN C = DOMAIN ids /\ \A j \in DOMAIN ids : C[j].kind = "tool_use" /\ C[j].id = ids[j]
  BY DEF Blocks, Block
<1> HIDE DEF C
<1>2. Resultless(C) /\ \A j : NoResultBehind(C, j)
  BY <1>1 DEF Resultless, NoResultBehind, IsServerToolResult
<1>3. ClientCalls(C) = Range(ids)
  BY <1>1 DEF ClientCalls, Range
<1>4. \A open : Provided(C, open, Range(ids))
  BY <1>1, <1>2 DEF Provided, Range
<1> QED
  BY <1>2, <1>3, <1>4 DEF C

LEMMA TalliedQuiet ==
    ASSUME NEW X, NEW B \in Seq(X), NEW C \in Seq(X), NEW open, NEW calls, Tallied(B, open, calls), Quiet(C)
    PROVE  Tallied(B \o C, open, calls)
<1>1. Resultless(C) /\ ClientCalls(C) = {} /\ Provided(C, open, ClientCalls(B))
  BY QuietFacts
<1>2. ClientCalls(B \o C) = ClientCalls(B)
  <2>1. ClientCalls(B \o C) = ClientCalls(B) \cup ClientCalls(C)
    BY ClientCallsConcat
  <2> QED
    BY <1>1, <2>1
<1>3. Provided(B \o C, open, ClientCalls(B))
  BY <1>1, ProvidedConcat DEF Tallied
<1> QED
  BY <1>2, <1>3 DEF Tallied

LEMMA TalliedCalls ==
    ASSUME NEW X, NEW B \in Seq(X), NEW ids, Blocks("tool_use", ids) \in Seq(X), NEW open, NEW calls, Tallied(B, open, calls),
           Range(ids) \subseteq open \cup calls
    PROVE  Tallied(B \o Blocks("tool_use", ids), open, calls)
<1> DEFINE C == Blocks("tool_use", ids)
           later == ClientCalls(B) \cup Range(ids)
<1>1. C \in Seq(X) /\ Resultless(C) /\ ClientCalls(C) = Range(ids) /\ Provided(C, open, Range(ids))
  BY CallBlocks
<1> HIDE DEF C
<1>2. ClientCalls(B \o C) = later
  BY <1>1, ClientCallsConcat
<1>3. Provided(C, open, later)
  <2>1. Range(ids) \subseteq open \cup later
    OBVIOUS
  <2> HIDE DEF later
  <2> QED
    BY <1>1, <2>1, ProvidedMore
<1>4. Provided(B \o C, open, later)
  <2>1. ClientCalls(B) \subseteq later /\ Provided(B, open, ClientCalls(B))
    BY DEF Tallied
  <2> HIDE DEF later
  <2> QED
    BY <1>1, <1>3, <2>1, ProvidedConcat
<1>5. later \subseteq open \cup calls
  BY DEF Tallied
<1>6. Tallied(B \o C, open, calls)
  BY <1>2, <1>4, <1>5 DEF Tallied
<1> QED
  BY <1>6 DEF C

LEMMA TalliedMore ==
    ASSUME NEW B, NEW open, NEW calls, Tallied(B, open, calls), NEW open2, NEW calls2,
           open \subseteq open2, calls \subseteq open2 \cup calls2
    PROVE  Tallied(B, open2, calls2)
<1>1. ClientCalls(B) \subseteq open2 \cup ClientCalls(B)
  OBVIOUS
<1>2. Provided(B, open2, ClientCalls(B))
  BY <1>1, ProvidedMore DEF Tallied
<1> QED
  BY <1>2 DEF Tallied

\* The call of a server tool and its result.
LEMMA TalliedPair ==
    ASSUME NEW X, NEW B \in Seq(X), NEW id, NEW result \in {"tool_search_tool_result", "advisor_tool_result"},
           <<Block("server_tool_use", id), Block(result, id)>> \in Seq(X), NEW open, Tallied(B, open, {})
    PROVE  Tallied(B \o <<Block("server_tool_use", id), Block(result, id)>>, open, {})
<1> DEFINE C == <<Block("server_tool_use", id), Block(result, id)>>
<1>1. DOMAIN C = {1, 2} /\ C[1] = Block("server_tool_use", id) /\ C[2] = Block(result, id)
  OBVIOUS
<1> HIDE DEF C
<1>2. C[1].kind = "server_tool_use" /\ C[1].id = id /\ C[2].kind = result /\ C[2].id = id
  BY <1>1 DEF Block
<1>3. PairedAt(C, 1) /\ ~IsToolUse(C[2])
  <2>1. 1 + 1 \in DOMAIN C /\ 1 + 1 = 2
    BY <1>1
  <2> QED
    BY <2>1, <1>2 DEF PairedAt, IsServerToolResult, IsToolUse
<1>4. \A later : Provided(C, open, later)
  BY <1>1, <1>3 DEF Provided
<1>5. ClientCalls(C) = {}
  BY <1>1, <1>2 DEF ClientCalls
<1>6. C \in Seq(X)
  BY DEF C
<1>7. ClientCalls(B \o C) = ClientCalls(B)
  <2>1. ClientCalls(B \o C) = ClientCalls(B) \cup ClientCalls(C)
    BY <1>6, ClientCallsConcat
  <2> QED
    BY <1>5, <2>1
<1>8. Provided(B \o C, open, ClientCalls(B))
  <2>1. ClientCalls(B) \subseteq open /\ Provided(B, open, ClientCalls(B)) /\ Provided(C, open, ClientCalls(B))
    BY <1>4 DEF Tallied
  <2> QED
    BY <1>6, <2>1, ProvidedConcat
<1>9. Tallied(B \o C, open, {})
  BY <1>7, <1>8 DEF Tallied
<1> QED
  BY <1>9 DEF C

\* The calls that share their round with a server tool's, of the first "known"
\* things said; they need no answer.
OpenCalls(lg, known) ==
    {id \in 1..known : /\ lg[id].kind = "tool_use"
                       /\ \E other \in 1..known : lg[other].kind = "server_tool_use" /\ lg[other].round = lg[id].round}
OfRound(lg, id, kind) == id \in 1..Len(lg) /\ lg[id].kind = kind /\ lg[id].round = Last(lg).round

Known == IF pc = "model" THEN asked ELSE Len(log)
\* The client's calls at the end of the conversation wait for their results.
Waiting == IF pc = "client" /\ msgs # <<>> THEN ClientCalls(Last(msgs).blocks) ELSE {}

MessagesAccounted == AllAccounted(msgs, OpenCalls(log, Known), Waiting)
LoopAccounted == AllAccounted(loop, {}, {})
AnswerAccounted == Tallied(answer, OpenCalls(log, Len(log)), Range(round.calls))
RoundInLog ==
    /\ \A id \in Range(round.calls) : OfRound(log, id, "tool_use")
    /\ InTail => OfRound(log, round.server, "server_tool_use")

AccountsInv == MessagesAccounted /\ LoopAccounted /\ AnswerAccounted /\ RoundInLog

LEMMA OpenGrows ==
    ASSUME NEW lg, NEW lh, NEW m \in Nat, NEW n \in Nat, m <= n, \A i \in 1..m : lh[i] = lg[i]
    PROVE  OpenCalls(lg, m) \subseteq OpenCalls(lh, n)
<1>1. \A i \in 1..m : i \in 1..n
  OBVIOUS
<1> QED
  BY <1>1 DEF OpenCalls

LEMMA SharedCalls ==
    ASSUME NEW lg, NEW id, NEW other, OfRound(lg, id, "tool_use"), OfRound(lg, other, "server_tool_use")
    PROVE  id \in OpenCalls(lg, Len(lg))
  BY DEF OfRound, OpenCalls

LEMMA NewRoundCalls ==
    Range(NewRound.calls) = {} /\ NewRound.server = 0 /\ Tallied(<<>>, {}, {}) /\ AllAccounted(<<>>, {}, {})
<1>1. NewRound.calls = <<>> /\ NewRound.server = 0
  BY DEF NewRound
<1>2. DOMAIN <<>> = {} /\ Range(<<>>) = {}
  BY DEF Range
<1>3. Tallied(<<>>, {}, {})
  BY <1>2 DEF Tallied, Provided, ClientCalls
<1>4. AllAccounted(<<>>, {}, {})
  BY <1>2 DEF AllAccounted
<1> QED
  BY <1>1, <1>2, <1>3, <1>4

\* What is said in a round is of that round.
LEMMA FrameLog ==
    ASSUME ConversationTypes, RoundInLog, NEW kind \in Kinds, Frame(kind)
    PROVE  /\ OpenCalls(log, Len(log)) \subseteq OpenCalls(log', Len(log'))
           /\ OpenCalls(log, asked) \subseteq OpenCalls(log', asked)
           /\ OfRound(log', NewId, kind)
           /\ \A id \in Range(round.calls) : OfRound(log', id, "tool_use")
           /\ InTail => OfRound(log', round.server, "server_tool_use")
<1> DEFINE rnd == IF round = NewRound THEN NewId ELSE Last(log).round
           said == [kind |-> kind, round |-> rnd]
<1>1. PICK n \in Nat : n = Len(log) /\ log \in Seq(Remembered) /\ asked \in Nat /\ asked <= n /\ (round # NewRound => log # <<>>)
  BY LenProperties DEF ConversationTypes
<1>2. rnd \in Nat
  <2>1. NewId \in Nat
    BY <1>1 DEF NewId
  <2>2. log # <<>> => Last(log).round \in Nat
    <3>1. log # <<>> => Last(log) \in Remembered
      BY <1>1, LastIs
    <3> QED
      BY <3>1 DEF Remembered
  <2> QED
    BY <1>1, <2>1, <2>2
<1>3. Note(<<kind>>, rnd)
  BY DEF Frame, Said
<1> HIDE DEF rnd
<1>4. log' = Append(log, said) /\ said \in Remembered
  BY <1>1, <1>2, <1>3, NoteFacts DEF Remembered
<1>5. said.kind = kind /\ said.round = rnd
  OBVIOUS
<1> HIDE DEF said
<1>6. log' \in Seq(Remembered) /\ Len(log') = n + 1 /\ log'[n + 1] = said /\ \A i \in 1..n : log'[i] = log[i]
  BY <1>1, <1>4, AppendProperties
<1>7. log' # <<>> /\ Last(log') = said
  <2>1. log' # <<>>
    BY <1>6
  <2> QED
    BY <1>6, <2>1, LastIs
<1>8. OpenCalls(log, Len(log)) \subseteq OpenCalls(log', Len(log'))
  <2>1. n <= n + 1 /\ n + 1 \in Nat
    OBVIOUS
  <2> QED
    BY <1>1, <1>6, <2>1, OpenGrows
<1>9. OpenCalls(log, asked) \subseteq OpenCalls(log', asked)
  <2>1. \A i \in 1..asked : i \in 1..n
    BY <1>1
  <2>2. asked <= asked
    BY <1>1
  <2> QED
    BY <1>1, <1>6, <2>1, <2>2, OpenGrows
<1>10. OfRound(log', NewId, kind)
  <2>1. NewId = n + 1 /\ n + 1 \in 1..(n + 1)
    BY <1>1 DEF NewId
  <2> QED
    BY <1>5, <1>6, <1>7, <2>1 DEF OfRound
<1>11. ASSUME round # NewRound, NEW id, NEW k, OfRound(log, id, k) PROVE OfRound(log', id, k)
  <2>1. id \in 1..n /\ id \in 1..(n + 1) /\ log[id].kind = k /\ log[id].round = Last(log).round
    BY <1>1, <1>11 DEF OfRound
  <2>2. said.round = Last(log).round
    BY <1>5, <1>11 DEF rnd
  <2> QED
    BY <1>6, <1>7, <2>1, <2>2 DEF OfRound
<1>12. (\A id \in Range(round.calls) : round # NewRound) /\ (InTail => round # NewRound)
  BY NewRoundCalls DEF InTail
<1> QED
  BY <1>8, <1>9, <1>10, <1>11, <1>12 DEF RoundInLog

\* What all frames keep; the answer is each one's own matter.
LEMMA FrameAccounts ==
    ASSUME ConversationTypes, AccountsInv, NEW kind \in Kinds, Frame(kind),
           Range(round'.calls) = Range(round.calls) \cup (IF kind = "tool_use" THEN {NewId} ELSE {}),
           round'.server = IF kind = "server_tool_use" THEN NewId ELSE round.server,
           Tallied(answer, OpenCalls(log', Len(log')), Range(round'.calls)) =>
              Tallied(answer', OpenCalls(log', Len(log')), Range(round'.calls))
    PROVE  AccountsInv'
<1>1. /\ OpenCalls(log, Len(log)) \subseteq OpenCalls(log', Len(log'))
      /\ OpenCalls(log, asked) \subseteq OpenCalls(log', asked)
      /\ OfRound(log', NewId, kind)
      /\ \A id \in Range(round.calls) : OfRound(log', id, "tool_use")
      /\ InTail => OfRound(log', round.server, "server_tool_use")
  BY FrameLog DEF AccountsInv
<1>2. msgs' = msgs /\ loop' = loop /\ pc' = "model" /\ asked' = asked /\ pc = "model"
  BY FrameFacts
<1>3. MessagesAccounted'
  <2>1. AllAccounted(msgs, OpenCalls(log, asked), {})
    BY <1>2 DEF AccountsInv, MessagesAccounted, Known, Waiting
  <2>2. AllAccounted(msgs, OpenCalls(log', asked), {})
    BY <1>1, <2>1, AccountedGrow
  <2>3. Known' = asked /\ Waiting' = {}
    BY <1>2 DEF Known, Waiting
  <2> QED
    BY <1>2, <2>2, <2>3 DEF MessagesAccounted
<1>4. LoopAccounted'
  BY <1>2 DEF AccountsInv, LoopAccounted
<1>5. AnswerAccounted'
  <2>1. Tallied(answer, OpenCalls(log, Len(log)), Range(round.calls))
    BY DEF AccountsInv, AnswerAccounted
  <2>2. Range(round.calls) \subseteq OpenCalls(log', Len(log')) \cup Range(round'.calls)
    OBVIOUS
  <2>3. Tallied(answer, OpenCalls(log', Len(log')), Range(round'.calls))
    BY <1>1, <2>1, <2>2, TalliedMore
  <2> QED
    BY <2>3 DEF AnswerAccounted
<1>6. RoundInLog'
  <2>1. \A id \in Range(round'.calls) : OfRound(log', id, "tool_use")
    BY <1>1
  <2>2. InTail' => OfRound(log', round'.server, "server_tool_use")
    <3>1. CASE kind = "server_tool_use"
      BY <1>1, <3>1
    <3>2. CASE kind # "server_tool_use"
      BY <1>1, <3>2 DEF InTail
    <3> QED
      BY <3>1, <3>2
  <2> QED
    BY <2>1, <2>2 DEF RoundInLog
<1> QED
  BY <1>3, <1>4, <1>5, <1>6 DEF AccountsInv

LEMMA FramesAccount ==
    ASSUME ConversationTypes, AccountsInv, TextFrame \/ HeldFrame \/ BlobFrame \/ CallFrame \/ ServerToolFrame
    PROVE  AccountsInv'
<1> DEFINE open == OpenCalls(log', Len(log'))
           calls == Range(round'.calls)
<1>0. /\ answer \in Seq(AnswerBlocks) /\ round \in Rounds /\ Blobs(round.pending) \in Seq(AnswerBlocks)
      /\ answer \o Blobs(round.pending) \in Seq(AnswerBlocks) /\ round.calls \in Seq(Nat)
  BY ContentType, ConcatProperties, RoundFields DEF ConversationTypes
<1>1. ASSUME Tallied(answer, open, calls) PROVE Tallied(answer \o Blobs(round.pending), open, calls)
  <2> HIDE DEF open, calls
  <2> QED
    BY <1>0, <1>1, BlocksQuiet, TalliedQuiet
<1>2. CASE TextFrame
  <2>1. "text" \in Kinds /\ Frame("text") /\ Range(round'.calls) = Range(round.calls) /\ round'.server = round.server
    BY <1>0, <1>2 DEF TextFrame, Kinds, Released, Rounds
  <2> DEFINE shown == round.held \o <<NewId>>
  <2>2. shown \in Seq(Nat)
    <3>1. <<NewId>> \in Seq(Nat) /\ round.held \in Seq(Nat)
      BY <2>1, FrameFacts, RoundFields
    <3> QED
      BY <3>1, ConcatProperties
  <2>3. answer' = IF stream THEN (answer \o Blobs(round.pending)) \o Texts(shown) ELSE answer
    BY <1>2 DEF TextFrame
  <2> HIDE DEF shown
  <2>4. Texts(shown) \in Seq(AnswerBlocks) /\ Quiet(Texts(shown))
    <3>1. "text" \in Kinds /\ "text" # "tool_result"
      BY DEF Kinds
    <3> QED
      BY <2>2, <3>1, BlocksFacts, BlocksQuiet DEF Texts
  <2>5. Tallied(answer, open, calls) => Tallied(answer', open, calls)
    <3> HIDE DEF open, calls
    <3>1. ASSUME Tallied(answer, open, calls) PROVE Tallied((answer \o Blobs(round.pending)) \o Texts(shown), open, calls)
      BY <3>1, <1>0, <1>1, <2>4, TalliedQuiet
    <3> QED
      BY <2>3, <3>1
  <2>6. Range(round'.calls) = Range(round.calls) \cup (IF "text" = "tool_use" THEN {NewId} ELSE {})
        /\ round'.server = IF "text" = "server_tool_use" THEN NewId ELSE round.server
    BY <2>1
  <2> QED
    BY <2>1, <2>5, <2>6, FrameAccounts
<1>3. CASE HeldFrame
  <2>1. "text" \in Kinds /\ Frame("text") /\ round'.calls = round.calls /\ round'.server = round.server /\ answer' = answer
    BY <1>0, <1>3 DEF HeldFrame, Kinds, Rounds
  <2>2. Range(round'.calls) = Range(round.calls) \cup (IF "text" = "tool_use" THEN {NewId} ELSE {})
        /\ round'.server = IF "text" = "server_tool_use" THEN NewId ELSE round.server
    BY <2>1
  <2> QED
    BY <2>1, <2>2, FrameAccounts
<1>4. CASE BlobFrame
  <2>1. /\ "redacted_thinking" \in Kinds /\ Frame("redacted_thinking")
        /\ round'.calls = round.calls /\ round'.server = round.server /\ answer' = answer
    BY <1>0, <1>4 DEF BlobFrame, Kinds, Rounds
  <2>2. Range(round'.calls) = Range(round.calls) \cup (IF "redacted_thinking" = "tool_use" THEN {NewId} ELSE {})
        /\ round'.server = IF "redacted_thinking" = "server_tool_use" THEN NewId ELSE round.server
    BY <2>1
  <2> QED
    BY <2>1, <2>2, FrameAccounts
<1>5. CASE CallFrame
  <2>1. /\ "tool_use" \in Kinds /\ "tool_use" # "tool_result" /\ Frame("tool_use")
        /\ round'.calls = Append(round.calls, NewId) /\ round'.server = round.server
        /\ answer' = IF stream THEN (answer \o Blobs(round.pending)) \o Blocks("tool_use", <<NewId>>) ELSE answer
    BY <1>0, <1>5 DEF CallFrame, Kinds, Released, Rounds
  <2>2. NewId \in Nat /\ <<NewId>> \in Seq(Nat)
    BY <2>1, FrameFacts
  <2>3. Range(round'.calls) = Range(round.calls) \cup {NewId} /\ Range(<<NewId>>) = {NewId}
    <3>1. Range(<<NewId>>) = {NewId}
      BY DEF Range
    <3>2. Append(round.calls, NewId) = round.calls \o <<NewId>>
      BY <1>0, <2>2, AppendIsConcat
    <3> DEFINE calledBefore == round.calls
               calledNow == <<NewId>>
    <3>3. calledBefore \in Seq(Nat) /\ calledNow \in Seq(Nat)
      BY <1>0, <2>2
    <3> HIDE DEF calledBefore, calledNow
    <3>4. Range(calledBefore \o calledNow) = Range(calledBefore) \cup Range(calledNow)
      BY <3>3, ConcatRange
    <3> QED
      BY <2>1, <3>1, <3>2, <3>4 DEF calledBefore, calledNow
  <2>4. Blocks("tool_use", <<NewId>>) \in Seq(AnswerBlocks)
    BY <2>1, <2>2, BlocksFacts
  <2>5. Tallied(answer, open, calls) => Tallied(answer', open, calls)
    <3>1. Range(<<NewId>>) \subseteq open \cup calls
      BY <2>3
    <3> HIDE DEF open, calls
    <3>2. ASSUME Tallied(answer, open, calls)
          PROVE  Tallied((answer \o Blobs(round.pending)) \o Blocks("tool_use", <<NewId>>), open, calls)
      BY <3>1, <3>2, <1>0, <1>1, <2>4, TalliedCalls
    <3> QED
      BY <2>1, <3>2
  <2>6. Range(round'.calls) = Range(round.calls) \cup (IF "tool_use" = "tool_use" THEN {NewId} ELSE {})
        /\ round'.server = IF "tool_use" = "server_tool_use" THEN NewId ELSE round.server
    BY <2>1, <2>3
  <2> QED
    BY <2>1, <2>5, <2>6, FrameAccounts
<1>6. CASE ServerToolFrame
  <2>1. /\ "server_tool_use" \in Kinds /\ Frame("server_tool_use")
        /\ round'.calls = round.calls /\ round'.server = NewId /\ answer' = answer
    BY <1>0, <1>6 DEF ServerToolFrame, Kinds, Rounds
  <2>2. Range(round'.calls) = Range(round.calls) \cup (IF "server_tool_use" = "tool_use" THEN {NewId} ELSE {})
        /\ round'.server = IF "server_tool_use" = "server_tool_use" THEN NewId ELSE round.server
    BY <2>1
  <2> QED
    BY <2>1, <2>2, FrameAccounts
<1> QED
  BY <1>2, <1>3, <1>4, <1>5, <1>6

\* The client's steps.
LEMMA AppendAccounted ==
    ASSUME NEW X, NEW ms \in Seq(X), NEW m \in X, NEW open, NEW last, NEW later,
           AllAccounted(ms, open, later), later \subseteq open \cup RepliesIn(m), AccountedFor(m, open, last)
    PROVE  AllAccounted(Append(ms, m), open, last)
<1>1. <<m>> \in Seq(X) /\ <<m>> # <<>> /\ <<m>>[1] = m
  OBVIOUS
<1>2. Append(ms, m) = ms \o <<m>>
  BY AppendIsConcat
<1>3. AllAccounted(<<m>>, open, last)
  BY AccountedOne
<1>4. later \subseteq open \cup (IF <<m>> = <<>> THEN {} ELSE RepliesIn(<<m>>[1]))
  BY <1>1
<1>5. AllAccounted(ms \o <<m>>, open, last)
  BY <1>1, <1>3, <1>4, AccountedConcat
<1> QED
  BY <1>2, <1>5

\* A message without calls.
LEMMA CalllessAccounted ==
    ASSUME NEW m, \A j \in DOMAIN m.blocks : ~IsToolUse(m.blocks[j])
    PROVE  \A open, last : AccountedFor(m, open, last)
<1>1. CallsOf(m) = {}
  BY DEF CallsOf
<1> QED
  BY <1>1 DEF AccountedFor, Provided

LEMMA UnansweredFacts ==
    ASSUME ConversationTypes, msgs # <<>>, Last(msgs).role = "assistant"
    PROVE  Range(Unanswered) = ClientCalls(Last(msgs).blocks)
<1> DEFINE m == Last(msgs)
           places == {k \in DOMAIN m.blocks : m.blocks[k].kind = "tool_use"}
<1>1. m.blocks \in Seq(ContentBlocks)
  <2>1. m \in Messages
    BY LastIs DEF ConversationTypes, Given
  <2> HIDE DEF m
  <2> QED
    BY <2>1, BlockOf
<1>2. Unanswered = Ids(Chosen(m.blocks, places))
  <2>1. [i \in DOMAIN m.blocks |-> IF m.blocks[i].kind = "tool_use" THEN <<m.blocks[i]>> ELSE <<>>]
          = [i \in DOMAIN m.blocks |-> IF i \in places THEN <<m.blocks[i]>> ELSE <<>>]
    OBVIOUS
  <2> QED
    BY <2>1 DEF Unanswered, Calls, Selected, Chosen
<1>3. DOMAIN m.blocks \cap places = places /\ ClientCalls(m.blocks) = {m.blocks[i].id : i \in places}
  BY DEF ClientCalls
<1> HIDE DEF m, places
<1> DEFINE s == Chosen(m.blocks, places)
<1>4. s \in Seq(ContentBlocks) /\ Range(s) = {m.blocks[i] : i \in DOMAIN m.blocks \cap places}
  BY <1>1, ChosenFacts
<1> HIDE DEF s
<1>5. Range(Ids(s)) = {b.id : b \in Range(s)}
  BY <1>4, IdsOf
<1>6. {b.id : b \in Range(s)} = {m.blocks[i].id : i \in places}
  BY <1>3, <1>4
<1>7. Range(Unanswered) = ClientCalls(m.blocks)
  BY <1>2, <1>3, <1>5, <1>6 DEF s
<1> QED
  BY <1>7 DEF m

\* What waits is what the client has to answer.
LEMMA WaitingFacts ==
    ASSUME ConversationTypes, MessagesAccounted
    PROVE  Waiting \subseteq Range(Unanswered)
<1>1. CASE pc = "client" /\ msgs # <<>>
  <2>1. CASE Last(msgs).role = "assistant"
    BY <1>1, <2>1, UnansweredFacts DEF Waiting
  <2>2. CASE Last(msgs).role # "assistant"
    <3>1. Len(msgs) \in DOMAIN msgs /\ Last(msgs) = msgs[Len(msgs)]
      <4>1. msgs \in Seq(Given)
        BY DEF ConversationTypes
      <4>2. Len(msgs) \in Nat /\ DOMAIN msgs = 1..Len(msgs) /\ Last(msgs) = msgs[Len(msgs)] /\ Len(msgs) # 0
        BY <1>1, <4>1, LastIs, LenProperties, EmptySeq
      <4> QED
        BY <4>2
    <3>2. CallsOf(Last(msgs)) = {}
      BY <2>2, <3>1 DEF MessagesAccounted, AllAccounted, AccountedFor
    <3>3. ClientCalls(Last(msgs).blocks) \subseteq CallsOf(Last(msgs))
      BY DEF ClientCalls, CallsOf, IsToolUse
    <3> QED
      BY <3>2, <3>3 DEF Waiting
  <2> QED
    BY <2>1, <2>2
<1>2. CASE ~(pc = "client" /\ msgs # <<>>)
  BY <1>2 DEF Waiting
<1> QED
  BY <1>1, <1>2

LEMMA NothingWaits ==
    ASSUME ConversationTypes, MessagesAccounted, Unanswered = <<>>
    PROVE  Waiting = {}
<1>1. Range(<<>>) = {}
  BY DEF Range
<1> QED
  BY <1>1, WaitingFacts

\* The rest of the request lies still while the client speaks.
LEMMA ClientAccounts ==
    ASSUME ConversationTypes, AccountsInv, Idle, pc = "client", UNCHANGED <<loop, answer, round>>,
           OpenCalls(log, Len(log)) \subseteq OpenCalls(log', Len(log'))
    PROVE  LoopAccounted' /\ AnswerAccounted' /\ RoundInLog'
<1>1. round = NewRound /\ round' = NewRound
  BY DEF Idle
<1>2. LoopAccounted'
  BY DEF AccountsInv, LoopAccounted
<1>3. AnswerAccounted'
  <2>1. Tallied(answer, OpenCalls(log, Len(log)), Range(NewRound.calls))
    BY <1>1 DEF AccountsInv, AnswerAccounted
  <2>2. Range(NewRound.calls) \subseteq OpenCalls(log', Len(log')) \cup Range(NewRound.calls)
    OBVIOUS
  <2>3. Tallied(answer, OpenCalls(log', Len(log')), Range(NewRound.calls))
    BY <2>1, <2>2, TalliedMore
  <2> QED
    BY <1>1, <2>3 DEF AnswerAccounted
<1>4. RoundInLog'
  <2>1. Range(round'.calls) = {} /\ ~InTail'
    BY <1>1, NewRoundCalls DEF InTail
  <2> QED
    BY <2>1 DEF RoundInLog
<1> QED
  BY <1>2, <1>3, <1>4

LEMMA LogGrows ==
    ASSUME ConversationTypes, NEW kind \in Kinds, Note(<<kind>>, 0) \/ log' = log
    PROVE  OpenCalls(log, Len(log)) \subseteq OpenCalls(log', Len(log'))
<1>1. PICK n \in Nat : n = Len(log) /\ log \in Seq(Remembered)
  BY LenProperties DEF ConversationTypes
<1>2. CASE Note(<<kind>>, 0)
  <2> DEFINE said == [kind |-> kind, round |-> 0]
  <2>1. log' = Append(log, said) /\ said \in Remembered
    BY <1>1, <1>2, NoteFacts DEF Remembered
  <2> HIDE DEF said
  <2>2. Len(log') = n + 1 /\ \A i \in 1..n : log'[i] = log[i]
    BY <1>1, <2>1, AppendProperties
  <2>3. n <= n + 1 /\ n + 1 \in Nat
    OBVIOUS
  <2> QED
    BY <1>1, <2>2, <2>3, OpenGrows
<1>3. CASE log' = log
  BY <1>3
<1> QED
  BY <1>2, <1>3

\* A new message of the client's without calls, that answers what waits.
LEMMA SaysAccounts ==
    ASSUME ConversationTypes, AccountsInv, Idle, pc = "client", NEW kind \in Kinds, Note(<<kind>>, 0) \/ log' = log,
           NEW m \in Given, \A j \in DOMAIN m.blocks : ~IsToolUse(m.blocks[j]),
           msgs' = Append(msgs, m), UNCHANGED <<pc, loop, answer, round>>, Waiting \subseteq RepliesIn(m)
    PROVE  AccountsInv'
<1>1. OpenCalls(log, Len(log)) \subseteq OpenCalls(log', Len(log'))
  BY LogGrows
<1>2. LoopAccounted' /\ AnswerAccounted' /\ RoundInLog'
  BY <1>1, ClientAccounts
<1>3. MessagesAccounted'
  <2>1. msgs \in Seq(Given) /\ AllAccounted(msgs, OpenCalls(log, Len(log)), Waiting)
    BY DEF ConversationTypes, AccountsInv, MessagesAccounted, Known
  <2>2. AllAccounted(msgs, OpenCalls(log', Len(log')), Waiting)
    BY <1>1, <2>1, AccountedGrow
  <2>3. AccountedFor(m, OpenCalls(log', Len(log')), Waiting')
    BY CalllessAccounted
  <2>4. Waiting \subseteq OpenCalls(log', Len(log')) \cup RepliesIn(m)
    OBVIOUS
  <2>5. AllAccounted(Append(msgs, m), OpenCalls(log', Len(log')), Waiting')
    BY <2>1, <2>2, <2>3, <2>4, AppendAccounted
  <2>6. Known' = Len(log')
    BY DEF Known
  <2> QED
    BY <2>5, <2>6 DEF MessagesAccounted
<1> QED
  BY <1>2, <1>3 DEF AccountsInv

LEMMA AskAccounts ==
    ASSUME ConversationTypes, AccountsInv, Idle, Ask
    PROVE  AccountsInv'
<1>1. PICK role \in {"user", "developer"}, kind \in {"text", "image"} :
          Note(<<kind>>, 0) /\ Append1(role, <<Block(kind, NewId)>>)
  BY DEF Ask
<1> DEFINE blocks == <<Block(kind, NewId)>>
           m == Message(role, blocks)
<1>2. kind \in Kinds /\ NewId \in Nat /\ pc = "client" /\ Unanswered = <<>>
  <2>1. Len(log) \in Nat
    BY LenProperties DEF ConversationTypes
  <2> QED
    BY <2>1 DEF Ask, Turn, Kinds, NewId
<1>3. Block(kind, NewId) \in ContentBlocks /\ ~IsToolUse(Block(kind, NewId)) /\ ~IsToolResult(Block(kind, NewId))
  <2>1. <<>> \in Seq(Nat)
    OBVIOUS
  <2> QED
    BY <1>2, <2>1 DEF Block, ContentBlocks, Kinds, IsToolUse, IsToolResult
<1>4. blocks \in Seq(ContentBlocks) /\ DOMAIN blocks = {1} /\ blocks[1] = Block(kind, NewId)
  BY <1>3
<1> HIDE DEF blocks
<1>5. m.blocks = blocks /\ m.role = role
  BY DEF Message
<1>6. m \in Given
  <2>1. m \in Messages
    BY <1>4 DEF Message, Messages
  <2> HIDE DEF m
  <2>2. ~HasResult(m) /\ m.role # "assistant"
    BY <1>3, <1>4, <1>5 DEF HasResult
  <2> QED
    BY <2>1, <2>2 DEF Given
<1>7. \A j \in DOMAIN m.blocks : ~IsToolUse(m.blocks[j])
  <2> HIDE DEF m
  <2> QED
    BY <1>3, <1>4, <1>5
<1>8. msgs' = Append(msgs, m) /\ UNCHANGED <<pc, loop, answer, round>>
  BY <1>1 DEF Append1, requestVars, blocks
<1>9. Waiting = {}
  BY <1>2, NothingWaits DEF AccountsInv
<1> HIDE DEF m
<1> QED
  BY <1>1, <1>2, <1>6, <1>7, <1>8, <1>9, SaysAccounts

LEMMA AnswerAccounts ==
    ASSUME ConversationTypes, AccountsInv, Idle, Answer
    PROVE  AccountsInv'
<1>1. PICK n \in Nat : n = Len(Unanswered) /\ DOMAIN Unanswered = 1..n /\ n > 0 /\ \A i \in 1..n : Unanswered[i] \in Nat
  <2>1. Unanswered \in Seq(Nat) /\ Unanswered # <<>>
    BY UnansweredType DEF Answer
  <2> QED
    BY <2>1, LenProperties, ElementOfSeq, EmptySeq
<1>2. PICK order \in [DOMAIN Unanswered -> Range(Unanswered)], extra \in {"nothing", "text", "image"} :
          LET results == [i \in DOMAIN order |-> Block("tool_result", order[i])] IN
          /\ Range(order) = Range(Unanswered)
          /\ \/ /\ extra = "nothing"
                /\ Append1("user", results) /\ UNCHANGED log
             \/ /\ extra # "nothing" /\ Room(1) /\ Note(<<extra>>, 0)
                /\ Append1("user", IF extra = "text" THEN Append(results, Block("text", NewId))
                                   ELSE [results EXCEPT ![1].images = <<NewId>>])
  BY DEF Answer
<1> DEFINE results == [i \in DOMAIN order |-> Block("tool_result", order[i])]
           more == IF extra = "text" THEN Append(results, Block("text", NewId)) ELSE [results EXCEPT ![1].images = <<NewId>>]
<1>3. NewId \in Nat /\ <<NewId>> \in Seq(Nat) /\ <<>> \in Seq(Nat)
  <2>1. Len(log) \in Nat
    BY LenProperties DEF ConversationTypes
  <2> QED
    BY <2>1 DEF NewId
<1>4. /\ results \in Seq(ContentBlocks) /\ DOMAIN results = 1..n /\ Len(results) = n
      /\ \A i \in 1..n : results[i].kind = "tool_result" /\ results[i].id = order[i] /\ results[i] \in ContentBlocks
  <2>1. \A i \in 1..n : order[i] \in Nat
    BY <1>1 DEF Range
  <2>2. \A i \in 1..n : Block("tool_result", order[i]) \in ContentBlocks
    BY <2>1, <1>3 DEF Block, ContentBlocks, Kinds
  <2>3. results = [i \in 1..n |-> Block("tool_result", order[i])]
    BY <1>1
  <2>4. \A i \in 1..n : results[i] = Block("tool_result", order[i])
    BY <2>3
  <2> HIDE DEF results
  <2>5. results \in Seq(ContentBlocks) /\ DOMAIN results = 1..n /\ Len(results) = n
    BY <2>2, <2>3
  <2> QED
    BY <2>2, <2>4, <2>5 DEF Block
<1> HIDE DEF results
<1> DEFINE Replies(B) ==
              /\ B \in Seq(ContentBlocks)
              /\ \A i \in 1..n : i \in DOMAIN B /\ B[i].kind = "tool_result" /\ B[i].id = order[i]
              /\ \A j \in DOMAIN B : ~IsToolUse(B[j])
<1>5. Replies(results)
  BY <1>4 DEF IsToolUse
<1>6. ASSUME extra = "text" PROVE Replies(Append(results, Block("text", NewId)))
  <2> DEFINE b == Block("text", NewId)
             B == Append(results, b)
  <2>1. b \in ContentBlocks /\ ~IsToolUse(b)
    BY <1>3 DEF Block, ContentBlocks, Kinds, IsToolUse
  <2> HIDE DEF b
  <2>2. B \in Seq(ContentBlocks) /\ Len(B) = n + 1 /\ B[n + 1] = b /\ \A i \in 1..n : B[i] = results[i]
    BY <1>4, <2>1, AppendProperties
  <2> HIDE DEF B
  <2>3. DOMAIN B = 1..(n + 1) /\ (\A i \in 1..n : i \in 1..(n + 1)) /\ \A j \in 1..(n + 1) : j \in 1..n \/ j = n + 1
    BY <2>2, LenProperties
  <2>4. Replies(B)
    BY <1>4, <2>1, <2>2, <2>3 DEF IsToolUse
  <2> HIDE DEF Replies
  <2> QED
    BY <2>4 DEF B, b
<1>7. ASSUME extra = "image" PROVE Replies([results EXCEPT ![1].images = <<NewId>>])
  <2> DEFINE b == [results[1] EXCEPT !.images = <<NewId>>]
             B == [results EXCEPT ![1].images = <<NewId>>]
  <2>1. 1 \in 1..n
    BY <1>1
  <2>2. b \in ContentBlocks /\ b.kind = "tool_result" /\ b.id = order[1]
    BY <1>3, <1>4, <2>1 DEF ContentBlocks
  <2>3. B = [i \in 1..n |-> IF i = 1 THEN b ELSE results[i]]
    <3>1. results = [i \in 1..n |-> results[i]]
      BY <1>4
    <3> QED
      BY <2>1, <3>1
  <2> HIDE DEF b, B
  <2>4. \A i \in 1..n : B[i] \in ContentBlocks /\ B[i].kind = "tool_result" /\ B[i].id = order[i]
    BY <1>4, <2>2, <2>3
  <2>5. B \in Seq(ContentBlocks) /\ DOMAIN B = 1..n
    BY <2>3, <2>4
  <2>6. Replies(B)
    BY <2>4, <2>5 DEF IsToolUse
  <2> HIDE DEF Replies
  <2> QED
    BY <2>6 DEF B
<1> DEFINE Saying(B, k) == Replies(B) /\ Append1("user", B) /\ (Note(<<k>>, 0) \/ log' = log)
<1>7a. \E B : \E k \in Kinds : Saying(B, k)
  <2> HIDE DEF Replies
  <2>1. CASE extra = "nothing"
    <3>1. Append1("user", results) /\ log' = log /\ "text" \in Kinds
      BY <1>2, <2>1 DEF results, Kinds
    <3>2. Saying(results, "text")
      BY <3>1, <1>5
    <3> HIDE DEF Saying
    <3> QED
      BY <3>1, <3>2
  <2>2. CASE extra = "text"
    <3> DEFINE X == Append(results, Block("text", NewId))
    <3>1. Append1("user", X) /\ Note(<<extra>>, 0) /\ extra \in Kinds
      BY <1>2, <2>2 DEF results, Kinds
    <3>2. Replies(X)
      BY <2>2, <1>6
    <3> HIDE DEF X
    <3>3. Saying(X, extra)
      BY <3>1, <3>2
    <3> HIDE DEF Saying
    <3> QED
      BY <3>1, <3>3
  <2>3. CASE extra = "image"
    <3> DEFINE X == [results EXCEPT ![1].images = <<NewId>>]
    <3>1. Append1("user", X) /\ Note(<<extra>>, 0) /\ extra \in Kinds
      BY <1>2, <2>3 DEF results, Kinds
    <3>2. Replies(X)
      BY <2>3, <1>7
    <3> HIDE DEF X
    <3>3. Saying(X, extra)
      BY <3>1, <3>2
    <3> HIDE DEF Saying
    <3> QED
      BY <3>1, <3>3
  <2> QED
    BY <2>1, <2>2, <2>3
<1> HIDE DEF Saying
<1>7b. PICK B : \E k \in Kinds : Saying(B, k)
  BY <1>7a
<1>7c. PICK kind \in Kinds : Saying(B, kind)
  BY <1>7b
<1>8. Replies(B) /\ Append1("user", B) /\ (Note(<<kind>>, 0) \/ log' = log)
  BY <1>7c DEF Saying
<1> DEFINE m == Message("user", B)
<1>9. m.blocks = B /\ m.role = "user"
  BY DEF Message
<1>10. m \in Given /\ \A j \in DOMAIN m.blocks : ~IsToolUse(m.blocks[j])
  BY <1>8, <1>9, UserTypes
<1>11. msgs' = Append(msgs, m) /\ UNCHANGED <<pc, loop, answer, round>> /\ pc = "client"
  BY <1>8 DEF Append1, requestVars, Answer, Turn
<1> HIDE DEF m
<1>12. Waiting \subseteq RepliesIn(m)
  <2>1. ASSUME NEW id \in Range(order) PROVE id \in ResultsOf(m)
    <3>1. PICK i \in 1..n : order[i] = id
      BY <1>1, <2>1 DEF Range
    <3>2. i \in DOMAIN B /\ IsToolResult(B[i]) /\ B[i].id = id
      BY <1>8, <3>1 DEF IsToolResult
    <3> QED
      BY <1>9, <3>2 DEF ResultsOf
  <2>2. Waiting \subseteq Range(Unanswered)
    BY WaitingFacts DEF AccountsInv
  <2>3. Range(order) = Range(Unanswered)
    BY <1>2
  <2> QED
    BY <1>9, <2>1, <2>2, <2>3 DEF RepliesIn
<1>13. Note(<<kind>>, 0) \/ log' = log
  BY <1>8
<1> QED
  BY <1>10, <1>11, <1>12, <1>13, SaysAccounts

LEMMA ForgetAccounts ==
    ASSUME ConversationTypes, AccountsInv, Idle, Forget
    PROVE  AccountsInv'
<1>1. PICK n \in 1..(Len(msgs) - 1) : msgs' = SubSeq(msgs, n + 1, Len(msgs))
  BY DEF Forget
<1>2. UNCHANGED <<pc, loop, answer, round, log>> /\ pc = "client"
  BY DEF Forget, requestVars
<1>3. LoopAccounted' /\ AnswerAccounted' /\ RoundInLog'
  BY <1>2, ClientAccounts
<1>4. PICK a \in Nat : a = Len(msgs) /\ msgs \in Seq(Given) /\ n \in Nat /\ n < a /\ \A i \in 1..a : msgs[i] \in Given
  <2>1. msgs \in Seq(Given)
    BY DEF ConversationTypes
  <2> QED
    BY <2>1, LenProperties, ElementOfSeq
<1>5. msgs' # <<>> /\ msgs # <<>> /\ Last(msgs') = Last(msgs)
  <2> DEFINE U == SubSeq(msgs, n + 1, a)
  <2>1. \A i \in (n + 1)..a : msgs[i] \in Given
    BY <1>4
  <2>2. /\ U \in Seq(Given)
        /\ Len(U) = IF n + 1 <= a THEN a - (n + 1) + 1 ELSE 0
        /\ \A i \in 1..(a - (n + 1) + 1) : U[i] = msgs[(n + 1) + i - 1]
    BY <1>4, <2>1, SubSeqProperties
  <2>3. msgs' = U
    BY <1>1, <1>4
  <2> HIDE DEF U
  <2>4. a - (n + 1) + 1 = a - n /\ n + 1 <= a /\ a - n \in 1..(a - (n + 1) + 1) /\ (n + 1) + (a - n) - 1 = a /\ a - n # 0
    BY <1>4
  <2>5. Len(U) = a - n /\ U[a - n] = msgs[a]
    BY <2>2, <2>4
  <2>6. U # <<>> /\ msgs # <<>>
    BY <1>4, <2>2, <2>4, <2>5, EmptySeq
  <2>7. Last(U) = U[a - n]
    <3>1. U \in Seq(Given) /\ U # <<>> /\ Len(U) = a - n
      BY <2>2, <2>5, <2>6
    <3>2. Last(U) = U[Len(U)]
      BY <3>1, LastIs
    <3> QED
      BY <3>1, <3>2
  <2>8. Last(msgs) = msgs[a]
    BY <1>4, <2>6, LastIs
  <2> QED
    BY <2>3, <2>5, <2>6, <2>7, <2>8
<1>6. Waiting' = Waiting /\ Known' = Known
  BY <1>2, <1>5 DEF Waiting, Known
<1>7. MessagesAccounted'
  <2>1. AllAccounted(msgs, OpenCalls(log, Known), Waiting)
    BY DEF AccountsInv, MessagesAccounted
  <2>2. AllAccounted(SubSeq(msgs, n + 1, Len(msgs)), OpenCalls(log, Known), Waiting)
    BY <1>4, <2>1, AccountedRest
  <2> QED
    BY <1>1, <1>2, <1>6, <2>2 DEF MessagesAccounted
<1> QED
  BY <1>3, <1>7 DEF AccountsInv

LEMMA SendAccounts ==
    ASSUME ConversationTypes, AccountsInv, Idle, Send
    PROVE  AccountsInv'
<1>1. UNCHANGED <<msgs, answer, loop, round, log>> /\ asked' = Len(log) /\ pc' = "model" /\ pc = "client" /\ Unanswered = <<>>
  BY DEF Send
<1>2. LoopAccounted' /\ AnswerAccounted' /\ RoundInLog'
  BY <1>1, ClientAccounts
<1>3. Waiting = {} /\ Waiting' = {} /\ Known' = Known
  BY <1>1, NothingWaits DEF AccountsInv, Waiting, Known
<1>4. MessagesAccounted'
  BY <1>1, <1>3 DEF AccountsInv, MessagesAccounted
<1> QED
  BY <1>2, <1>4 DEF AccountsInv

\* The ends of a round.
LEMMA FinishTallied ==
    ASSUME NEW r \in Rounds, r.before <= Len(r.pending), NEW B \in Seq(AnswerBlocks),
           NEW open, NEW calls, Tallied(B, open, calls)
    PROVE  Tallied(Finish(B, r), open, calls)
<1> DEFINE kept == IF HasText(r) /\ r.calls = <<>>
                   THEN SubSeq(r.pending, 1, IF r.held = <<>> THEN 0 ELSE r.before)
                   ELSE r.pending
<1>1. kept \in Seq(Nat)
  <2>1. r.pending \in Seq(Nat) /\ r.before \in Nat /\ Len(r.pending) \in Nat
    BY LenProperties DEF Rounds
  <2>2. SubSeq(r.pending, 1, 0) \in Seq(Nat) /\ SubSeq(r.pending, 1, r.before) \in Seq(Nat)
    BY <2>1, PrefixType
  <2> QED
    BY <2>1, <2>2
<1>2. Finish(B, r) = (B \o Blobs(kept)) \o Texts(r.held)
  BY DEF Finish
<1> HIDE DEF kept
<1>3. Blobs(kept) \in Seq(AnswerBlocks) /\ Texts(r.held) \in Seq(AnswerBlocks)
  <2>1. "redacted_thinking" \in Kinds
    BY DEF Kinds
  <2> QED
    BY <1>1, <2>1, BlocksFacts, ContentType DEF Blobs
<1>4. B \o Blobs(kept) \in Seq(AnswerBlocks)
  BY <1>3, ConcatProperties
<1>5. Tallied(B \o Blobs(kept), open, calls)
  BY <1>3, BlocksQuiet, TalliedQuiet
<1>6. Tallied((B \o Blobs(kept)) \o Texts(r.held), open, calls)
  BY <1>3, <1>4, <1>5, BlocksQuiet, TalliedQuiet
<1> QED
  BY <1>2, <1>6

Regroups(A, B, C) == (A \o B) \o C = A \o (B \o C)

LEMMA ConcatRegroups == \A X : \A A, B, C \in Seq(X) : Regroups(A, B, C)
<1> SUFFICES ASSUME NEW X, NEW A \in Seq(X), NEW B \in Seq(X), NEW C \in Seq(X) PROVE Regroups(A, B, C)
  OBVIOUS
<1> QED
  BY ConcatAssociative DEF Regroups

LEMMA TalliedWithCalls ==
    ASSUME NEW X, NEW B \in Seq(X), NEW ids, Blocks("tool_use", ids) \in Seq(X), NEW open, NEW calls, Tallied(B, open, calls),
           Range(ids) \subseteq open \cup calls, NEW D, D = B \o Blocks("tool_use", ids)
    PROVE  Tallied(D, open, calls)
  BY TalliedCalls

LEMMA ContentTallied ==
    ASSUME NEW r \in Rounds, NEW B \in Seq(AnswerBlocks), NEW open, NEW calls, Tallied(B, open, calls),
           Range(r.calls) \subseteq open \cup calls
    PROVE  Tallied(B \o Content(r), open, calls)
<1> DEFINE blobs == Blobs(r.redacted)
           texts == Texts(r.text \o r.held)
           uses == Blocks("tool_use", r.calls)
<1>1. blobs \in Seq(AnswerBlocks) /\ texts \in Seq(AnswerBlocks) /\ uses \in Seq(AnswerBlocks)
  BY ContentType
<1>2. Quiet(blobs) /\ Quiet(texts)
  BY BlocksQuiet
<1>3. Content(r) = (blobs \o texts) \o uses
  BY DEF Content
<1> HIDE DEF blobs, texts
<1>4. B \o blobs \in Seq(AnswerBlocks) /\ blobs \o texts \in Seq(AnswerBlocks) /\ (B \o blobs) \o texts \in Seq(AnswerBlocks)
  BY <1>1, ConcatProperties
<1>5. Tallied(B \o blobs, open, calls)
  BY <1>1, <1>2, TalliedQuiet
<1>6. Tallied((B \o blobs) \o texts, open, calls)
  BY <1>1, <1>2, <1>4, <1>5, TalliedQuiet
<1>7. Tallied(((B \o blobs) \o texts) \o uses, open, calls)
  <2> DEFINE C == (B \o blobs) \o texts
             D == C \o uses
  <2>1. C \in Seq(AnswerBlocks) /\ Tallied(C, open, calls)
    BY <1>1, <1>4, <1>6
  <2> HIDE DEF C
  <2>2. D = C \o Blocks("tool_use", r.calls) /\ Blocks("tool_use", r.calls) \in Seq(AnswerBlocks)
    BY <1>1
  <2> HIDE DEF D, uses
  <2>3. Tallied(D, open, calls)
    BY <2>1, <2>2, TalliedWithCalls
  <2> QED
    BY <2>3 DEF C, D
<1>8. ((B \o blobs) \o texts) \o uses = B \o ((blobs \o texts) \o uses)
  <2> HIDE DEF uses
  <2> DEFINE W == blobs \o texts
  <2>1. W \in Seq(AnswerBlocks)
    BY <1>4
  <2> HIDE DEF W
  <2>2. Regroups(B, blobs, texts)
    BY <1>1, ConcatRegroups
  <2>3. Regroups(B, W, uses)
    BY <1>1, <2>1, ConcatRegroups
  <2> QED
    BY <2>2, <2>3 DEF Regroups, W
<1> QED
  BY <1>3, <1>7, <1>8

LEMMA ShownTallied ==
    ASSUME ConversationTypes, AccountsInv, InTail, NEW result \in {"tool_search_tool_result", "advisor_tool_result"}
    PROVE  Tallied(Shown(round, result), OpenCalls(log, Len(log)), {})
<1> DEFINE open == OpenCalls(log, Len(log))
           shown == IF stream THEN Blobs(round.pending) ELSE Content(round)
           use == Block("server_tool_use", round.server)
           res == Block(result, round.server)
<1>1. answer \in Seq(AnswerBlocks) /\ round \in Rounds /\ round.server \in Nat
  BY DEF ConversationTypes, Rounds
<1>2. Range(round.calls) \subseteq open
  BY SharedCalls DEF AccountsInv, RoundInLog
<1>3. Tallied(answer, open, Range(round.calls))
  BY DEF AccountsInv, AnswerAccounted
<1> HIDE DEF open
<1>4. Tallied(answer, open, {})
  BY <1>2, <1>3, TalliedMore
<1>5. shown \in Seq(AnswerBlocks)
  BY <1>1, ContentType
<1>6. Tallied(answer \o shown, open, {})
  <2>1. Tallied(answer \o Blobs(round.pending), open, {})
    BY <1>1, <1>4, ContentType, BlocksQuiet, TalliedQuiet
  <2>2. Tallied(answer \o Content(round), open, {})
    <3>1. Range(round.calls) \subseteq open \cup {}
      BY <1>2
    <3> QED
      BY <1>1, <1>4, <3>1, ContentTallied
  <2> QED
    BY <2>1, <2>2
<1>7. <<use, res>> \in Seq(AnswerBlocks)
  <2>1. use \in AnswerBlocks /\ res \in AnswerBlocks
    <3>1. <<>> \in Seq(Nat)
      OBVIOUS
    <3> QED
      BY <1>1, <3>1 DEF Block, AnswerBlocks, ContentBlocks, Kinds
  <2> HIDE DEF use, res
  <2> QED
    BY <2>1
<1>8. Shown(round, result) = (answer \o shown) \o <<use, res>>
  BY DEF Shown
<1> HIDE DEF shown
<1>9. answer \o shown \in Seq(AnswerBlocks)
  BY <1>1, <1>5, ConcatProperties
<1>10. Tallied((answer \o shown) \o <<use, res>>, open, {})
  BY <1>6, <1>7, <1>9, TalliedPair
<1> QED
  BY <1>8, <1>10 DEF open

\* The request is over: the client has all of the log that is left.
LEMMA OverAccounts ==
    ASSUME Over, NEW open, AllAccounted(msgs', open, Waiting'), open \subseteq OpenCalls(log', Len(log'))
    PROVE  AccountsInv'
<1>1. pc' = "client" /\ answer' = <<>> /\ loop' = <<>> /\ round' = NewRound
  BY DEF Over
<1>2. MessagesAccounted'
  <2>1. Known' = Len(log')
    BY <1>1 DEF Known
  <2>2. AllAccounted(msgs', OpenCalls(log', Len(log')), Waiting')
    BY AccountedGrow
  <2> QED
    BY <2>1, <2>2 DEF MessagesAccounted
<1>3. LoopAccounted'
  BY <1>1, NewRoundCalls DEF LoopAccounted
<1>4. AnswerAccounted'
  <2>1. Tallied(<<>>, {}, {})
    BY NewRoundCalls
  <2>2. Tallied(<<>>, OpenCalls(log', Len(log')), Range(NewRound.calls))
    BY <2>1, TalliedMore
  <2> QED
    BY <1>1, <2>2 DEF AnswerAccounted
<1>5. RoundInLog'
  <2>1. Range(round'.calls) = {} /\ ~InTail'
    BY <1>1, NewRoundCalls DEF InTail
  <2> QED
    BY <2>1 DEF RoundInLog
<1> QED
  BY <1>2, <1>3, <1>4, <1>5 DEF AccountsInv

LEMMA AskedCalls == ConversationTypes => OpenCalls(log, asked) \subseteq OpenCalls(log, Len(log))
<1> SUFFICES ASSUME ConversationTypes PROVE OpenCalls(log, asked) \subseteq OpenCalls(log, Len(log))
  OBVIOUS
<1>1. PICK n \in Nat : n = Len(log) /\ asked \in Nat /\ asked <= n
  BY LenProperties DEF ConversationTypes
<1>2. \A i \in 1..asked : log[i] = log[i]
  OBVIOUS
<1> QED
  BY <1>1, <1>2, OpenGrows

LEMMA AskedAccounts == AccountsInv /\ pc = "model" => AllAccounted(msgs, OpenCalls(log, asked), {})
  BY DEF AccountsInv, MessagesAccounted, Known, Waiting

LEMMA DeliverAccounts ==
    ASSUME ConversationTypes, AccountsInv, pc = "model", NEW B \in Seq(AnswerBlocks), Deliver(B),
           Tallied(B, OpenCalls(log, Len(log)), Range(round.calls))
    PROVE  AccountsInv'
<1> DEFINE open == OpenCalls(log, Len(log))
           m == Message("assistant", B)
<1>1. Over /\ log' = log /\ pc' = "client"
  BY DEF Deliver, Over
<1>2. msgs' = Append(msgs, m) /\ Last(msgs') = m /\ msgs' # <<>>
  <2>1. msgs' = Append(msgs, m) /\ Last(msgs') = m
    BY DeliverFacts
  <2>2. msgs \in Seq(Given) /\ m \in Given
    BY AnswerTypes DEF ConversationTypes
  <2> HIDE DEF m
  <2>3. Append(msgs, m) # <<>>
    BY <2>2, AppendProperties
  <2> QED
    BY <2>1, <2>3
<1>3. m \in Given /\ m.blocks = B /\ m.role = "assistant" /\ msgs \in Seq(Given)
  BY AnswerTypes DEF ConversationTypes, Message
<1> HIDE DEF m
<1>4. Waiting' = ClientCalls(B)
  BY <1>1, <1>2, <1>3 DEF Waiting
<1>5. AccountedFor(m, open, ClientCalls(B))
  BY <1>3 DEF AccountedFor, Tallied
<1>6. AllAccounted(msgs, open, {})
  BY AskedAccounts, AskedCalls, AccountedGrow
<1>7. {} \subseteq open \cup RepliesIn(m)
  OBVIOUS
<1> HIDE DEF open
<1>8. AllAccounted(Append(msgs, m), open, ClientCalls(B))
  BY <1>3, <1>5, <1>6, <1>7, AppendAccounted
<1>9. open \subseteq OpenCalls(log', Len(log'))
  BY <1>1 DEF open
<1> QED
  BY <1>1, <1>2, <1>4, <1>8, <1>9, OverAccounts

LEMMA AnsweredAccounts ==
    ASSUME ConversationTypes, AccountsInv, Answered
    PROVE  AccountsInv'
<1> DEFINE B == IF stream THEN Finish(answer, round) ELSE answer \o Content(round)
           open == OpenCalls(log, Len(log))
           calls == Range(round.calls)
<1>1. answer \in Seq(AnswerBlocks) /\ round \in Rounds /\ round.before <= Len(round.pending)
  BY DEF ConversationTypes
<1>2. B \in Seq(AnswerBlocks)
  BY <1>1, FinishType, ContentType, ConcatProperties
<1>3. Deliver(B) /\ pc = "model"
  BY DEF Answered
<1>4. Tallied(answer, open, calls)
  BY DEF AccountsInv, AnswerAccounted
<1>5. Tallied(B, open, calls)
  <2>1. calls \subseteq open \cup calls
    OBVIOUS
  <2> HIDE DEF open
  <2>2. Tallied(Finish(answer, round), open, calls)
    BY <1>1, <1>4, FinishTallied
  <2>3. Tallied(answer \o Content(round), open, calls)
    BY <1>1, <1>4, <2>1, ContentTallied
  <2> QED
    BY <2>2, <2>3
<1> HIDE DEF B
<1> QED
  BY <1>2, <1>3, <1>5, DeliverAccounts

LEMMA FailedAccounts ==
    ASSUME ConversationTypes, AccountsInv, Failed
    PROVE  AccountsInv'
<1>1. Over /\ log' = SubSeq(log, 1, asked) /\ msgs' = msgs /\ pc = "model"
  BY DEF Failed
<1>2. asked \in Nat /\ Len(log') = asked /\ \A i \in 1..asked : log'[i] = log[i]
  BY <1>1, PrefixType DEF ConversationTypes
<1>3. OpenCalls(log, asked) \subseteq OpenCalls(log', Len(log'))
  <2>1. asked <= asked
    BY <1>2
  <2>2. OpenCalls(log, asked) \subseteq OpenCalls(log', asked)
    BY <1>2, <2>1, OpenGrows
  <2> QED
    BY <1>2, <2>2
<1>4. AllAccounted(msgs, OpenCalls(log, asked), Waiting')
  BY <1>1, AskedAccounts, AccountedGrow
<1> QED
  BY <1>1, <1>3, <1>4, OverAccounts

LEMMA PairAppend == ASSUME NEW X, NEW x \in X, NEW y \in X PROVE Append(<<x>>, y) = <<x, y>>
<1> DEFINE S == Append(<<x>>, y)
           T == <<x, y>>
<1>1. S \in Seq(X) /\ Len(S) = 2 /\ S[1] = x /\ S[2] = y
  OBVIOUS
<1>2. T \in Seq(X) /\ Len(T) = 2 /\ T[1] = x /\ T[2] = y
  OBVIOUS
<1> HIDE DEF S, T
<1>3. \A i \in 1..2 : i = 1 \/ i = 2
  OBVIOUS
<1>4. Len(S) = Len(T) /\ \A i \in 1..Len(S) : S[i] = T[i]
  BY <1>1, <1>2, <1>3
<1>5. S = T
  BY <1>1, <1>2, <1>4, SeqEqual
<1> QED
  BY <1>5 DEF S, T

\* What the loop appends has its call answered in the message behind it.
LEMMA ServerRoundAccounted ==
    ASSUME NEW r \in Rounds
    PROVE  ServerRound(r) \in Seq(Given) /\ AllAccounted(ServerRound(r), {}, {})
<1> DEFINE uses == Blocks("server_tool_use", <<r.server>>)
           said == Blobs(r.redacted) \o uses
           res == Blocks("tool_result", <<r.server>>)
           a == Message("assistant", said)
           u == Message("user", res)
<1>1. r.server \in Nat /\ <<r.server>> \in Seq(Nat) /\ <<r.server>> # <<>>
  BY DEF Rounds
<1>2. "server_tool_use" \in Kinds \ {"tool_result"} /\ "tool_result" \in Kinds
  BY DEF Kinds
<1>3. Blobs(r.redacted) \in Seq(AnswerBlocks) /\ uses \in Seq(AnswerBlocks) /\ said \in Seq(AnswerBlocks)
  BY <1>1, <1>2, BlocksFacts, ContentType, LastBlock
<1>4. res \in Seq(ContentBlocks)
  BY <1>1, <1>2, BlocksFacts
<1>5. DOMAIN uses = {1} /\ uses[1].kind = "server_tool_use" /\ uses[1].id = r.server
  BY DEF Blocks, Block
<1>6. DOMAIN res = {1} /\ res[1].kind = "tool_result" /\ res[1].id = r.server
  BY DEF Blocks, Block
<1> HIDE DEF uses, res
<1>7. Provided(said, {}, {r.server})
  <2>1. Quiet(Blobs(r.redacted))
    BY BlocksQuiet
  <2>2. Provided(Blobs(r.redacted), {}, {})
    BY <2>1, QuietFacts
  <2>3. Provided(uses, {}, {r.server})
    BY <1>5 DEF Provided, NoResultBehind, IsServerToolResult
  <2> QED
    BY <1>3, <2>2, <2>3, ProvidedConcat
<1>8. a \in Given /\ a.blocks = said /\ a.role = "assistant"
  BY <1>3, AnswerTypes DEF Message
<1>9. u \in Given /\ u.blocks = res /\ u.role = "user"
  BY <1>4, UserTypes DEF Message
<1> HIDE DEF said, a, u
<1>10. AccountedFor(a, {}, {r.server})
  BY <1>7, <1>8 DEF AccountedFor
<1>11. ~IsToolUse(res[1])
  BY <1>6 DEF IsToolUse
<1>12. AccountedFor(u, {}, {})
  <2>1. \A j \in DOMAIN u.blocks : ~IsToolUse(u.blocks[j])
    BY <1>6, <1>9, <1>11
  <2> QED
    BY <2>1, CalllessAccounted
<1>13. RepliesIn(u) = {r.server}
  BY <1>6, <1>9 DEF RepliesIn, ResultsOf, IsToolResult
<1>14. <<a>> \in Seq(Given) /\ <<u>> \in Seq(Given) /\ <<a>> \o <<u>> = <<a, u>> /\ <<u>> # <<>> /\ <<u>>[1] = u
  <2>1. <<a>> \in Seq(Given) /\ <<u>> \in Seq(Given) /\ <<u>> # <<>> /\ <<u>>[1] = u
    BY <1>8, <1>9
  <2>2. <<a>> \o <<u>> = <<a, u>>
    <3>1. Append(<<a>>, u) = <<a>> \o <<u>>
      BY <1>8, <1>9, <2>1, AppendIsConcat
    <3>2. Append(<<a>>, u) = <<a, u>>
      BY <1>8, <1>9, PairAppend
    <3> QED
      BY <3>1, <3>2
  <2> QED
    BY <2>1, <2>2
<1>15. AllAccounted(<<a>>, {}, {r.server}) /\ AllAccounted(<<u>>, {}, {})
  BY <1>10, <1>12, AccountedOne
<1>16. {r.server} \subseteq {} \cup (IF <<u>> = <<>> THEN {} ELSE RepliesIn(<<u>>[1]))
  BY <1>13, <1>14
<1>17. AllAccounted(<<a>> \o <<u>>, {}, {})
  BY <1>14, <1>15, <1>16, AccountedConcat
<1>18. ServerRound(r) = <<a, u>> /\ <<a, u>> \in Seq(Given)
  <2>1. ServerRound(r) = <<a, u>>
    BY DEF ServerRound, a, u, said, uses, res
  <2> QED
    BY <1>8, <1>9, <2>1
<1> QED
  BY <1>14, <1>17, <1>18

LEMMA ServerToolAccounts ==
    ASSUME ConversationTypes, AccountsInv, ServerTool
    PROVE  AccountsInv'
<1> DEFINE open == OpenCalls(log, Len(log))
<1>1. PICK result \in {"tool_search_tool_result", "advisor_tool_result"} :
          LET shown == Shown(round, result) IN
          \/ /\ round.calls = <<>> /\ used < MaxRounds /\ Room(1)
             /\ loop' = loop \o ServerRound(round)
             /\ answer' = shown /\ used' = used + 1 /\ round' = NewRound
             /\ UNCHANGED <<clientVars, pc, stream, log, asked>>
          \/ /\ round.calls # <<>> \/ used = MaxRounds
             /\ Deliver(IF stream THEN Finish(shown, Released) ELSE shown)
  BY DEF ServerTool
<1>2. pc = "model" /\ InTail /\ round \in Rounds
  BY DEF ServerTool, ConversationTypes
<1>3. Shown(round, result) \in Seq(AnswerBlocks) /\ Tallied(Shown(round, result), open, {})
  BY <1>2, ShownType, ShownTallied
<1> HIDE DEF open
<1>4. CASE /\ loop' = loop \o ServerRound(round)
           /\ answer' = Shown(round, result) /\ round' = NewRound
           /\ UNCHANGED <<clientVars, pc, stream, log, asked>>
  <2>1. msgs' = msgs /\ log' = log /\ pc' = "model" /\ asked' = asked
    BY <1>2, <1>4 DEF clientVars
  <2>2. MessagesAccounted'
    BY <1>2, <2>1 DEF AccountsInv, MessagesAccounted, Known, Waiting
  <2>3. LoopAccounted'
    <3>1. loop \in Seq(Given) /\ AllAccounted(loop, {}, {})
      BY DEF ConversationTypes, AccountsInv, LoopAccounted
    <3>2. ServerRound(round) \in Seq(Given) /\ AllAccounted(ServerRound(round), {}, {})
      BY <1>2, ServerRoundAccounted
    <3>3. AllAccounted(loop \o ServerRound(round), {}, {})
      BY <3>1, <3>2, AccountedConcat
    <3> QED
      BY <1>4, <3>3 DEF LoopAccounted
  <2>4. AnswerAccounted'
    <3>1. Range(round'.calls) = {}
      BY <1>4, NewRoundCalls
    <3>2. OpenCalls(log', Len(log')) = open
      BY <2>1 DEF open
    <3> QED
      BY <1>3, <1>4, <3>1, <3>2 DEF AnswerAccounted
  <2>5. RoundInLog'
    <3>1. Range(round'.calls) = {} /\ ~InTail'
      BY <1>4, NewRoundCalls DEF InTail
    <3> QED
      BY <3>1 DEF RoundInLog
  <2> QED
    BY <2>2, <2>3, <2>4, <2>5 DEF AccountsInv
<1>5. CASE Deliver(IF stream THEN Finish(Shown(round, result), Released) ELSE Shown(round, result))
  <2> DEFINE B == IF stream THEN Finish(Shown(round, result), Released) ELSE Shown(round, result)
  <2>1. Released \in Rounds /\ Released.before <= Len(Released.pending)
    <3>1. <<>> \in Seq(Nat) /\ Len(<<>>) = 0
      OBVIOUS
    <3>2. Released \in Rounds /\ Released.before = 0 /\ Released.pending = <<>>
      BY <1>2, <3>1 DEF Released, Rounds
    <3> QED
      BY <3>1, <3>2
  <2>2. Tallied(Finish(Shown(round, result), Released), open, {}) /\ Finish(Shown(round, result), Released) \in Seq(AnswerBlocks)
    BY <1>3, <2>1, FinishType, FinishTallied
  <2>3. B \in Seq(AnswerBlocks) /\ Tallied(B, open, {})
    BY <1>3, <2>2
  <2>4. Deliver(B)
    BY <1>5
  <2> HIDE DEF B
  <2>5. Tallied(B, open, Range(round.calls))
    BY <2>3, TalliedMore
  <2> QED
    BY <1>2, <2>3, <2>4, <2>5, DeliverAccounts DEF open
<1> QED
  BY <1>1, <1>4, <1>5

LEMMA AccountsInit == Init => AccountsInv
<1> SUFFICES ASSUME Init PROVE AccountsInv
  OBVIOUS
<1>1. msgs = <<>> /\ pc = "client" /\ answer = <<>> /\ loop = <<>> /\ round = NewRound
  BY DEF Init
<1>2. AllAccounted(<<>>, OpenCalls(log, Known), {}) /\ Tallied(<<>>, OpenCalls(log, Len(log)), Range(NewRound.calls))
  <2>1. Tallied(<<>>, {}, {}) /\ AllAccounted(<<>>, {}, {})
    BY NewRoundCalls
  <2> QED
    BY <2>1, AccountedGrow, TalliedMore
<1>3. Waiting = {} /\ ~InTail /\ Range(round.calls) = {}
  BY <1>1, NewRoundCalls DEF Waiting, InTail
<1> QED
  BY <1>1, <1>2, <1>3, NewRoundCalls DEF AccountsInv, MessagesAccounted, LoopAccounted, AnswerAccounted, RoundInLog

LEMMA AccountsStep == ConversationInv /\ AccountsInv /\ [Next]_vars => AccountsInv'
<1> SUFFICES ASSUME ConversationInv, AccountsInv, [Next]_vars PROVE AccountsInv'
  OBVIOUS
<1>0. ConversationTypes /\ Idle
  BY DEF ConversationInv
<1>1. ASSUME Ask \/ Answer \/ Forget \/ Send PROVE AccountsInv'
  BY <1>0, <1>1, AskAccounts, AnswerAccounts, ForgetAccounts, SendAccounts
<1>2. ASSUME TextFrame \/ HeldFrame \/ BlobFrame \/ CallFrame \/ ServerToolFrame PROVE AccountsInv'
  BY <1>0, <1>2, FramesAccount
<1>3. ASSUME Answered \/ Failed \/ ServerTool PROVE AccountsInv'
  BY <1>0, <1>3, AnsweredAccounts, FailedAccounts, ServerToolAccounts
<1>4. ASSUME UNCHANGED vars PROVE AccountsInv'
  BY <1>4 DEF vars, AccountsInv, MessagesAccounted, LoopAccounted, AnswerAccounted, RoundInLog, Known, Waiting, InTail
<1> QED
  BY <1>1, <1>2, <1>3, <1>4 DEF Next

\* In every conversation the books of the calls are kept: a call has its result
\* behind it, waits at the end for the client's, or shares its round with a
\* server tool's; the loop answers each call it appends; and what has been shown
\* of an answer makes no call but this round's.
THEOREM ConversationAccounts == Spec => []AccountsInv
<1>1. Init => AccountsInv
  BY AccountsInit
<1>2. ConversationInv /\ AccountsInv /\ [Next]_vars => AccountsInv'
  BY AccountsStep
<1> QED
  BY <1>1, <1>2, ConversationInvariance, PTL DEF Spec

\* In every payload of a conversation each call, the client's and the server
\* tools', is answered by the next entry, unless it is a client's call that
\* shares its round with a server tool's: those alone can be separated from their
\* results.
THEOREM ConversationCallsAnswered == Spec => []CallsAnsweredUnlessShared
<1>1. ConversationInv /\ AccountsInv => CallsAnsweredUnlessShared
  <2> SUFFICES ASSUME ConversationInv, AccountsInv, Requesting PROVE CallsAnsweredUnlessShared
    BY DEF CallsAnsweredUnlessShared
  <2> DEFINE open == OpenCalls(log, asked)
  <2>1. ConversationTypes /\ pc = "model"
    BY DEF ConversationInv, Requesting
  <2>2. Accounted(Request, open)
    <3>1. msgs \in Seq(Given) /\ loop \in Seq(Given) /\ AllAccounted(loop, {}, {})
      BY <2>1 DEF ConversationTypes, AccountsInv, LoopAccounted
    <3>2. AllAccounted(msgs, open, {})
      BY <2>1, AskedAccounts
    <3> HIDE DEF open
    <3>3. AllAccounted(loop, open, {})
      BY <3>1, AccountedGrow
    <3>4. AllAccounted(msgs \o loop, open, {})
      BY <3>1, <3>2, <3>3, AccountedConcat
    <3>5. \A i \in DOMAIN Request : AccountedFor(Request[i], open, RepliesAfter(Request, i) \cup (IF i = Len(Request) THEN {} ELSE {}))
      BY <3>4 DEF AllAccounted, Request
    <3> QED
      BY <3>5 DEF Accounted
  <2>3. CallsReplied(PayloadOf(Request, TRUE), open)
    <3> HIDE DEF open
    <3> QED
      BY <2>2, RequestType, PayloadAnswersCalls
  <2>4. Entries(TRUE) = PayloadOf(Request, TRUE)
    BY DEF Entries, PayloadOf
  <2>5. ASSUME NEW id \in open PROVE log[id].kind = "tool_use" /\ SharesRound(id)
    <3>1. log[id].kind = "tool_use"
      BY <2>5 DEF OpenCalls
    <3>2. PICK other \in 1..asked : log[other].kind = "server_tool_use" /\ log[other].round = log[id].round
      BY <2>5 DEF OpenCalls
    <3>3. other \in DOMAIN log
      <4>1. PICK n \in Nat : n = Len(log) /\ DOMAIN log = 1..n /\ asked \in Nat /\ asked <= n
        BY <2>1, LenProperties DEF ConversationTypes
      <4> QED
        BY <4>1
    <3> QED
      BY <3>1, <3>2, <3>3 DEF SharesRound
  <2> HIDE DEF open
  <2> QED
    BY <2>3, <2>4, <2>5 DEF CallsReplied, CallsAnsweredUnlessShared
<1> QED
  BY <1>1, ConversationInvariance, ConversationAccounts, PTL
=============================================================================
