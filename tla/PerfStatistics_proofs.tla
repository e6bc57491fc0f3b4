----------------------- MODULE PerfStatistics_proofs -----------------------
(***************************************************************************)
(* Proofs about the performance statistics: the history of tasks           *)
(* (TaskWindow, the first part), the pipe of events (EventPipe, the        *)
(* second), and the types of the run that explores both and the histogram  *)
(* (MCStatistics, the last).                                               *)
(***************************************************************************)
EXTENDS MCStatistics, FunctionTheorems, Histogram_proofs

-----------------------------------------------------------------------------
(***************************************************************************)
(* TaskWindow: the list of tasks and the matrices of the categories tell   *)
(* the same history, and the daemon removes what is older than the window. *)
(***************************************************************************)
TaskMatrices == {m \in [vectors : Seq(TaskVectors), keys : SUBSET Tasks] : Len(m.vectors) <= SliceLength}

(* A category counts its vectors: T[i] of them are in the first i matrices.*)
Totals(ms, T) ==
  /\ T \in [0 .. Len(ms) -> Nat] /\ T[0] = 0
  /\ \A i \in 1 .. Len(ms) : T[i] = T[i - 1] + Len(ms[i].vectors)
Amounting(ms, c) == \E T : Totals(ms, T) /\ T[Len(ms)] = c
Items == {x \in [matrices : Seq(TaskMatrices), TaskCount : Nat] : Amounting(x.matrices, x.TaskCount)}
Entries == [vector : TaskVectors, at : 0 .. ClockModulus - 1, orphan : BOOLEAN]

(* Vectors in the order of a relation, oldest first.                       *)
TasksSorted(s, O) == \A a, b \in DOMAIN s : a < b => <<s[a], s[b]>> \in O

LEMMA TasksSortedAppend ==
  ASSUME NEW O, NEW s \in Seq(TaskVectors), NEW w \in TaskVectors,
         TasksSorted(s, O), \A x \in ToSet(s) : <<x, w>> \in O
  PROVE  TasksSorted(Append(s, w), O) /\ ToSet(Append(s, w)) = ToSet(s) \cup {w}
<1>. DEFINE t == Append(s, w)
            n == Len(s)
<1>1. /\ n \in Nat /\ DOMAIN s = 1 .. n /\ DOMAIN t = 1 .. n + 1
      /\ \A a \in 1 .. n : t[a] = s[a]
      /\ t[n + 1] = w
  OBVIOUS
<1>. HIDE DEF t, n
<1>2. \A a \in 1 .. n : <<s[a], w>> \in O
  BY <1>1 DEF ToSet
<1>3. \A a, b \in 1 .. n : a < b => <<s[a], s[b]>> \in O
  BY <1>1 DEF TasksSorted
<1>4. \A a \in 1 .. n + 1 : a \in 1 .. n \/ a = n + 1
  BY <1>1
<1>5. TasksSorted(t, O)
  <2>. SUFFICES ASSUME NEW a \in 1 .. n + 1, NEW b \in 1 .. n + 1, a < b PROVE <<t[a], t[b]>> \in O
    BY <1>1 DEF TasksSorted
  <2>1. a \in 1 .. n
    BY <1>1
  <2>2. CASE b \in 1 .. n
    BY <1>1, <1>3, <2>1, <2>2
  <2>3. CASE b = n + 1
    BY <1>1, <1>2, <2>1, <2>3
  <2>. QED
    BY <1>4, <2>2, <2>3
<1>6. ToSet(t) = ToSet(s) \cup {w}
  <2>1. \A a \in 1 .. n : a \in 1 .. n + 1
    BY <1>1
  <2>2. n + 1 \in 1 .. n + 1
    BY <1>1
  <2>. QED
    BY <1>1, <1>4, <2>1, <2>2 DEF ToSet
<1>. QED
  BY <1>5, <1>6 DEF t

LEMMA TasksSortedTail ==
  ASSUME NEW O, NEW s \in Seq(TaskVectors), TasksSorted(s, O), s # <<>>
  PROVE  /\ Tail(s) \in Seq(TaskVectors) /\ TasksSorted(Tail(s), O)
         /\ ToSet(s) = ToSet(Tail(s)) \cup {s[1]}
         /\ s[1] \in TaskVectors
         /\ \A x \in ToSet(Tail(s)) : <<s[1], x>> \in O
<1>. DEFINE t == Tail(s)
            n == Len(s) - 1
<1>1. /\ n \in Nat /\ DOMAIN s = 1 .. n + 1 /\ DOMAIN t = 1 .. n
      /\ \A a \in 1 .. n : t[a] = s[a + 1]
      /\ t \in Seq(TaskVectors)
      /\ \A a \in 1 .. n + 1 : s[a] \in TaskVectors
  OBVIOUS
<1>. HIDE DEF t, n
<1>2. \A a, b \in 1 .. n + 1 : a < b => <<s[a], s[b]>> \in O
  BY <1>1 DEF TasksSorted
<1>3. \A a \in 1 .. n : a + 1 \in 1 .. n + 1 /\ 1 < a + 1
  BY <1>1
<1>4. 1 \in 1 .. n + 1
  BY <1>1
<1>5. TasksSorted(t, O)
  <2>. SUFFICES ASSUME NEW a \in 1 .. n, NEW b \in 1 .. n, a < b PROVE <<t[a], t[b]>> \in O
    BY <1>1 DEF TasksSorted
  <2>1. a + 1 < b + 1
    BY <1>1
  <2>. QED
    BY <1>1, <1>2, <1>3, <2>1
<1>6. ToSet(s) = ToSet(t) \cup {s[1]}
  <2>1. ASSUME NEW a \in 1 .. n + 1 PROVE s[a] \in ToSet(t) \cup {s[1]}
    <3>1. CASE a = 1
      BY <3>1
    <3>2. CASE a # 1
      <4>1. a - 1 \in 1 .. n /\ (a - 1) + 1 = a
        BY <1>1, <3>2
      <4>. QED
        BY <1>1, <4>1 DEF ToSet
    <3>. QED
      BY <3>1, <3>2
  <2>2. \A a \in 1 .. n : t[a] \in ToSet(s)
    BY <1>1, <1>3 DEF ToSet
  <2>3. s[1] \in ToSet(s)
    BY <1>1, <1>4 DEF ToSet
  <2>. QED
    BY <1>1, <2>1, <2>2, <2>3 DEF ToSet
<1>7. \A x \in ToSet(t) : <<s[1], x>> \in O
  BY <1>1, <1>2, <1>3, <1>4 DEF ToSet
<1>. QED
  BY <1>1, <1>4, <1>5, <1>6, <1>7 DEF t

-----------------------------------------------------------------------------
(* Sets of vectors in a row, the later the older; and what comes to each   *)
(* and is given up to the next.                                            *)
TasksInRow(A, n, O) ==
  \A i, j \in 1 .. n : i > j => \A x \in A[i], y \in A[j] : <<x, y>> \in O
TaskHandsOn(A, B, G, n, v, O) ==
  /\ G[0] \subseteq {v} /\ \A i \in 1 .. n : \A x \in A[i] : <<x, v>> \in O
  /\ \A i \in 1 .. n : G[i] \subseteq A[i] /\ \A x \in G[i], y \in A[i] \ G[i] : <<x, y>> \in O
  /\ \A i \in 1 .. n : B[i] = (A[i] \cup G[i - 1]) \ G[i]

LEMMA TaskOrderKept ==
  ASSUME NEW n \in Nat, NEW v, NEW O, NEW A, NEW B, NEW G,
         TasksInRow(A, n, O), TaskHandsOn(A, B, G, n, v, O)
  PROVE  TasksInRow(B, n, O)
<1>0. /\ \A i, j \in 1 .. n : i > j => \A x \in A[i], y \in A[j] : <<x, y>> \in O
      /\ G[0] \subseteq {v} /\ \A i \in 1 .. n : \A x \in A[i] : <<x, v>> \in O
      /\ \A i \in 1 .. n : G[i] \subseteq A[i] /\ \A x \in G[i], y \in A[i] \ G[i] : <<x, y>> \in O
      /\ \A i \in 1 .. n : B[i] = (A[i] \cup G[i - 1]) \ G[i]
  BY DEF TasksInRow, TaskHandsOn
<1>. SUFFICES ASSUME NEW i \in 1 .. n, NEW j \in 1 .. n, i > j, NEW x \in B[i], NEW y \in B[j]
              PROVE  <<x, y>> \in O
  BY DEF TasksInRow
<1>1. (x \in A[i] \/ x \in G[i - 1]) /\ (y \in A[j] \/ y \in G[j - 1]) /\ y \notin G[j]
  BY <1>0
<1>2. i - 1 \in 1 .. n
  OBVIOUS
<1>3. CASE x \in A[i] /\ y \in A[j]
  BY <1>0, <1>3
<1>4. ASSUME NEW k \in 1 .. n, x \in A[k], y \in G[j - 1], k > j - 1 PROVE <<x, y>> \in O
  <2>1. CASE j = 1
    <3>1. y = v
      BY <1>0, <1>4, <2>1
    <3>. QED
      BY <1>0, <1>4, <3>1
  <2>2. CASE j # 1
    <3>1. j - 1 \in 1 .. n
      BY <2>2
    <3>. QED
      BY <1>0, <1>4, <3>1
  <2>. QED
    BY <2>1, <2>2
<1>5. CASE x \in A[i] /\ y \in G[j - 1]
  <2>1. i > j - 1
    OBVIOUS
  <2>. QED
    BY <1>4, <1>5, <2>1
<1>6. CASE x \in G[i - 1] /\ y \in A[j]
  <2>1. x \in A[i - 1]
    BY <1>0, <1>2, <1>6
  <2>2. CASE i - 1 > j
    BY <1>0, <1>2, <1>6, <2>1, <2>2
  <2>3. CASE i - 1 = j
    BY <1>0, <1>1, <1>2, <1>6, <2>3
  <2>4. i - 1 > j \/ i - 1 = j
    OBVIOUS
  <2>. QED
    BY <2>2, <2>3, <2>4
<1>7. CASE x \in G[i - 1] /\ y \in G[j - 1]
  <2>1. x \in A[i - 1] /\ i - 1 > j - 1
    BY <1>0, <1>2, <1>7
  <2>. QED
    BY <1>2, <1>4, <1>7, <2>1
<1>. QED
  BY <1>1, <1>3, <1>5, <1>6, <1>7

-----------------------------------------------------------------------------
(* What a matrix gives up, if anything.                                    *)
TaskGives == {<<>>} \cup {<<w>> : w \in TaskVectors}

LEMMA GivesFacts ==
  /\ <<>> \in TaskGives /\ \A w \in TaskVectors : <<w>> \in TaskGives
  /\ \A x \in TaskGives : x # <<>> => x[1] \in TaskVectors /\ x = <<x[1]>>
BY DEF TaskGives

Filled == {m \in TaskMatrices : m.vectors # <<>>}

(* What happens to a matrix: x comes to it, and it gives y up.             *)
TaskMoved(m, n, x, y) ==
  /\ n \in TaskMatrices /\ y \in TaskGives
  /\ x = <<>> => y = <<>> /\ n = m
  /\ Len(n.vectors) + Len(y) = Len(m.vectors) + Len(x)
  /\ m \in Filled => n \in Filled
  /\ m \in Filled /\ x # <<>> /\ y = <<>> =>
       n = [vectors |-> Append(m.vectors, x[1]), keys |-> m.keys \cup {Key(x[1])}]
  /\ m \in Filled /\ y # <<>> =>
       /\ x # <<>> /\ y = <<m.vectors[1]>>
       /\ n = [vectors |-> Append(Tail(m.vectors), x[1]),
               keys |-> (m.keys \cup {Key(x[1])}) \ {Key(m.vectors[1])}]

LEMMA MatrixEnqueueMoves ==
  ASSUME NEW m \in TaskMatrices, NEW w \in TaskVectors
  PROVE  TaskMoved(m, TaskMatrixEnqueue(m, w).matrix, <<w>>, TaskMatrixEnqueue(m, w).out)
<1>. DEFINE s == m.vectors
            longer == Append(s, w)
            keys == m.keys \cup {Key(w)}
            e == TaskMatrixEnqueue(m, w)
<1>1. /\ s \in Seq(TaskVectors) /\ Len(s) <= SliceLength /\ m.keys \subseteq Tasks /\ Key(w) \in Tasks
      /\ m \in Filled => s # <<>>
  BY DEF Filled, TaskMatrices, TaskVectors, Key
<1>2. /\ longer \in Seq(TaskVectors) /\ longer # <<>> /\ Len(longer) = Len(s) + 1 /\ Len(s) \in Nat
      /\ s # <<>> => Head(longer) = s[1] /\ Tail(longer) = Append(Tail(s), w)
  <2>. HIDE DEF s
  <2>1. longer \in Seq(TaskVectors) /\ longer # <<>> /\ Len(longer) = Len(s) + 1 /\ Len(s) \in Nat
    BY <1>1
  <2>2. s # <<>> => Head(longer) = s[1]
    BY <1>1
  <2>3. s # <<>> => Tail(longer) = Append(Tail(s), w)
    BY <1>1
  <2>. QED
    BY <2>1, <2>2, <2>3
<1>3. /\ Head(longer) \in TaskVectors /\ Tail(longer) \in Seq(TaskVectors) /\ Len(Tail(longer)) = Len(s)
      /\ s # <<>> => Tail(longer) # <<>>
  BY <1>2
<1>4. <<w>> # <<>> /\ <<w>>[1] = w /\ Len(<<w>>) = 1 /\ Len(<<>>) = 0
  OBVIOUS
<1>5. CASE Len(longer) <= SliceLength
  <2>. DEFINE n == [vectors |-> longer, keys |-> keys]
  <2>1. e.matrix = n /\ e.out = <<>>
    BY <1>5 DEF TaskMatrixEnqueue
  <2>2. n \in TaskMatrices /\ n \in Filled
    <3>1. longer \in Seq(TaskVectors) /\ Len(longer) <= SliceLength /\ keys \subseteq Tasks /\ longer # <<>>
      BY <1>1, <1>2, <1>5
    <3>. HIDE DEF longer, keys
    <3>. QED
      BY <3>1 DEF Filled, TaskMatrices
  <2>3. Len(n.vectors) + Len(<<>>) = Len(s) + Len(<<w>>)
    BY <1>2, <1>4
  <2>4. n = [vectors |-> Append(m.vectors, w), keys |-> m.keys \cup {Key(w)}]
    OBVIOUS
  <2>. HIDE DEF e, n, s
  <2>. QED
    BY <1>4, <2>1, <2>2, <2>3, <2>4, GivesFacts DEF TaskMoved, e, s
<1>6. CASE ~ (Len(longer) <= SliceLength)
  <2>. DEFINE n == [vectors |-> Tail(longer), keys |-> keys \ {Key(Head(longer))}]
  <2>1. e.matrix = n /\ e.out = <<Head(longer)>>
    BY <1>6 DEF TaskMatrixEnqueue
  <2>2. n \in TaskMatrices /\ (s # <<>> => n \in Filled)
    <3>. DEFINE left == keys \ {Key(Head(longer))}
    <3>1. Tail(longer) \in Seq(TaskVectors) /\ Len(Tail(longer)) <= SliceLength /\ left \subseteq Tasks
          /\ (s # <<>> => Tail(longer) # <<>>)
      BY <1>1, <1>3
    <3>. HIDE DEF longer, left
    <3>. QED
      BY <3>1 DEF Filled, TaskMatrices, left
  <2>3. s # <<>> =>
          n = [vectors |-> Append(Tail(m.vectors), w), keys |-> (m.keys \cup {Key(w)}) \ {Key(m.vectors[1])}]
    BY <1>2
  <2>4. <<Head(longer)>> \in TaskGives /\ <<Head(longer)>> # <<>>
    BY <1>3, GivesFacts
  <2>5. Len(n.vectors) + Len(<<Head(longer)>>) = Len(s) + Len(<<w>>)
    BY <1>3, <1>4
  <2>6. s # <<>> => <<Head(longer)>> = <<m.vectors[1]>>
    BY <1>2
  <2>7. m \in Filled => s # <<>>
    BY <1>1
  <2>. HIDE DEF e, n, s, longer
  <2>. QED
    BY <1>4, <2>1, <2>2, <2>3, <2>4, <2>5, <2>6, <2>7 DEF TaskMoved, e, s
<1>. QED
  BY <1>5, <1>6

(* A vector is passed on through the matrices ms: g[i] is what the i-th    *)
(* gives up, ns are the matrices then.                                     *)
Passed(ms, ns, g, v) ==
  /\ g \in [0 .. Len(ms) -> TaskGives] /\ g[0] = <<v>>
  /\ ns \in Seq(TaskMatrices) /\ Len(ns) = Len(ms)
  /\ \A i \in 1 .. Len(ms) : TaskMoved(ms[i], ns[i], g[i - 1], g[i])

LEMMA ReservePasses ==
  ASSUME NEW item, item.matrices \in Seq(TaskMatrices), NEW v \in TaskVectors
  PROVE  \E g, ns :
           /\ Passed(item.matrices, ns, g, v)
           /\ ReserveForResponse(item, v) =
                [matrices |-> IF g[Len(item.matrices)] = <<>> THEN ns
                              ELSE Append(ns, NewMatrix(g[Len(item.matrices)][1])),
                 TaskCount |-> item.TaskCount + 1]
<1>. DEFINE ms == item.matrices
            m == Len(ms)
            Out(x, i) == IF x = <<>> THEN <<>> ELSE TaskMatrixEnqueue(ms[i], x[1]).out
            Solves(f) == f = [i \in 0 .. m |->
                                IF i = 0 THEN <<v>>
                                ELSE IF f[i - 1] = <<>> THEN <<>>
                                ELSE TaskMatrixEnqueue(ms[i], f[i - 1][1]).out]
            given == CHOOSE f : Solves(f)
            ns == [i \in 1 .. m |-> IF given[i - 1] = <<>> THEN ms[i]
                                    ELSE TaskMatrixEnqueue(ms[i], given[i - 1][1]).matrix]
            g == [r \in TaskGives \X (1 .. m) |-> Out(r[1], r[2])]
<1>1. m \in Nat /\ \A i \in 1 .. m : ms[i] \in TaskMatrices
  OBVIOUS
<1>2. ReserveForResponse(item, v) =
        [matrices |-> IF given[m] = <<>> THEN ns ELSE Append(ns, NewMatrix(given[m][1])),
         TaskCount |-> item.TaskCount + 1]
  BY Zenon DEF ReserveForResponse
<1>3. ASSUME NEW x \in TaskGives, NEW i \in 1 .. m PROVE Out(x, i) \in TaskGives
  <2>1. CASE x = <<>>
    BY <2>1, GivesFacts
  <2>2. CASE x # <<>>
    BY <1>1, <2>2, GivesFacts, MatrixEnqueueMoves DEF TaskMoved
  <2>. QED
    BY <2>1, <2>2
<1>. HIDE DEF Out
<1>4. IsStep(g, TaskGives, m)
  BY <1>3 DEF IsStep
<1>5. \A x \in TaskGives, i \in 1 .. m : g[<<x, i>>] = Out(x, i)
  OBVIOUS
<1>6. <<v>> \in TaskGives
  BY GivesFacts
<1>7. \E f : Solves(f)
  <2>. HIDE DEF g, m
  <2>0. m \in Nat
    BY <1>1
  <2>1. PICK f : Iterates(f, g, <<v>>, TaskGives, m)
    BY <1>4, <1>6, <2>0, Iteration, Zenon
  <2>2. f \in [0 .. m -> TaskGives] /\ f[0] = <<v>> /\ \A i \in 1 .. m : f[i] = g[<<f[i - 1], i>>]
    BY <2>1 DEF Iterates
  <2>3. ASSUME NEW i \in 1 .. m PROVE f[i] = Out(f[i - 1], i)
    <3>1. f[i - 1] \in TaskGives
      BY <2>0, <2>2
    <3>. QED
      BY <1>5, <2>2, <3>1
  <2>4. ASSUME NEW i \in 0 .. m PROVE f[i] = IF i = 0 THEN <<v>> ELSE Out(f[i - 1], i)
    <3>1. i = 0 \/ i \in 1 .. m
      BY <2>0
    <3>. QED
      BY <2>2, <2>3, <3>1
  <2>5. Solves(f)
    BY <2>2, <2>4 DEF Out
  <2>. QED
    BY <2>5
<1>8. Solves(given)
  <2>. HIDE DEF Solves
  <2>. QED
    BY <1>7, Zenon
<1>. HIDE DEF given, g, m
<1>9. /\ given[0] = <<v>> /\ \A i \in 1 .. m : given[i] = Out(given[i - 1], i)
      /\ given = [i \in 0 .. m |-> given[i]]
  <2>1. given = [i \in 0 .. m |-> IF i = 0 THEN <<v>> ELSE Out(given[i - 1], i)]
    BY <1>8, Zenon DEF Out
  <2>. HIDE DEF Solves
  <2>. DEFINE f == given
  <2>2. f = [i \in 0 .. m |-> IF i = 0 THEN <<v>> ELSE Out(given[i - 1], i)]
    BY <2>1
  <2>. HIDE DEF f
  <2>3. f[0] = <<v>> /\ \A i \in 1 .. m : f[i] = Out(given[i - 1], i)
    BY <1>1, <2>2
  <2>4. f = [i \in 0 .. m |-> f[i]]
    BY <2>2
  <2>. QED
    BY <2>3, <2>4 DEF f
<1>. DEFINE T == {i \in 0 .. m : given[i] \in TaskGives}
<1>10. 0 \in T
  BY <1>1, <1>6, <1>9
<1>11. ASSUME NEW i \in 0 .. m - 1, i \in T PROVE i + 1 \in T
  <2>1. i + 1 \in 1 .. m /\ (i + 1) - 1 = i /\ i + 1 \in 0 .. m
    BY <1>1
  <2>. QED
    BY <1>3, <1>9, <1>11, <2>1
<1>12. 0 .. m \subseteq T
  <2>. HIDE DEF T
  <2>. QED
    BY <1>1, <1>10, <1>11, InductionUpTo
<1>13. given \in [0 .. m -> TaskGives]
  BY <1>9, <1>12
<1>14. ASSUME NEW i \in 1 .. m PROVE TaskMoved(ms[i], ns[i], given[i - 1], given[i])
  <2>1. given[i - 1] \in TaskGives /\ ms[i] \in TaskMatrices
    BY <1>1, <1>13
  <2>2. CASE given[i - 1] = <<>>
    <3>1. given[i] = <<>> /\ ns[i] = ms[i]
      BY <1>9, <2>2 DEF Out
    <3>2. ms[i].vectors \in Seq(TaskVectors)
      BY <2>1 DEF TaskMatrices
    <3>. HIDE DEF ms, ns
    <3>. QED
      BY <2>1, <2>2, <3>1, <3>2, GivesFacts DEF TaskMoved
  <2>3. CASE given[i - 1] # <<>>
    <3>1. given[i - 1][1] \in TaskVectors /\ given[i - 1] = <<given[i - 1][1]>>
      BY <2>1, <2>3, GivesFacts
    <3>2. given[i] = TaskMatrixEnqueue(ms[i], given[i - 1][1]).out
      BY <1>9, <2>3 DEF Out
    <3>3. ns[i] = TaskMatrixEnqueue(ms[i], given[i - 1][1]).matrix
      BY <2>3
    <3>. HIDE DEF ms, ns
    <3>4. TaskMoved(ms[i], TaskMatrixEnqueue(ms[i], given[i - 1][1]).matrix, <<given[i - 1][1]>>,
                TaskMatrixEnqueue(ms[i], given[i - 1][1]).out)
      BY <2>1, <3>1, MatrixEnqueueMoves
    <3>. QED
      BY <3>1, <3>2, <3>3, <3>4
  <2>. QED
    BY <2>2, <2>3
<1>15. ns \in Seq(TaskMatrices) /\ Len(ns) = m
  <2>1. \A i \in 1 .. m : ns[i] \in TaskMatrices
    BY <1>14 DEF TaskMoved
  <2>2. ns = [i \in 1 .. m |-> ns[i]]
    OBVIOUS
  <2>. HIDE DEF ns
  <2>3. ns \in [1 .. m -> TaskMatrices]
    BY <2>1, <2>2
  <2>. QED
    BY <1>1, <2>3
<1>16. Passed(ms, ns, given, v)
  <2>. HIDE DEF ns, ms
  <2>. QED
    BY <1>9, <1>13, <1>14, <1>15 DEF Passed, m
<1>17. m = Len(item.matrices)
  BY DEF m
<1>. HIDE DEF ns, ms
<1>. QED
  BY <1>2, <1>16, <1>17 DEF ms

-----------------------------------------------------------------------------
Held(ms) == UNION {ToSet(ms[i].vectors) : i \in DOMAIN ms}
KeysOf(s) == {Key(x) : x \in ToSet(s)}

(* TaskMatrices in order, each with its index of keys.                         *)
Tidy(ms, O) ==
  /\ ms \in Seq(Filled)
  /\ \A i \in 1 .. Len(ms) : ms[i].keys = KeysOf(ms[i].vectors) /\ TasksSorted(ms[i].vectors, O)
  /\ TasksInRow([i \in 1 .. Len(ms) |-> ToSet(ms[i].vectors)], Len(ms), O)

(* Vectors that are told apart by their keys, and none older than itself.  *)
Distinct(S, O) ==
  /\ \A x, y \in S : Key(x) = Key(y) => x = y
  /\ \A x \in S : <<x, x>> \notin O

Gift(x) == IF x = <<>> THEN {} ELSE {x[1]}

LEMMA MovedEffect ==
  ASSUME NEW O, NEW m \in Filled, m.keys = KeysOf(m.vectors), TasksSorted(m.vectors, O),
         NEW n, NEW x \in TaskGives, NEW y, TaskMoved(m, n, x, y),
         \A z \in ToSet(m.vectors), w \in Gift(x) : <<z, w>> \in O,
         Distinct(ToSet(m.vectors) \cup Gift(x), O)
  PROVE  /\ n.keys = KeysOf(n.vectors) /\ TasksSorted(n.vectors, O)
         /\ ToSet(n.vectors) = (ToSet(m.vectors) \cup Gift(x)) \ Gift(y)
         /\ Gift(y) \subseteq ToSet(m.vectors)
         /\ \A z \in Gift(y), w \in ToSet(m.vectors) \ Gift(y) : <<z, w>> \in O
<1>. DEFINE s == m.vectors
<1>0. s \in Seq(TaskVectors) /\ s # <<>>
  BY DEF Filled, TaskMatrices
<1>1. CASE x = <<>>
  <2>1. n = m /\ Gift(x) = {} /\ Gift(y) = {}
    BY <1>1 DEF TaskMoved, Gift
  <2>. QED
    BY <2>1
<1>2. ASSUME x # <<>> PROVE x[1] \in TaskVectors /\ Gift(x) = {x[1]} /\ \A z \in ToSet(s) : <<z, x[1]>> \in O
  BY <1>2, GivesFacts DEF Gift
<1>3. CASE x # <<>> /\ y = <<>>
  <2>1. n.vectors = Append(s, x[1]) /\ n.keys = m.keys \cup {Key(x[1])} /\ Gift(y) = {}
    BY <1>3 DEF TaskMoved, Gift
  <2>2. TasksSorted(Append(s, x[1]), O) /\ ToSet(Append(s, x[1])) = ToSet(s) \cup {x[1]}
    BY <1>0, <1>2, <1>3, TasksSortedAppend
  <2>. HIDE DEF s
  <2>3. KeysOf(n.vectors) = KeysOf(s) \cup {Key(x[1])}
    BY <2>1, <2>2 DEF KeysOf
  <2>. QED
    BY <1>2, <1>3, <2>1, <2>2, <2>3 DEF s
<1>4. CASE y # <<>>
  <2>. DEFINE t == Tail(s)
  <2>1. /\ x # <<>> /\ y = <<s[1]>>
        /\ n.vectors = Append(t, x[1]) /\ n.keys = (m.keys \cup {Key(x[1])}) \ {Key(s[1])}
    BY <1>4 DEF TaskMoved
  <2>2. /\ t \in Seq(TaskVectors) /\ TasksSorted(t, O) /\ ToSet(s) = ToSet(t) \cup {s[1]}
        /\ \A z \in ToSet(t) : <<s[1], z>> \in O
    BY <1>0, TasksSortedTail
  <2>3. Gift(y) = {s[1]}
    BY <1>4, <2>1 DEF Gift
  <2>4. <<s[1], x[1]>> \in O
    BY <1>2, <2>1, <2>2
  <2>. HIDE DEF t, s
  <2>5. TasksSorted(Append(t, x[1]), O) /\ ToSet(Append(t, x[1])) = ToSet(t) \cup {x[1]}
    BY <1>2, <2>1, <2>2, TasksSortedAppend
  <2>6. s[1] \notin ToSet(t) \cup {x[1]}
    BY <1>2, <2>1, <2>2, <2>4 DEF Distinct, s
  <2>7. \A z \in ToSet(t) \cup {x[1]} : Key(z) # Key(s[1])
    BY <1>2, <2>1, <2>2, <2>6 DEF Distinct, s
  <2>8. n.keys = KeysOf(n.vectors)
    <3>1. m.keys = KeysOf(s)
      BY DEF s
    <3>2. n.vectors = Append(t, x[1]) /\ n.keys = (KeysOf(s) \cup {Key(x[1])}) \ {Key(s[1])}
      BY <2>1, <3>1
    <3>3. ToSet(n.vectors) = ToSet(t) \cup {x[1]} /\ ToSet(s) = ToSet(t) \cup {s[1]}
      BY <2>2, <2>5, <3>2
    <3>4. KeysOf(n.vectors) = KeysOf(t) \cup {Key(x[1])}
      BY <3>3 DEF KeysOf
    <3>5. KeysOf(s) = KeysOf(t) \cup {Key(s[1])}
      BY <3>3 DEF KeysOf
    <3>6. Key(s[1]) \notin KeysOf(t) \cup {Key(x[1])}
      BY <2>7 DEF KeysOf
    <3>. QED
      BY <3>2, <3>4, <3>5, <3>6
  <2>9. ToSet(n.vectors) = (ToSet(s) \cup {x[1]}) \ {s[1]}
    BY <2>1, <2>2, <2>5, <2>6
  <2>. QED
    BY <1>2, <2>1, <2>2, <2>3, <2>5, <2>8, <2>9 DEF s
<1>. QED
  BY <1>1, <1>3, <1>4

LEMMA HeldFacts ==
  ASSUME NEW ms \in Seq(Filled)
  PROVE  /\ Len(ms) \in Nat /\ DOMAIN ms = 1 .. Len(ms)
         /\ \A i \in 1 .. Len(ms) :
              /\ ms[i] \in Filled /\ ms[i].vectors \in Seq(TaskVectors) /\ ms[i].vectors # <<>>
              /\ ms[i].vectors[1] \in ToSet(ms[i].vectors)
              /\ ToSet(ms[i].vectors) \subseteq Held(ms)
         /\ \A x \in Held(ms) : \E i \in 1 .. Len(ms) : x \in ToSet(ms[i].vectors)
         /\ Held(ms) \subseteq TaskVectors
<1>1. Len(ms) \in Nat /\ DOMAIN ms = 1 .. Len(ms)
  OBVIOUS
<1>2. ASSUME NEW i \in 1 .. Len(ms)
      PROVE  /\ ms[i] \in Filled /\ ms[i].vectors \in Seq(TaskVectors) /\ ms[i].vectors # <<>>
             /\ ms[i].vectors[1] \in ToSet(ms[i].vectors)
             /\ ToSet(ms[i].vectors) \subseteq TaskVectors
  <2>1. ms[i] \in Filled
    BY <1>1
  <2>. DEFINE s == ms[i].vectors
  <2>2. s \in Seq(TaskVectors) /\ s # <<>>
    BY <2>1 DEF Filled, TaskMatrices
  <2>. HIDE DEF s
  <2>3. s[1] \in ToSet(s) /\ ToSet(s) \subseteq TaskVectors
    BY <2>2 DEF ToSet
  <2>. QED
    BY <2>1, <2>2, <2>3 DEF s
<1>. QED
  BY <1>1, <1>2 DEF Held

(* A new vector enters the matrices of a category.                         *)
LEMMA ReserveEffect ==
  ASSUME NEW O, NEW item, Tidy(item.matrices, O), NEW v \in TaskVectors,
         \A x \in Held(item.matrices) : <<x, v>> \in O,
         Distinct(Held(item.matrices) \cup {v}, O)
  PROVE  LET new == ReserveForResponse(item, v) IN
         /\ Tidy(new.matrices, O) /\ Held(new.matrices) = Held(item.matrices) \cup {v}
         /\ new.TaskCount = item.TaskCount + 1
<1>. DEFINE ms == item.matrices
            n == Len(ms)
            new == ReserveForResponse(item, v)
<1>1. /\ ms \in Seq(Filled)
      /\ \A i \in 1 .. n : ms[i].keys = KeysOf(ms[i].vectors) /\ TasksSorted(ms[i].vectors, O)
      /\ TasksInRow([i \in 1 .. n |-> ToSet(ms[i].vectors)], n, O)
  BY DEF Tidy
<1>2. /\ n \in Nat /\ DOMAIN ms = 1 .. n
      /\ \A i \in 1 .. n :
           /\ ms[i] \in Filled /\ ms[i].vectors \in Seq(TaskVectors) /\ ms[i].vectors # <<>>
           /\ ms[i].vectors[1] \in ToSet(ms[i].vectors)
           /\ ToSet(ms[i].vectors) \subseteq Held(ms)
      /\ \A x \in Held(ms) : \E i \in 1 .. n : x \in ToSet(ms[i].vectors)
  BY <1>1, HeldFacts
<1>3. PICK g, ns : /\ Passed(ms, ns, g, v)
                   /\ new = [matrices |-> IF g[n] = <<>> THEN ns ELSE Append(ns, NewMatrix(g[n][1])),
                             TaskCount |-> item.TaskCount + 1]
  <2>1. ms \in Seq(TaskMatrices)
    BY <1>1 DEF Filled
  <2>. QED
    BY <2>1, ReservePasses
<1>4. /\ g \in [0 .. n -> TaskGives] /\ g[0] = <<v>>
      /\ ns \in Seq(Filled) /\ Len(ns) = n
      /\ \A i \in 1 .. n : TaskMoved(ms[i], ns[i], g[i - 1], g[i])
  <2>1. /\ g \in [0 .. n -> TaskGives] /\ g[0] = <<v>>
        /\ ns \in Seq(TaskMatrices) /\ Len(ns) = n
        /\ \A i \in 1 .. n : TaskMoved(ms[i], ns[i], g[i - 1], g[i])
    BY <1>3 DEF Passed
  <2>2. \A i \in 1 .. n : ns[i] \in Filled
    BY <1>2, <2>1 DEF TaskMoved
  <2>3. ns \in Seq(Filled)
    <3>1. ns \in Seq(TaskMatrices) /\ Len(ns) = n
      BY <2>1
    <3>. HIDE DEF n, ms, new
    <3>. QED
      BY <2>2, <3>1
  <2>. QED
    BY <2>1, <2>3
<1>. DEFINE last == g[n]
            nm == IF last = <<>> THEN ns ELSE Append(ns, NewMatrix(last[1]))
            k == IF last = <<>> THEN n ELSE n + 1
<1>5. new.matrices = nm /\ new.TaskCount = item.TaskCount + 1
  BY <1>3
<1>. HIDE DEF new, ms, n, last
<1>6. last \in TaskGives /\ (last # <<>> => last[1] \in TaskVectors /\ Gift(last) = {last[1]})
  BY <1>2, <1>4, GivesFacts DEF last, Gift
<1>7. \A i \in 0 .. n : g[i] \in TaskGives
  BY <1>4
<1>8. Gift(g[0]) = {v}
  BY <1>4 DEF Gift
(* What the i-th gives up was its first.                                   *)
<1>9. ASSUME NEW i \in 1 .. n
      PROVE  /\ Gift(g[i]) \subseteq {ms[i].vectors[1]}
             /\ Gift(g[i]) \subseteq ToSet(ms[i].vectors)
  <2>1. CASE g[i] = <<>>
    BY <2>1 DEF Gift
  <2>2. CASE g[i] # <<>>
    <3>1. TaskMoved(ms[i], ns[i], g[i - 1], g[i]) /\ ms[i] \in Filled
      BY <1>2, <1>4
    <3>2. g[i] = <<ms[i].vectors[1]>>
      BY <2>2, <3>1 DEF TaskMoved
    <3>3. Gift(g[i]) = {ms[i].vectors[1]}
      BY <2>2, <3>2 DEF Gift
    <3>. QED
      BY <1>2, <3>3
  <2>. QED
    BY <2>1, <2>2
<1>10. ASSUME NEW i \in 1 .. n
       PROVE  /\ \A z \in ToSet(ms[i].vectors), w \in Gift(g[i - 1]) : <<z, w>> \in O
              /\ Gift(g[i - 1]) \subseteq Held(ms) \cup {v}
  <2>1. CASE i = 1
    <3>1. Gift(g[i - 1]) = {v}
      BY <1>8, <2>1
    <3>. QED
      BY <1>2, <3>1 DEF ms
  <2>2. CASE i # 1
    <3>. DEFINE j == i - 1
    <3>1. j \in 1 .. n /\ i > j
      BY <1>2, <2>2
    <3>2. Gift(g[j]) \subseteq ToSet(ms[j].vectors)
      BY <1>9, <3>1
    <3>3. \A x \in ToSet(ms[i].vectors), y \in ToSet(ms[j].vectors) : <<x, y>> \in O
      <4>. HIDE DEF j
      <4>. QED
        BY <1>1, <3>1 DEF TasksInRow
    <3>. QED
      BY <1>2, <3>1, <3>2, <3>3
  <2>. QED
    BY <2>1, <2>2
<1>11. ASSUME NEW i \in 1 .. n
       PROVE  /\ ns[i].keys = KeysOf(ns[i].vectors) /\ TasksSorted(ns[i].vectors, O)
              /\ ToSet(ns[i].vectors) = (ToSet(ms[i].vectors) \cup Gift(g[i - 1])) \ Gift(g[i])
              /\ Gift(g[i]) \subseteq ToSet(ms[i].vectors)
              /\ \A z \in Gift(g[i]), w \in ToSet(ms[i].vectors) \ Gift(g[i]) : <<z, w>> \in O
  <2>1. Distinct(ToSet(ms[i].vectors) \cup Gift(g[i - 1]), O)
    <3>1. ToSet(ms[i].vectors) \cup Gift(g[i - 1]) \subseteq Held(ms) \cup {v}
      BY <1>2, <1>10
    <3>2. Distinct(Held(ms) \cup {v}, O)
      BY DEF ms
    <3>. QED
      BY <3>1, <3>2 DEF Distinct
  <2>2. g[i - 1] \in TaskGives
    BY <1>2, <1>7
  <2>3. ms[i] \in Filled /\ ms[i].keys = KeysOf(ms[i].vectors) /\ TasksSorted(ms[i].vectors, O)
    BY <1>1, <1>2
  <2>4. TaskMoved(ms[i], ns[i], g[i - 1], g[i])
    BY <1>4
  <2>5. \A z \in ToSet(ms[i].vectors), w \in Gift(g[i - 1]) : <<z, w>> \in O
    BY <1>10
  <2>. DEFINE m == ms[i]  x == g[i - 1]  o == ns[i]  y == g[i]
  <2>. HIDE DEF m, x, o, y
  <2>6. /\ m \in Filled /\ m.keys = KeysOf(m.vectors) /\ TasksSorted(m.vectors, O) /\ x \in TaskGives
        /\ TaskMoved(m, o, x, y) /\ \A z \in ToSet(m.vectors), w \in Gift(x) : <<z, w>> \in O
        /\ Distinct(ToSet(m.vectors) \cup Gift(x), O)
    BY <2>1, <2>2, <2>3, <2>4, <2>5 DEF m, x, o, y
  <2>7. /\ o.keys = KeysOf(o.vectors) /\ TasksSorted(o.vectors, O)
        /\ ToSet(o.vectors) = (ToSet(m.vectors) \cup Gift(x)) \ Gift(y)
        /\ Gift(y) \subseteq ToSet(m.vectors)
        /\ \A z \in Gift(y), w \in ToSet(m.vectors) \ Gift(y) : <<z, w>> \in O
    BY <2>6, MovedEffect
  <2>. QED
    BY <2>7 DEF m, x, o, y
(* The sets of vectors before and after, a last matrix counted that was    *)
(* empty before.                                                           *)
<1>. DEFINE A == [i \in 1 .. n + 1 |-> IF i = n + 1 THEN {} ELSE ToSet(ms[i].vectors)]
            G == [i \in 0 .. n + 1 |-> IF i = n + 1 THEN {} ELSE Gift(g[i])]
            B == [i \in 1 .. n + 1 |-> IF i = n + 1 THEN Gift(last) ELSE ToSet(ns[i].vectors)]
<1>12. ASSUME NEW i \in 1 .. n
       PROVE  /\ i \in 1 .. n + 1 /\ i # n + 1 /\ i - 1 \in 0 .. n /\ i - 1 \in 0 .. n + 1 /\ i - 1 # n + 1
              /\ i \in 0 .. n + 1
  BY <1>2
<1>13. /\ \A i \in 1 .. n : A[i] = ToSet(ms[i].vectors) /\ G[i] = Gift(g[i])
                            /\ G[i - 1] = Gift(g[i - 1]) /\ B[i] = ToSet(ns[i].vectors)
       /\ A[n + 1] = {} /\ G[n + 1] = {} /\ B[n + 1] = Gift(last) /\ G[0] = {v}
       /\ G[(n + 1) - 1] = Gift(last)
  <2>1. /\ n + 1 \in 1 .. n + 1 /\ n + 1 \in 0 .. n + 1 /\ 0 \in 0 .. n + 1 /\ 0 # n + 1
        /\ (n + 1) - 1 = n /\ n \in 0 .. n + 1 /\ n # n + 1
    BY <1>2
  <2>. QED
    BY <1>8, <1>12, <2>1 DEF last
<1>14. \A i \in 1 .. n + 1 : i \in 1 .. n \/ i = n + 1
  BY <1>2
<1>. HIDE DEF A, G, B
<1>15. TasksInRow(A, n + 1, O)
  <2>. SUFFICES ASSUME NEW i \in 1 .. n + 1, NEW j \in 1 .. n + 1, i > j, NEW x \in A[i], NEW y \in A[j]
                PROVE  <<x, y>> \in O
    BY DEF TasksInRow
  <2>1. i \in 1 .. n /\ j \in 1 .. n
    BY <1>13, <1>14
  <2>. QED
    BY <1>1, <1>13, <2>1 DEF TasksInRow
<1>16. TaskHandsOn(A, B, G, n + 1, v, O)
  <2>1. \A i \in 1 .. n + 1 : \A x \in A[i] : <<x, v>> \in O
    <3>1. \A i \in 1 .. n : \A x \in ToSet(ms[i].vectors) : <<x, v>> \in O
      BY <1>2 DEF ms
    <3>. QED
      BY <1>13, <1>14, <3>1
  <2>2. ASSUME NEW i \in 1 .. n + 1
        PROVE  /\ G[i] \subseteq A[i] /\ \A x \in G[i], y \in A[i] \ G[i] : <<x, y>> \in O
               /\ B[i] = (A[i] \cup G[i - 1]) \ G[i]
    <3>1. CASE i \in 1 .. n
      BY <1>11, <1>13, <3>1
    <3>2. CASE i = n + 1
      BY <1>13, <3>2
    <3>. QED
      BY <1>14, <3>1, <3>2
  <2>. QED
    BY <1>13, <2>1, <2>2 DEF TaskHandsOn
<1>17. TasksInRow(B, n + 1, O)
  <2>1. n + 1 \in Nat
    BY <1>2
  <2>. QED
    BY <1>15, <1>16, <2>1, TaskOrderKept
(* The new matrices.                                                       *)
<1>18. last # <<>> => /\ NewMatrix(last[1]) \in Filled
                      /\ NewMatrix(last[1]).keys = KeysOf(NewMatrix(last[1]).vectors)
                      /\ TasksSorted(NewMatrix(last[1]).vectors, O)
                      /\ ToSet(NewMatrix(last[1]).vectors) = Gift(last)
  <2>. SUFFICES ASSUME last # <<>>
                PROVE  /\ NewMatrix(last[1]) \in Filled
                       /\ NewMatrix(last[1]).keys = KeysOf(NewMatrix(last[1]).vectors)
                       /\ TasksSorted(NewMatrix(last[1]).vectors, O)
                       /\ ToSet(NewMatrix(last[1]).vectors) = Gift(last)
    OBVIOUS
  <2>. DEFINE w == last[1]
  <2>1. w \in TaskVectors /\ Gift(last) = {w} /\ Key(w) \in Tasks
    BY <1>6 DEF TaskVectors, Key
  <2>. HIDE DEF w
  <2>2. NewMatrix(w).vectors = <<w>> /\ NewMatrix(w).keys = {Key(w)}
    BY DEF NewMatrix
  <2>3. <<w>> \in Seq(TaskVectors) /\ <<w>> # <<>> /\ ToSet(<<w>>) = {w}
    BY <2>1 DEF ToSet
  <2>4. TasksSorted(<<w>>, O)
    BY DEF TasksSorted
  <2>5. NewMatrix(w) \in Filled
    <3>1. Len(<<w>>) <= SliceLength /\ {Key(w)} \subseteq Tasks
      BY <2>1, TaskWindowAssumption
    <3>. QED
      BY <2>3, <3>1 DEF NewMatrix, Filled, TaskMatrices
  <2>6. KeysOf(<<w>>) = {Key(w)}
    BY <2>3 DEF KeysOf
  <2>. QED
    BY <2>1, <2>2, <2>3, <2>4, <2>5, <2>6 DEF w
<1>19. /\ nm \in Seq(Filled) /\ Len(nm) = k /\ k \in Nat
       /\ \A i \in 1 .. k : nm[i].keys = KeysOf(nm[i].vectors) /\ TasksSorted(nm[i].vectors, O)
       /\ \A i \in 1 .. k : ToSet(nm[i].vectors) = B[i]
       /\ 1 .. k \subseteq 1 .. n + 1
  <2>1. CASE last = <<>>
    BY <1>2, <1>4, <1>11, <1>13, <2>1
  <2>2. CASE last # <<>>
    <3>. DEFINE w == NewMatrix(last[1])
    <3>0. w \in Filled
      BY <1>18, <2>2
    <3>. HIDE DEF w
    <3>1. nm = Append(ns, w) /\ k = n + 1
      BY <2>2 DEF w
    <3>2. /\ Append(ns, w) \in Seq(Filled) /\ Len(Append(ns, w)) = n + 1
          /\ \A i \in 1 .. n : Append(ns, w)[i] = ns[i]
          /\ Append(ns, w)[n + 1] = w
      BY <1>2, <1>4, <3>0
    <3>. HIDE DEF nm
    <3>3. \A i \in 1 .. n : nm[i] = ns[i]
      BY <3>1, <3>2
    <3>4. nm[n + 1] = w
      BY <3>1, <3>2
    <3>5. \A i \in 1 .. n + 1 : nm[i].keys = KeysOf(nm[i].vectors) /\ TasksSorted(nm[i].vectors, O)
      BY <1>11, <1>14, <1>18, <2>2, <3>3, <3>4 DEF w
    <3>6. \A i \in 1 .. n + 1 : ToSet(nm[i].vectors) = B[i]
      BY <1>13, <1>14, <1>18, <2>2, <3>3, <3>4 DEF w
    <3>. QED
      BY <1>2, <3>1, <3>2, <3>5, <3>6
  <2>. QED
    BY <2>1, <2>2
<1>. HIDE DEF nm, k
<1>20. Tidy(nm, O)
  <2>1. TasksInRow([i \in 1 .. Len(nm) |-> ToSet(nm[i].vectors)], Len(nm), O)
    BY <1>17, <1>19 DEF TasksInRow
  <2>. QED
    BY <1>19, <2>1 DEF Tidy
<1>21. Held(nm) = Held(ms) \cup {v}
  <2>1. Held(nm) = UNION {B[i] : i \in 1 .. k}
    BY <1>19 DEF Held
  <2>2. \A i \in 1 .. n + 1 : i \in 1 .. k \/ B[i] = {}
    <3>1. last = <<>> => Gift(last) = {}
      BY DEF Gift
    <3>. QED
      BY <1>13, <1>14, <3>1 DEF k
  <2>3. ASSUME NEW i \in 1 .. k PROVE B[i] \subseteq Held(ms) \cup {v}
    <3>1. CASE i \in 1 .. n
      <4>1. B[i] \subseteq ToSet(ms[i].vectors) \cup Gift(g[i - 1])
        BY <1>11, <1>13, <3>1
      <4>2. ToSet(ms[i].vectors) \subseteq Held(ms) /\ Gift(g[i - 1]) \subseteq Held(ms) \cup {v}
        BY <1>2, <1>10, <3>1
      <4>. QED
        BY <4>1, <4>2
    <3>2. CASE i = n + 1
      <4>1. n = 0 => Gift(last) = {v}
        BY <1>8 DEF last
      <4>2. n # 0 => n \in 1 .. n
        BY <1>2
      <4>3. n # 0 => Gift(last) \subseteq Held(ms)
        BY <1>2, <1>9, <4>2 DEF last
      <4>. QED
        BY <1>13, <3>2, <4>1, <4>3
    <3>. QED
      BY <1>14, <1>19, <3>1, <3>2
  <2>4. ASSUME NEW i \in 0 .. n, NEW x \in Gift(g[i])
        PROVE  \E j \in 1 .. n + 1 : x \in B[j]
    <3>1. CASE i = n
      <4>1. x \in B[n + 1] /\ n + 1 \in 1 .. n + 1
        BY <1>2, <1>13, <2>4, <3>1 DEF last
      <4>. QED
        BY <4>1
    <3>2. CASE i # n
      <4>. DEFINE j == i + 1
      <4>1. j \in 1 .. n /\ j - 1 = i /\ j \in 1 .. n + 1
        BY <1>2, <3>2
      <4>. HIDE DEF j
      <4>2. x \in Gift(g[j - 1])
        BY <2>4, <4>1
      <4>3. x \notin Gift(g[j])
        <5>1. Distinct(Held(ms) \cup {v}, O)
          BY DEF ms
        <5>2. x \in Gift(g[j]) => <<x, x>> \in O
          BY <1>9, <1>10, <4>1, <4>2
        <5>3. x \in Held(ms) \cup {v}
          BY <1>10, <4>1, <4>2
        <5>. QED
          BY <5>1, <5>2, <5>3 DEF Distinct
      <4>4. x \in B[j]
        BY <1>11, <1>13, <4>1, <4>2, <4>3
      <4>. QED
        BY <4>1, <4>4
    <3>. QED
      BY <3>1, <3>2
  <2>5. \E j \in 1 .. n + 1 : v \in B[j]
    <3>1. 0 \in 0 .. n /\ v \in Gift(g[0])
      BY <1>2, <1>8
    <3>. QED
      BY <2>4, <3>1
  <2>6. ASSUME NEW x \in Held(ms) PROVE \E j \in 1 .. n + 1 : x \in B[j]
    <3>1. PICK i \in 1 .. n : x \in ToSet(ms[i].vectors)
      BY <1>2
    <3>2. CASE x \in Gift(g[i])
      <4>1. i \in 0 .. n
        BY <1>2
      <4>. QED
        BY <2>4, <3>2, <4>1
    <3>3. CASE x \notin Gift(g[i])
      <4>1. x \in ToSet(ns[i].vectors)
        BY <1>11, <3>1, <3>3
      <4>2. x \in B[i] /\ i \in 1 .. n + 1
        BY <1>12, <1>13, <4>1
      <4>. QED
        BY <4>2
    <3>. QED
      BY <3>2, <3>3
  <2>7. \A j \in 1 .. n + 1 : \A x \in B[j] : x \in Held(nm)
    BY <2>1, <2>2
  <2>. QED
    BY <2>1, <2>3, <2>5, <2>6, <2>7
<1>. QED
  BY <1>5, <1>20, <1>21 DEF new, ms

-----------------------------------------------------------------------------
LEMMA RemoveAtFirst ==
  ASSUME NEW S, NEW s \in Seq(S), s # <<>>
  PROVE  RemoveAt(s, 1) = Tail(s)
<1>. DEFINE a == SubSeq(s, 1, 1 - 1)  b == SubSeq(s, 1 + 1, Len(s))
<1>1. a = <<>> /\ b = Tail(s)
  OBVIOUS
<1>2. Tail(s) \in Seq(S)
  OBVIOUS
<1>3. <<>> \o Tail(s) = Tail(s)
  BY <1>2
<1>4. RemoveAt(s, 1) = a \o b
  BY Zenon DEF RemoveAt
<1>. HIDE DEF a, b
<1>. QED
  BY <1>1, <1>3, <1>4, Zenon

LEMMA RemoveAtLast ==
  ASSUME NEW S, NEW s \in Seq(S), s # <<>>
  PROVE  LET t == RemoveAt(s, Len(s)) IN
         t \in Seq(S) /\ Len(t) = Len(s) - 1 /\ \A i \in 1 .. Len(s) - 1 : t[i] = s[i]
<1>. DEFINE n == Len(s)  a == SubSeq(s, 1, n - 1)  b == SubSeq(s, n + 1, n)
<1>1. n \in Nat \ {0}
  OBVIOUS
<1>2. b = <<>>
  OBVIOUS
<1>3. a \in Seq(S) /\ Len(a) = n - 1 /\ \A i \in 1 .. n - 1 : a[i] = s[i]
  <2>. DEFINE p == n - 1
  <2>1. p \in Nat /\ p <= n
    BY <1>1
  <2>. HIDE DEF p
  <2>2. SubSeq(s, 1, p) \in Seq(S)
    BY <2>1
  <2>3. Len(SubSeq(s, 1, p)) = p
    BY <2>1
  <2>4. \A i \in 1 .. p : SubSeq(s, 1, p)[i] = s[i]
    BY <2>1
  <2>. QED
    BY <2>2, <2>3, <2>4 DEF p
<1>4. RemoveAt(s, n) = a \o b
  BY DEF RemoveAt
<1>. HIDE DEF a, b
<1>5. a \o <<>> = a
  BY <1>3
<1>. QED
  BY <1>2, <1>3, <1>4, <1>5

(* The oldest vector of a category is looked up by its key and removed.    *)
LEMMA RemoveEffect ==
  ASSUME NEW O, NEW item, Tidy(item.matrices, O), NEW u \in Held(item.matrices),
         Distinct(Held(item.matrices), O), \A x \in Held(item.matrices) : <<x, u>> \notin O
  PROVE  LET new == RemoveTask(item, Key(u)) IN
         /\ Tidy(new.matrices, O) /\ Held(new.matrices) = Held(item.matrices) \ {u}
         /\ (item.TaskCount \in Int => new.TaskCount = item.TaskCount - 1)
<1>. DEFINE ms == item.matrices
            n == Len(ms)
            k == Key(u)
<1>1. /\ ms \in Seq(Filled)
      /\ \A i \in 1 .. n : ms[i].keys = KeysOf(ms[i].vectors) /\ TasksSorted(ms[i].vectors, O)
      /\ TasksInRow([i \in 1 .. n |-> ToSet(ms[i].vectors)], n, O)
  BY DEF Tidy
<1>2. /\ n \in Nat /\ DOMAIN ms = 1 .. n
      /\ \A i \in 1 .. n :
           /\ ms[i] \in Filled /\ ms[i].vectors \in Seq(TaskVectors) /\ ms[i].vectors # <<>>
           /\ ms[i].vectors[1] \in ToSet(ms[i].vectors)
           /\ ToSet(ms[i].vectors) \subseteq Held(ms)
      /\ \A x \in Held(ms) : \E i \in 1 .. n : x \in ToSet(ms[i].vectors)
  BY <1>1, HeldFacts
<1>3. Distinct(Held(ms), O) /\ u \in Held(ms) /\ \A x \in Held(ms) : <<x, u>> \notin O
  OBVIOUS
<1>. HIDE DEF ms, n
<1>4. \A i, j \in 1 .. n : i > j => \A x \in ToSet(ms[i].vectors), y \in ToSet(ms[j].vectors) : <<x, y>> \in O
  BY <1>1 DEF TasksInRow
(* It is the first of the last matrix, and nowhere else.                   *)
<1>5. PICK i \in 1 .. n : u \in ToSet(ms[i].vectors)
  BY <1>2, <1>3
<1>6. n \in 1 .. n /\ i = n
  <2>1. n \in 1 .. n
    BY <1>2
  <2>2. ms[n].vectors[1] \in Held(ms) /\ ms[n].vectors[1] \in ToSet(ms[n].vectors)
    BY <1>2, <2>1
  <2>3. n > i => <<ms[n].vectors[1], u>> \in O
    BY <1>4, <1>5, <2>1, <2>2
  <2>4. ~ (n > i)
    BY <1>3, <2>2, <2>3
  <2>. QED
    BY <1>2, <2>1, <2>4
<1>. DEFINE s == ms[n].vectors
<1>7. s \in Seq(TaskVectors) /\ s # <<>> /\ ToSet(s) \subseteq Held(ms) /\ TasksSorted(s, O) /\ ms[n].keys = KeysOf(s)
  BY <1>1, <1>2, <1>6
<1>. HIDE DEF s
<1>8. u = s[1]
  <2>1. PICK a \in DOMAIN s : s[a] = u
    BY <1>5, <1>6 DEF ToSet, s
  <2>2. 1 \in DOMAIN s /\ a \in Nat /\ (a = 1 \/ 1 < a) /\ s[1] \in ToSet(s)
    BY <1>7, <2>1 DEF ToSet
  <2>3. 1 < a => <<s[1], u>> \in O
    BY <1>7, <2>1, <2>2 DEF TasksSorted
  <2>. QED
    BY <1>3, <1>7, <2>1, <2>2, <2>3
<1>9. \A j \in 1 .. n : Holds(ms[j], k) <=> j = n
  <2>1. Holds(ms[n], k)
    <3>1. u \in ToSet(s) /\ 1 \in DOMAIN s
      BY <1>7, <1>8 DEF ToSet
    <3>2. k \in ms[n].keys
      BY <1>7, <3>1 DEF KeysOf
    <3>. QED
      BY <1>8, <3>1, <3>2 DEF Holds, s
  <2>2. ASSUME NEW j \in 1 .. n, Holds(ms[j], k), j # n PROVE FALSE
    <3>1. PICK b \in DOMAIN ms[j].vectors : Key(ms[j].vectors[b]) = k
      BY <2>2 DEF Holds
    <3>2. ms[j].vectors[b] \in ToSet(ms[j].vectors)
      BY DEF ToSet
    <3>3. ms[j].vectors[b] = u
      BY <1>2, <1>3, <3>1, <3>2 DEF Distinct
    <3>4. n > j
      BY <1>2, <2>2
    <3>5. <<u, u>> \in O
      BY <1>4, <1>5, <1>6, <3>2, <3>3, <3>4
    <3>. QED
      BY <1>3, <3>5
  <2>. QED
    BY <2>1, <2>2
<1>. DEFINE hits == {j \in DOMAIN ms : Holds(ms[j], k)}
            left == [j \in DOMAIN ms |-> RemoveVector(ms[j], k)]
            last == CHOOSE j \in hits : \A l \in hits : l <= j
            new == RemoveTask(item, k)
<1>10. new = IF hits = {} THEN item
             ELSE [matrices |-> IF left[last].vectors = <<>> THEN RemoveAt(left, last) ELSE left,
                   TaskCount |-> item.TaskCount - Cardinality(hits)]
  BY DEF RemoveTask, ms
<1>11. hits = {n}
  BY <1>2, <1>6, <1>9
<1>. HIDE DEF hits
<1>12. last = n
  <2>1. n \in hits /\ \A l \in hits : l <= n
    BY <1>2, <1>11
  <2>. QED
    BY <1>11, <2>1
<1>13. Cardinality(hits) = 1
  BY <1>11, FS_Singleton
<1>. DEFINE m == [vectors |-> Tail(s), keys |-> ms[n].keys \ {k}]
<1>14. left[n] = m /\ \A j \in 1 .. n - 1 : left[j] = ms[j]
  <2>1. FirstOf(ms[n], k) = 1
    <3>. DEFINE P(j) == Key(s[j]) = k /\ \A l \in DOMAIN s : l < j => Key(s[l]) # k
    <3>1. 1 \in DOMAIN s /\ \A j \in DOMAIN s : j = 1 \/ 1 < j
      BY <1>7
    <3>2. 1 \in DOMAIN s /\ P(1)
      <4>1. \A l \in DOMAIN s : ~ (l < 1)
        BY <1>7
      <4>. QED
        BY <1>8, <3>1, <4>1
    <3>3. \A j \in DOMAIN s : P(j) => j = 1
      BY <1>8, <3>1
    <3>4. FirstOf(ms[n], k) = CHOOSE j \in DOMAIN s : P(j)
      BY DEF FirstOf, s
    <3>. HIDE DEF P
    <3>. QED
      BY <3>2, <3>3, <3>4
  <2>2. RemoveAt(s, 1) = Tail(s)
    BY <1>7, RemoveAtFirst
  <2>3. RemoveVector(ms[n], k) = m
    BY <1>6, <1>9, <2>1, <2>2 DEF RemoveVector, s
  <2>4. \A j \in 1 .. n - 1 : RemoveVector(ms[j], k) = ms[j]
    <3>1. \A j \in 1 .. n - 1 : j \in 1 .. n /\ j # n
      BY <1>2
    <3>. QED
      BY <1>9, <3>1 DEF RemoveVector
  <2>5. \A j \in 1 .. n - 1 : j \in DOMAIN ms
    BY <1>2
  <2>. QED
    BY <1>2, <1>6, <2>3, <2>4, <2>5
(* The matrix without it.                                                  *)
<1>15. /\ Tail(s) \in Seq(TaskVectors) /\ TasksSorted(Tail(s), O) /\ ToSet(s) = ToSet(Tail(s)) \cup {u}
       /\ u \notin ToSet(Tail(s)) /\ ms[n].keys \ {k} = KeysOf(Tail(s))
  <2>1. /\ Tail(s) \in Seq(TaskVectors) /\ TasksSorted(Tail(s), O) /\ ToSet(s) = ToSet(Tail(s)) \cup {u}
        /\ \A x \in ToSet(Tail(s)) : <<u, x>> \in O
    BY <1>7, <1>8, TasksSortedTail
  <2>2. u \notin ToSet(Tail(s))
    BY <1>3, <2>1
  <2>3. \A x \in ToSet(Tail(s)) : Key(x) # k
    BY <1>3, <1>7, <2>1, <2>2 DEF Distinct
  <2>. QED
    BY <1>7, <2>1, <2>2, <2>3 DEF KeysOf
<1>16. Tail(s) # <<>> => m \in Filled
  <2>1. ms[n].keys \subseteq Tasks /\ Len(s) <= SliceLength
    BY <1>2, <1>6 DEF Filled, TaskMatrices, s
  <2>2. Len(Tail(s)) <= SliceLength
    <3>1. Len(Tail(s)) = Len(s) - 1 /\ Len(s) \in Nat
      BY <1>7
    <3>. QED
      BY <2>1, <3>1, TaskWindowAssumption
  <2>. QED
    BY <1>15, <2>1, <2>2 DEF Filled, TaskMatrices
<1>. DEFINE nm == IF Tail(s) = <<>> THEN RemoveAt(left, n) ELSE left
            l == IF Tail(s) = <<>> THEN n - 1 ELSE n
<1>17. new = [matrices |-> nm, TaskCount |-> item.TaskCount - 1]
  <2>1. left[n].vectors = Tail(s)
    BY <1>14
  <2>. HIDE DEF left, new, last
  <2>. QED
    BY <1>10, <1>11, <1>12, <1>13, <2>1
<1>. HIDE DEF new
<1>18. /\ nm \in Seq(Filled) /\ Len(nm) = l /\ l \in Nat
       /\ \A j \in 1 .. n - 1 : nm[j] = ms[j]
       /\ Tail(s) # <<>> => nm[n] = m
  <2>1. CASE Tail(s) # <<>>
    <3>1. \A j \in 1 .. n : j \in 1 .. n - 1 \/ j = n
      BY <1>2
    <3>2. \A j \in 1 .. n : left[j] \in Filled
      <4>. HIDE DEF left, m
      <4>1. \A j \in 1 .. n - 1 : left[j] \in Filled
        BY <1>2, <1>14
      <4>2. left[n] \in Filled
        BY <1>14, <1>16, <2>1
      <4>. QED
        BY <3>1, <4>1, <4>2
    <3>3. left = [j \in 1 .. n |-> left[j]]
      BY <1>2
    <3>. HIDE DEF left, m
    <3>4. left \in [1 .. n -> Filled]
      BY <3>2, <3>3
    <3>5. left \in Seq(Filled) /\ Len(left) = n
      BY <1>2, <3>4
    <3>. QED
      BY <1>2, <1>14, <2>1, <3>5
  <2>2. CASE Tail(s) = <<>>
    <3>. DEFINE S == Filled \cup {left[n]}
    <3>1. \A j \in 1 .. n : left[j] \in S
      <4>1. \A j \in 1 .. n : j \in 1 .. n - 1 \/ j = n
        BY <1>2
      <4>. HIDE DEF left, m
      <4>. QED
        BY <1>2, <1>14, <4>1
    <3>2. left = [j \in 1 .. n |-> left[j]]
      BY <1>2
    <3>. HIDE DEF left, m, S
    <3>3. left \in [1 .. n -> S]
      BY <3>1, <3>2
    <3>4. left \in Seq(S) /\ Len(left) = n /\ left # <<>>
      BY <1>2, <1>6, <3>3
    <3>. DEFINE t == RemoveAt(left, n)
    <3>5. t \in Seq(S) /\ Len(t) = n - 1 /\ \A j \in 1 .. n - 1 : t[j] = left[j]
      BY <3>4, RemoveAtLast
    <3>. HIDE DEF t
    <3>6. \A j \in 1 .. n - 1 : t[j] = ms[j] /\ ms[j] \in Filled
      BY <1>2, <1>14, <3>5
    <3>7. n - 1 \in Nat
      BY <1>2, <1>6
    <3>8. t \in Seq(Filled)
      BY <3>5, <3>6, <3>7
    <3>. QED
      BY <2>2, <3>5, <3>6, <3>7, <3>8 DEF t
  <2>. QED
    BY <2>1, <2>2
<1>19. \A j \in 1 .. l : j \in 1 .. n - 1 \/ (j = n /\ Tail(s) # <<>>)
  BY <1>2, <1>6
<1>. HIDE DEF nm, l, left
<1>20. \A j \in 1 .. l :
         /\ j \in 1 .. n
         /\ nm[j].keys = KeysOf(nm[j].vectors) /\ TasksSorted(nm[j].vectors, O)
         /\ ToSet(nm[j].vectors) = ToSet(ms[j].vectors) \ {u}
  <2>. SUFFICES ASSUME NEW j \in 1 .. l
                PROVE  /\ j \in 1 .. n
                       /\ nm[j].keys = KeysOf(nm[j].vectors) /\ TasksSorted(nm[j].vectors, O)
                       /\ ToSet(nm[j].vectors) = ToSet(ms[j].vectors) \ {u}
    OBVIOUS
  <2>1. CASE j \in 1 .. n - 1
    <3>1. j \in 1 .. n /\ n > j /\ nm[j] = ms[j]
      BY <1>2, <1>18, <2>1
    <3>2. u \notin ToSet(ms[j].vectors)
      BY <1>3, <1>4, <1>5, <1>6, <3>1
    <3>. QED
      BY <1>1, <3>1, <3>2
  <2>2. CASE j = n /\ Tail(s) # <<>>
    <3>1. nm[n].vectors = Tail(s) /\ nm[n].keys = ms[n].keys \ {k}
      BY <1>18, <2>2
    <3>. QED
      BY <1>6, <1>15, <2>2, <3>1 DEF s
  <2>. QED
    BY <1>19, <2>1, <2>2
<1>21. Tidy(nm, O)
  <2>1. TasksInRow([j \in 1 .. l |-> ToSet(nm[j].vectors)], l, O)
    BY <1>4, <1>20 DEF TasksInRow
  <2>. QED
    BY <1>18, <1>20, <2>1 DEF Tidy
<1>22. Held(nm) = Held(ms) \ {u}
  <2>1. Held(nm) = UNION {ToSet(nm[j].vectors) : j \in 1 .. l}
    BY <1>18 DEF Held
  <2>2. ASSUME NEW x \in Held(ms), x # u PROVE x \in Held(nm)
    <3>1. PICK j \in 1 .. n : x \in ToSet(ms[j].vectors)
      BY <1>2
    <3>2. j \in 1 .. l
      <4>1. j = n => Tail(s) # <<>>
        <5>1. j = n => x \in ToSet(Tail(s))
          BY <1>15, <2>2, <3>1 DEF s
        <5>2. ToSet(<<>>) = {}
          BY DEF ToSet
        <5>. QED
          BY <5>1, <5>2
      <4>. QED
        BY <1>2, <4>1 DEF l
    <3>. QED
      BY <1>20, <2>1, <2>2, <3>1, <3>2
  <2>3. ASSUME NEW x \in Held(nm) PROVE x \in Held(ms) /\ x # u
    <3>1. PICK j \in 1 .. l : x \in ToSet(nm[j].vectors)
      BY <2>1
    <3>. QED
      BY <1>2, <1>20, <3>1
  <2>. QED
    BY <2>2, <2>3
<1>. QED
  BY <1>17, <1>21, <1>22 DEF new, ms

-----------------------------------------------------------------------------
(* The list and one category.                                              *)
OrderOf(list) ==
  {p \in TaskVectors \X TaskVectors :
     \E i, j \in DOMAIN list : i < j /\ list[i].vector = p[1] /\ list[j].vector = p[2]}
ListedIn(list, c) == {i \in DOMAIN list : Tag[Key(list[i].vector)] = c}
VectorsIn(list, c) == {list[i].vector : i \in ListedIn(list, c)}

Agrees(list, cats, c) ==
  LET item == CategoryOf(cats, c) IN
  /\ Tidy(item.matrices, OrderOf(list)) /\ Held(item.matrices) = VectorsIn(list, c)
  /\ item.TaskCount = Cardinality(ListedIn(list, c))
  /\ \A i, j \in ListedIn(list, c) : Key(list[i].vector) = Key(list[j].vector) => i = j
  /\ \A i \in ListedIn(list, c) : c \in DOMAIN cats /\ ~ list[i].orphan

LEMMA ListFacts ==
  ASSUME NEW list \in Seq(Entries), NEW c
  PROVE  /\ Len(list) \in Nat /\ DOMAIN list = 1 .. Len(list)
         /\ \A i \in 1 .. Len(list) :
              /\ list[i] \in Entries /\ list[i].vector \in TaskVectors /\ Key(list[i].vector) \in Tasks
         /\ ListedIn(list, c) \subseteq 1 .. Len(list)
         /\ IsFiniteSet(ListedIn(list, c)) /\ Cardinality(ListedIn(list, c)) \in Nat
<1>1. Len(list) \in Nat /\ DOMAIN list = 1 .. Len(list) /\ \A i \in 1 .. Len(list) : list[i] \in Entries
  OBVIOUS
<1>2. \A i \in 1 .. Len(list) : list[i].vector \in TaskVectors /\ Key(list[i].vector) \in Tasks
  BY <1>1 DEF Entries, TaskVectors, Key
<1>3. ListedIn(list, c) \subseteq 1 .. Len(list)
  BY <1>1 DEF ListedIn
<1>4. IsFiniteSet(1 .. Len(list))
  BY <1>1, FS_Interval
<1>5. IsFiniteSet(ListedIn(list, c)) /\ Cardinality(ListedIn(list, c)) \in Nat
  BY <1>3, <1>4, FS_Subset, FS_CardinalityType
<1>. QED
  BY <1>1, <1>2, <1>3, <1>5

(* Keys that tell the tasks of a category apart tell its vectors apart.    *)
LEMMA KeysTell ==
  ASSUME NEW list \in Seq(Entries), NEW c,
         \A i, j \in ListedIn(list, c) : Key(list[i].vector) = Key(list[j].vector) => i = j
  PROVE  Distinct(VectorsIn(list, c), OrderOf(list))
<1>1. ASSUME NEW x \in VectorsIn(list, c), NEW y \in VectorsIn(list, c), Key(x) = Key(y) PROVE x = y
  BY <1>1 DEF VectorsIn
<1>2. ASSUME NEW x \in VectorsIn(list, c), <<x, x>> \in OrderOf(list) PROVE FALSE
  <2>1. PICK i, j \in DOMAIN list : i < j /\ list[i].vector = x /\ list[j].vector = x
    BY <1>2 DEF OrderOf
  <2>2. i \in ListedIn(list, c) /\ j \in ListedIn(list, c)
    BY <2>1 DEF VectorsIn, ListedIn
  <2>. QED
    BY <2>1, <2>2
<1>. QED
  BY <1>1, <1>2 DEF Distinct

(* What is in order stays so when the order of what is held stays.         *)
LEMMA TidyKept ==
  ASSUME NEW O, NEW P, NEW ms, Tidy(ms, O), \A x, y \in Held(ms) : <<x, y>> \in O => <<x, y>> \in P
  PROVE  Tidy(ms, P)
<1>1. /\ ms \in Seq(Filled)
      /\ \A i \in 1 .. Len(ms) : ms[i].keys = KeysOf(ms[i].vectors) /\ TasksSorted(ms[i].vectors, O)
      /\ TasksInRow([i \in 1 .. Len(ms) |-> ToSet(ms[i].vectors)], Len(ms), O)
  BY DEF Tidy
<1>2. \A i \in 1 .. Len(ms) : ToSet(ms[i].vectors) \subseteq Held(ms)
  BY <1>1, HeldFacts
<1>3. \A i \in 1 .. Len(ms) : TasksSorted(ms[i].vectors, P)
  <2>. SUFFICES ASSUME NEW i \in 1 .. Len(ms), NEW a \in DOMAIN ms[i].vectors, NEW b \in DOMAIN ms[i].vectors,
                       a < b
                PROVE  <<ms[i].vectors[a], ms[i].vectors[b]>> \in P
    BY DEF TasksSorted
  <2>1. ms[i].vectors[a] \in Held(ms) /\ ms[i].vectors[b] \in Held(ms)
    BY <1>2 DEF ToSet
  <2>. QED
    BY <1>1, <2>1 DEF TasksSorted
<1>4. TasksInRow([i \in 1 .. Len(ms) |-> ToSet(ms[i].vectors)], Len(ms), P)
  BY <1>1, <1>2 DEF TasksInRow
<1>. QED
  BY <1>1, <1>3, <1>4 DEF Tidy

(* A list without its first.                                               *)
LEMMA ListedTail ==
  ASSUME NEW list \in Seq(Entries), list # <<>>, NEW c
  PROVE  LET t == Tail(list)  u == list[1].vector IN
         /\ t \in Seq(Entries)
         /\ \A i \in ListedIn(t, c) : i + 1 \in ListedIn(list, c) /\ t[i] = list[i + 1]
         /\ \A i \in ListedIn(list, c) : i = 1 \/ (i - 1 \in ListedIn(t, c) /\ t[i - 1] = list[i])
         /\ 1 \in ListedIn(list, c) <=> Tag[Key(u)] = c
         /\ Cardinality(ListedIn(t, c)) =
              IF Tag[Key(u)] = c THEN Cardinality(ListedIn(list, c)) - 1 ELSE Cardinality(ListedIn(list, c))
         /\ \A x, y \in TaskVectors : <<x, y>> \in OrderOf(list) /\ x # u => <<x, y>> \in OrderOf(t)
<1>. DEFINE t == Tail(list)
            n == Len(list) - 1
            u == list[1].vector
            Old == ListedIn(list, c)
            T == ListedIn(t, c)
<1>1. /\ n \in Nat /\ DOMAIN list = 1 .. n + 1 /\ DOMAIN t = 1 .. n
      /\ \A i \in 1 .. n : t[i] = list[i + 1]
      /\ t \in Seq(Entries)
  OBVIOUS
<1>2. \A i \in 1 .. n : i + 1 \in 1 .. n + 1 /\ (i + 1) - 1 = i
  BY <1>1
<1>3. \A i \in 1 .. n + 1 : i = 1 \/ (i - 1 \in 1 .. n /\ (i - 1) + 1 = i)
  BY <1>1
<1>. HIDE DEF t, n
<1>4. \A i \in T : i + 1 \in Old /\ t[i] = list[i + 1] /\ i \in 1 .. n
  BY <1>1, <1>2 DEF ListedIn
<1>5. \A i \in Old : i \in 1 .. n + 1 /\ (i = 1 \/ (i - 1 \in T /\ t[i - 1] = list[i]))
  BY <1>1, <1>3 DEF ListedIn
<1>6. 1 \in Old <=> Tag[Key(u)] = c
  BY <1>1 DEF ListedIn
<1>7. IsFiniteSet(Old) /\ IsFiniteSet(T)
  BY <1>1, ListFacts
<1>8. Cardinality(T) = Cardinality(Old \ {1})
  <2>. DEFINE f == [i \in T |-> i + 1]
  <2>. HIDE DEF Old, T
  <2>1. f \in [T -> Old \ {1}]
    BY <1>1, <1>4
  <2>2. \A i, j \in T : f[i] = f[j] => i = j
    BY <1>4
  <2>3. \A j \in Old \ {1} : \E i \in T : f[i] = j
    <3>. TAKE j \in Old \ {1}
    <3>1. j - 1 \in T /\ f[j - 1] = j
      BY <1>1, <1>5
    <3>. QED
      BY <3>1
  <2>4. f \in Bijection(T, Old \ {1})
    BY <2>1, <2>2, <2>3, Fun_IsBij
  <2>5. ExistsBijection(T, Old \ {1})
    BY <2>4, Fun_ExistsBij
  <2>. QED
    BY <1>7, <2>5, FS_Bijection
<1>9. Cardinality(T) = IF Tag[Key(u)] = c THEN Cardinality(Old) - 1 ELSE Cardinality(Old)
  <2>1. CASE 1 \in Old
    <3>1. Cardinality(Old \ {1}) = Cardinality(Old) - 1
      BY <1>7, <2>1, FS_RemoveElement
    <3>. QED
      BY <1>6, <1>8, <2>1, <3>1
  <2>2. CASE 1 \notin Old
    <3>1. Old \ {1} = Old
      BY <2>2
    <3>. QED
      BY <1>6, <1>8, <2>2, <3>1
  <2>. QED
    BY <2>1, <2>2
<1>10. ASSUME NEW x \in TaskVectors, NEW y \in TaskVectors, <<x, y>> \in OrderOf(list), x # u
       PROVE  <<x, y>> \in OrderOf(t)
  <2>1. PICK i, j \in DOMAIN list : i < j /\ list[i].vector = x /\ list[j].vector = y
    BY <1>10 DEF OrderOf
  <2>. DEFINE a == i - 1  b == j - 1
  <2>2. i # 1 /\ j # 1 /\ i \in Nat /\ j \in Nat
    BY <1>1, <1>10, <2>1
  <2>3. a \in DOMAIN t /\ b \in DOMAIN t /\ a < b /\ a + 1 = i /\ b + 1 = j
    BY <1>1, <2>1, <2>2
  <2>4. t[a].vector = x /\ t[b].vector = y
    BY <1>1, <2>1, <2>3
  <2>. HIDE DEF a, b
  <2>. QED
    BY <2>3, <2>4 DEF OrderOf
<1>. QED
  BY <1>1, <1>4, <1>5, <1>6, <1>9, <1>10 DEF t

(* A list with a new last entry.                                           *)
LEMMA ListedAppend ==
  ASSUME NEW list \in Seq(Entries), NEW e \in Entries, NEW c
  PROVE  LET t == Append(list, e)  v == e.vector  n == Len(list) + 1 IN
         /\ t \in Seq(Entries)
         /\ ListedIn(t, c) = ListedIn(list, c) \cup (IF Tag[Key(v)] = c THEN {n} ELSE {})
         /\ VectorsIn(t, c) = VectorsIn(list, c) \cup (IF Tag[Key(v)] = c THEN {v} ELSE {})
         /\ Cardinality(ListedIn(t, c)) =
              Cardinality(ListedIn(list, c)) + (IF Tag[Key(v)] = c THEN 1 ELSE 0)
         /\ \A i \in ListedIn(list, c) : t[i] = list[i] /\ i # n
         /\ t[n] = e
         /\ OrderOf(list) \subseteq OrderOf(t)
         /\ \A x \in VectorsIn(list, c) : <<x, v>> \in OrderOf(t)
<1>. DEFINE t == Append(list, e)
            n == Len(list) + 1
            v == e.vector
            Old == ListedIn(list, c)
            New == IF Tag[Key(v)] = c THEN {n} ELSE {}
<1>1. /\ n \in Nat \ {0} /\ DOMAIN list = 1 .. n - 1 /\ DOMAIN t = 1 .. n
      /\ \A i \in 1 .. n - 1 : t[i] = list[i]
      /\ t[n] = e
      /\ t \in Seq(Entries)
      /\ \A i \in 1 .. n - 1 : list[i] \in Entries
  OBVIOUS
<1>2. /\ \A i \in 1 .. n : i \in 1 .. n - 1 \/ i = n
      /\ \A i \in 1 .. n - 1 : i \in 1 .. n /\ i < n /\ i # n
      /\ n \in 1 .. n
  BY <1>1
<1>3. v \in TaskVectors /\ \A i \in 1 .. n - 1 : list[i].vector \in TaskVectors
  BY <1>1 DEF Entries
<1>. HIDE DEF t, n, v
<1>4. ListedIn(t, c) = Old \cup New
  <2>1. ASSUME NEW i \in ListedIn(t, c) PROVE i \in Old \cup New
    <3>1. i \in 1 .. n /\ Tag[Key(t[i].vector)] = c
      BY <1>1 DEF ListedIn
    <3>. QED
      BY <1>1, <1>2, <3>1 DEF ListedIn, v
  <2>2. Old \subseteq ListedIn(t, c)
    BY <1>1, <1>2 DEF ListedIn
  <2>3. New \subseteq ListedIn(t, c)
    BY <1>1, <1>2 DEF ListedIn, v
  <2>. QED
    BY <2>1, <2>2, <2>3
<1>5. Old \subseteq 1 .. n - 1
  BY <1>1 DEF ListedIn
<1>6. \A i \in Old : t[i] = list[i] /\ i # n
  BY <1>1, <1>2, <1>5
<1>7. VectorsIn(t, c) = VectorsIn(list, c) \cup (IF Tag[Key(v)] = c THEN {v} ELSE {})
  <2>. HIDE DEF Old
  <2>1. VectorsIn(t, c) = {t[i].vector : i \in Old \cup New} /\ VectorsIn(list, c) = {list[i].vector : i \in Old}
    BY <1>4 DEF VectorsIn, Old
  <2>. QED
    BY <1>1, <1>6, <2>1 DEF v
<1>8. Cardinality(ListedIn(t, c)) = Cardinality(Old) + (IF Tag[Key(v)] = c THEN 1 ELSE 0)
  <2>1. IsFiniteSet(Old) /\ Cardinality(Old) \in Nat /\ n \notin Old
    BY <1>6, ListFacts
  <2>2. CASE Tag[Key(v)] = c
    <3>1. Cardinality(Old \cup {n}) = Cardinality(Old) + 1
      BY <2>1, FS_AddElement
    <3>. QED
      BY <1>4, <2>2, <3>1
  <2>3. CASE Tag[Key(v)] # c
    <3>1. ListedIn(t, c) = Old
      BY <1>4, <2>3
    <3>. QED
      BY <2>1, <2>3, <3>1
  <2>. QED
    BY <2>2, <2>3
<1>9. OrderOf(list) \subseteq OrderOf(t)
  <2>. SUFFICES ASSUME NEW p \in OrderOf(list) PROVE p \in OrderOf(t)
    OBVIOUS
  <2>1. PICK i, j \in DOMAIN list : i < j /\ list[i].vector = p[1] /\ list[j].vector = p[2]
    BY DEF OrderOf
  <2>2. i \in DOMAIN t /\ j \in DOMAIN t /\ t[i] = list[i] /\ t[j] = list[j]
    BY <1>1, <1>2, <2>1
  <2>. QED
    BY <2>1, <2>2 DEF OrderOf
<1>10. ASSUME NEW x \in VectorsIn(list, c) PROVE <<x, v>> \in OrderOf(t)
  <2>1. PICK i \in Old : x = list[i].vector
    BY DEF VectorsIn
  <2>2. i \in DOMAIN t /\ n \in DOMAIN t /\ i < n /\ t[i].vector = x /\ t[n].vector = v /\ x \in TaskVectors
    BY <1>1, <1>2, <1>3, <1>5, <2>1 DEF v
  <2>. QED
    BY <1>3, <2>2 DEF OrderOf
<1>. QED
  BY <1>1, <1>4, <1>6, <1>7, <1>8, <1>9, <1>10 DEF t, n, v

LEMMA CategoryWritten ==
  ASSUME NEW cats, NEW d, NEW item, NEW c
  PROVE  /\ DOMAIN WithCategory(cats, d, item) = DOMAIN cats \cup {d}
         /\ CategoryOf(WithCategory(cats, d, item), c) = IF c = d THEN item ELSE CategoryOf(cats, c)
BY DEF WithCategory, CategoryOf

LEMMA WithoutFacts ==
  ASSUME NEW cats, NEW e, NEW c
  PROVE  LET d == Tag[Key(e.vector)] IN
         /\ DOMAIN Without(cats, e) = DOMAIN cats
         /\ c # d => CategoryOf(Without(cats, e), c) = CategoryOf(cats, c)
         /\ c = d /\ ~ e.orphan /\ c \in DOMAIN cats =>
              CategoryOf(Without(cats, e), c) = RemoveTask(CategoryOf(cats, c), Key(e.vector))
BY DEF Without, CategoryOf

(* A task arrives, whose key is not listed in its category.                *)
LEMMA ArriveAgrees ==
  ASSUME NEW list \in Seq(Entries), NEW cats, NEW c,
         Agrees(list, cats, c), NEW e \in Entries, ~ e.orphan,
         \A i \in ListedIn(list, c) : Key(list[i].vector) # Key(e.vector)
  PROVE  LET d == Tag[Key(e.vector)] IN
         Agrees(Append(list, e), WithCategory(cats, d, ReserveForResponse(CategoryOf(cats, d), e.vector)), c)
<1>. DEFINE v == e.vector
            d == Tag[Key(v)]
            t == Append(list, e)
            n == Len(list) + 1
            item == CategoryOf(cats, c)
            new == WithCategory(cats, d, ReserveForResponse(CategoryOf(cats, d), v))
            after == CategoryOf(new, c)
            O == OrderOf(list)
            P == OrderOf(t)
<1>1. /\ t \in Seq(Entries)
      /\ ListedIn(t, c) = ListedIn(list, c) \cup (IF d = c THEN {n} ELSE {})
      /\ VectorsIn(t, c) = VectorsIn(list, c) \cup (IF d = c THEN {v} ELSE {})
      /\ Cardinality(ListedIn(t, c)) = Cardinality(ListedIn(list, c)) + (IF d = c THEN 1 ELSE 0)
      /\ \A i \in ListedIn(list, c) : t[i] = list[i] /\ i # n
      /\ t[n] = e
      /\ O \subseteq P
      /\ \A x \in VectorsIn(list, c) : <<x, v>> \in P
  BY ListedAppend
<1>2. /\ Tidy(item.matrices, O) /\ Held(item.matrices) = VectorsIn(list, c)
      /\ item.TaskCount = Cardinality(ListedIn(list, c))
      /\ \A i, j \in ListedIn(list, c) : Key(list[i].vector) = Key(list[j].vector) => i = j
      /\ \A i \in ListedIn(list, c) : c \in DOMAIN cats /\ ~ list[i].orphan
  BY DEF Agrees
<1>3. /\ DOMAIN new = DOMAIN cats \cup {d}
      /\ after = IF c = d THEN ReserveForResponse(item, v) ELSE item
  <2>. DEFINE r == ReserveForResponse(CategoryOf(cats, d), v)
  <2>1. c = d => r = ReserveForResponse(item, v)
    BY Zenon
  <2>2. DOMAIN new = DOMAIN cats \cup {d} /\ after = IF c = d THEN r ELSE item
    <3>. HIDE DEF r, d
    <3>1. /\ DOMAIN WithCategory(cats, d, r) = DOMAIN cats \cup {d}
          /\ CategoryOf(WithCategory(cats, d, r), c) = IF c = d THEN r ELSE CategoryOf(cats, c)
      BY DEF WithCategory, CategoryOf
    <3>2. new = WithCategory(cats, d, r)
      BY DEF r
    <3>. HIDE DEF new
    <3>. QED
      BY <3>1, <3>2
  <2>. HIDE DEF r, after, item, new
  <2>. QED
    BY <2>1, <2>2, Zenon
<1>4. v \in TaskVectors /\ Cardinality(ListedIn(list, c)) \in Nat
  BY ListFacts DEF Entries
<1>. HIDE DEF t, n, v, item, new, after, O, P, d
<1>5. Tidy(item.matrices, P)
  BY <1>1, <1>2, TidyKept
<1>6. \A i, j \in ListedIn(t, c) : Key(t[i].vector) = Key(t[j].vector) => i = j
  <2>1. CASE d = c
    <3>1. \A i \in ListedIn(t, c) : i \in ListedIn(list, c) \/ i = n
      BY <1>1, <2>1
    <3>. QED
      BY <1>1, <1>2, <3>1 DEF v
  <2>2. CASE d # c
    BY <1>1, <1>2, <2>2
  <2>. QED
    BY <2>1, <2>2
<1>7. \A i \in ListedIn(t, c) : c \in DOMAIN new /\ ~ t[i].orphan
  <2>1. CASE d = c
    <3>1. \A i \in ListedIn(t, c) : i \in ListedIn(list, c) \/ i = n
      BY <1>1, <2>1
    <3>. QED
      BY <1>1, <1>2, <1>3, <2>1, <3>1
  <2>2. CASE d # c
    BY <1>1, <1>2, <1>3, <2>2
  <2>. QED
    BY <2>1, <2>2
<1>8. /\ Tidy(after.matrices, P) /\ Held(after.matrices) = VectorsIn(t, c)
      /\ after.TaskCount = Cardinality(ListedIn(t, c))
  <2>1. CASE d # c
    BY <1>1, <1>2, <1>3, <1>4, <1>5, <2>1
  <2>2. CASE d = c
    <3>1. Distinct(VectorsIn(t, c), P)
      BY <1>1, <1>6, KeysTell DEF P
    <3>2. VectorsIn(t, c) = Held(item.matrices) \cup {v}
      BY <1>1, <1>2, <2>2
    <3>3. \A x \in Held(item.matrices) : <<x, v>> \in P
      BY <1>1, <1>2
    <3>4. /\ Tidy(after.matrices, P) /\ Held(after.matrices) = Held(item.matrices) \cup {v}
          /\ after.TaskCount = item.TaskCount + 1
      <4>1. after = ReserveForResponse(item, v)
        BY <1>3, <2>2
      <4>2. Distinct(Held(item.matrices) \cup {v}, P)
        BY <3>1, <3>2
      <4>. DEFINE r == ReserveForResponse(item, v)
      <4>3. /\ Tidy(r.matrices, P) /\ Held(r.matrices) = Held(item.matrices) \cup {v}
            /\ r.TaskCount = item.TaskCount + 1
        BY <1>4, <1>5, <3>3, <4>2, ReserveEffect
      <4>. HIDE DEF r
      <4>. QED
        BY <4>1, <4>3 DEF r
    <3>. QED
      BY <1>1, <1>2, <2>2, <3>2, <3>4
  <2>. QED
    BY <2>1, <2>2
<1>. QED
  BY <1>6, <1>7, <1>8 DEF Agrees, t, new, after, P, v, d

(* The oldest listed task leaves.                                          *)
LEMMA LeaveAgrees ==
  ASSUME NEW list \in Seq(Entries), list # <<>>, NEW cats, NEW c,
         Agrees(list, cats, c)
  PROVE  Agrees(Tail(list), Without(cats, list[1]), c)
<1>. DEFINE e == list[1]
            u == e.vector
            d == Tag[Key(u)]
            t == Tail(list)
            item == CategoryOf(cats, c)
            new == Without(cats, e)
            after == CategoryOf(new, c)
            O == OrderOf(list)
            P == OrderOf(t)
<1>1. /\ t \in Seq(Entries)
      /\ \A i \in ListedIn(t, c) : i + 1 \in ListedIn(list, c) /\ t[i] = list[i + 1]
      /\ \A i \in ListedIn(list, c) : i = 1 \/ (i - 1 \in ListedIn(t, c) /\ t[i - 1] = list[i])
      /\ 1 \in ListedIn(list, c) <=> d = c
      /\ Cardinality(ListedIn(t, c)) =
           IF d = c THEN Cardinality(ListedIn(list, c)) - 1 ELSE Cardinality(ListedIn(list, c))
      /\ \A x, y \in TaskVectors : <<x, y>> \in O /\ x # u => <<x, y>> \in P
  BY ListedTail
<1>2. /\ Tidy(item.matrices, O) /\ Held(item.matrices) = VectorsIn(list, c)
      /\ item.TaskCount = Cardinality(ListedIn(list, c))
      /\ \A i, j \in ListedIn(list, c) : Key(list[i].vector) = Key(list[j].vector) => i = j
      /\ \A i \in ListedIn(list, c) : c \in DOMAIN cats /\ ~ list[i].orphan
  BY DEF Agrees
<1>3. /\ DOMAIN new = DOMAIN cats
      /\ c # d => after = item
      /\ c = d /\ ~ e.orphan /\ c \in DOMAIN cats => after = RemoveTask(item, Key(u))
  BY WithoutFacts
<1>4. /\ Cardinality(ListedIn(list, c)) \in Nat /\ \A i \in ListedIn(list, c) : i \in Nat
      /\ \A i \in ListedIn(t, c) : i \in Nat
  <2>. HIDE DEF t
  <2>1. Cardinality(ListedIn(list, c)) \in Nat /\ ListedIn(list, c) \subseteq 1 .. Len(list)
    BY ListFacts
  <2>2. ListedIn(t, c) \subseteq 1 .. Len(t)
    BY <1>1, ListFacts
  <2>. QED
    BY <2>1, <2>2
<1>5. Held(item.matrices) \subseteq TaskVectors
  BY <1>2, HeldFacts DEF Tidy
<1>6. 1 \in ListedIn(list, c) => e = list[1]
  OBVIOUS
<1>. HIDE DEF t, u, item, new, after, O, P, d, e
<1>7. \A i, j \in ListedIn(t, c) : Key(t[i].vector) = Key(t[j].vector) => i = j
  <2>. SUFFICES ASSUME NEW i \in ListedIn(t, c), NEW j \in ListedIn(t, c), Key(t[i].vector) = Key(t[j].vector)
                PROVE  i = j
    OBVIOUS
  <2>1. i + 1 = j + 1
    BY <1>1, <1>2
  <2>. QED
    BY <1>4, <2>1
<1>8. \A i \in ListedIn(t, c) : c \in DOMAIN new /\ ~ t[i].orphan
  BY <1>1, <1>2, <1>3
<1>9. VectorsIn(t, c) = IF d = c THEN VectorsIn(list, c) \ {u} ELSE VectorsIn(list, c)
  <2>1. VectorsIn(t, c) \subseteq VectorsIn(list, c)
    BY <1>1 DEF VectorsIn
  <2>2. ASSUME NEW x \in VectorsIn(list, c) PROVE x \in VectorsIn(t, c) \/ (x = u /\ d = c)
    <3>1. PICK i \in ListedIn(list, c) : x = list[i].vector
      BY DEF VectorsIn
    <3>2. CASE i = 1
      BY <1>1, <3>1, <3>2 DEF u, e
    <3>3. CASE i # 1
      <4>1. i - 1 \in ListedIn(t, c) /\ t[i - 1] = list[i]
        BY <1>1, <3>3
      <4>. QED
        BY <3>1, <4>1 DEF VectorsIn
    <3>. QED
      BY <3>2, <3>3
  <2>3. ASSUME d = c, u \in VectorsIn(t, c) PROVE FALSE
    <3>1. PICK i \in ListedIn(t, c) : u = t[i].vector
      BY <2>3 DEF VectorsIn
    <3>2. 1 \in ListedIn(list, c) /\ i + 1 \in ListedIn(list, c) /\ list[i + 1].vector = u /\ list[1].vector = u
      BY <1>1, <2>3, <3>1 DEF u, e
    <3>3. i + 1 = 1
      BY <1>2, <3>2
    <3>4. i \in 1 .. Len(t)
      BY <1>1, ListFacts
    <3>. QED
      BY <3>3, <3>4
  <2>. QED
    BY <2>1, <2>2, <2>3
<1>10. /\ Tidy(after.matrices, O) /\ Held(after.matrices) = VectorsIn(t, c)
       /\ after.TaskCount = Cardinality(ListedIn(t, c))
  <2>1. CASE d # c
    BY <1>1, <1>2, <1>3, <1>9, <2>1
  <2>2. CASE d = c
    <3>1. Distinct(Held(item.matrices), O)
      BY <1>2, KeysTell DEF O
    <3>2. 1 \in ListedIn(list, c) /\ u \in Held(item.matrices)
      BY <1>1, <1>2, <2>2 DEF VectorsIn, u, e
    <3>3. after = RemoveTask(item, Key(u))
      BY <1>2, <1>3, <2>2, <3>2 DEF e
    <3>4. ASSUME NEW x \in Held(item.matrices), <<x, u>> \in O PROVE FALSE
      <4>1. PICK i, j \in DOMAIN list : i < j /\ list[i].vector = x /\ list[j].vector = u
        BY <3>4 DEF O, OrderOf
      <4>2. j \in ListedIn(list, c)
        BY <2>2, <4>1 DEF ListedIn, d
      <4>3. j = 1
        BY <1>2, <3>2, <4>1, <4>2 DEF u, e
      <4>. QED
        BY <4>1, <4>3
    <3>5. /\ Tidy(after.matrices, O) /\ Held(after.matrices) = Held(item.matrices) \ {u}
          /\ item.TaskCount \in Int => after.TaskCount = item.TaskCount - 1
      BY <1>2, <3>1, <3>2, <3>3, <3>4, RemoveEffect
    <3>. QED
      BY <1>1, <1>2, <1>4, <1>9, <2>2, <3>5
  <2>. QED
    BY <2>1, <2>2
<1>11. Tidy(after.matrices, P)
  <2>1. ASSUME NEW x \in Held(after.matrices) PROVE x \in TaskVectors /\ x # u
    <3>1. x \in VectorsIn(list, c)
      BY <1>9, <1>10
    <3>2. CASE d = c
      BY <1>2, <1>5, <1>9, <1>10, <3>1, <3>2
    <3>3. CASE d # c
      <4>1. Tag[Key(x)] = c
        BY <3>1 DEF VectorsIn, ListedIn
      <4>. QED
        BY <1>2, <1>5, <3>1, <3>3, <4>1 DEF d
    <3>. QED
      BY <3>2, <3>3
  <2>2. \A x, y \in Held(after.matrices) : <<x, y>> \in O => <<x, y>> \in P
    BY <1>1, <2>1
  <2>. QED
    BY <1>10, <2>2, TidyKept
<1>. QED
  BY <1>7, <1>8, <1>10, <1>11 DEF Agrees, t, new, after, P, e

-----------------------------------------------------------------------------
(* The types of all categories, also of those that a repeated request has  *)
(* spoiled.                                                                *)
LEMMA RemoveAtTypes ==
  ASSUME NEW S, NEW s \in Seq(S), NEW i \in 1 .. Len(s)
  PROVE  RemoveAt(s, i) \in Seq(S) /\ Len(RemoveAt(s, i)) = Len(s) - 1
<1>. DEFINE n == Len(s)
            p == i - 1
            a == SubSeq(s, 1, p)
            b == SubSeq(s, i + 1, n)
<1>1. n \in Nat /\ i \in 1 .. n /\ p \in Nat /\ p <= n
  OBVIOUS
<1>. HIDE DEF p, n
<1>2. a \in Seq(S) /\ Len(a) = p
  BY <1>1 DEF n
<1>3. b \in Seq(S) /\ Len(b) = n - i
  BY <1>1 DEF n
<1>4. RemoveAt(s, i) = a \o b
  BY DEF RemoveAt, n, p
<1>. HIDE DEF a, b
<1>5. a \o b \in Seq(S) /\ Len(a \o b) = Len(a) + Len(b)
  BY <1>2, <1>3
<1>. QED
  BY <1>1, <1>2, <1>3, <1>4, <1>5 DEF n, p

LEMMA RemoveAtElements ==
  ASSUME NEW S, NEW s \in Seq(S), NEW i \in 1 .. Len(s), NEW j \in 1 .. Len(s) - 1
  PROVE  RemoveAt(s, i)[j] = IF j < i THEN s[j] ELSE s[j + 1]
<1>. DEFINE n == Len(s)
            p == i - 1
            a == SubSeq(s, 1, p)
            b == SubSeq(s, i + 1, n)
<1>1. n \in Nat /\ i \in 1 .. n /\ p \in Nat /\ p <= n /\ i = p + 1 /\ j \in 1 .. n - 1
  OBVIOUS
<1>. HIDE DEF p, n
<1>2. a \in Seq(S) /\ Len(a) = p /\ \A k \in 1 .. p : a[k] = s[k]
  BY <1>1 DEF n
<1>3. b \in Seq(S) /\ Len(b) = n - i /\ \A k \in 1 .. n - i : b[k] = s[i + k]
  BY <1>1 DEF n
<1>4. RemoveAt(s, i) = a \o b
  BY DEF RemoveAt, n, p
<1>. HIDE DEF a, b
<1>5. (a \o b)[j] = IF j <= p THEN a[j] ELSE b[j - p]
  BY <1>1, <1>2, <1>3
<1>6. CASE j < i
  BY <1>1, <1>2, <1>4, <1>5, <1>6
<1>7. CASE ~ (j < i)
  <2>1. ~ (j <= p) /\ j - p \in 1 .. n - i /\ i + (j - p) = j + 1
    BY <1>1, <1>7
  <2>. QED
    BY <1>3, <1>4, <1>5, <1>7, <2>1
<1>. QED
  BY <1>6, <1>7

LEMMA LargestMember ==
  ASSUME NEW n \in Nat, NEW T, T \subseteq 1 .. n, T # {}
  PROVE  \E x \in T : \A y \in T : y <= x
<1>. DEFINE Rest == {n - x : x \in T}
<1>1. Rest \subseteq Nat /\ Rest # {}
  <2>1. \A x \in T : n - x \in Nat
    OBVIOUS
  <2>2. PICK x \in T : TRUE
    OBVIOUS
  <2>3. n - x \in Rest
    OBVIOUS
  <2>. QED
    BY <2>1, <2>3
<1>2. PICK r \in Rest : \A s \in Rest : r <= s
  <2>. HIDE DEF Rest
  <2>. QED
    BY <1>1, SmallestMember
<1>3. PICK x \in T : r = n - x
  OBVIOUS
<1>4. ASSUME NEW y \in T PROVE y <= x
  <2>1. n - y \in Rest
    OBVIOUS
  <2>. HIDE DEF Rest
  <2>2. x \in 1 .. n /\ y \in 1 .. n
    OBVIOUS
  <2>3. r <= n - y
    BY <1>2, <2>1
  <2>. QED
    BY <1>3, <2>2, <2>3
<1>. QED
  BY <1>4

LEMMA RemoveVectorTypes ==
  ASSUME NEW m \in TaskMatrices, NEW k
  PROVE  /\ RemoveVector(m, k) \in TaskMatrices
         /\ Len(RemoveVector(m, k).vectors) = Len(m.vectors) - IF Holds(m, k) THEN 1 ELSE 0
<1>. DEFINE s == m.vectors
<1>1. s \in Seq(TaskVectors) /\ Len(s) <= SliceLength /\ m.keys \subseteq Tasks
  BY DEF TaskMatrices
<1>2. CASE ~ Holds(m, k)
  BY <1>1, <1>2 DEF RemoveVector
<1>3. CASE Holds(m, k)
  <2>. DEFINE K == {i \in DOMAIN s : Key(s[i]) = k}
              P(i) == Key(s[i]) = k /\ \A j \in DOMAIN s : j < i => Key(s[j]) # k
              f == FirstOf(m, k)
  <2>1. K # {} /\ K \subseteq Nat /\ DOMAIN s = 1 .. Len(s) /\ Len(s) \in Nat
    BY <1>1, <1>3 DEF Holds
  <2>2. PICK x \in K : \A y \in K : x <= y
    <3>. HIDE DEF K
    <3>. QED
      BY <2>1, SmallestMember
  <2>3. x \in DOMAIN s /\ P(x)
    <3>1. \A j \in DOMAIN s : j < x => j \notin K
      BY <2>1, <2>2
    <3>. QED
      BY <3>1
  <2>4. f = CHOOSE i \in DOMAIN s : P(i)
    BY DEF FirstOf
  <2>5. f \in DOMAIN s
    <3>. HIDE DEF P, f
    <3>. QED
      BY <2>3, <2>4
  <2>. DEFINE r == RemoveAt(s, f)
  <2>. HIDE DEF s, f
  <2>6. r \in Seq(TaskVectors) /\ Len(r) = Len(s) - 1
    BY <1>1, <2>1, <2>5, RemoveAtTypes
  <2>7. RemoveVector(m, k) = [vectors |-> r, keys |-> m.keys \ {k}]
    BY <1>3 DEF RemoveVector, f, s
  <2>. HIDE DEF r
  <2>8. Len(r) <= SliceLength
    BY <1>1, <2>1, <2>6, TaskWindowAssumption
  <2>9. RemoveVector(m, k) \in TaskMatrices
    BY <1>1, <2>6, <2>7, <2>8 DEF TaskMatrices
  <2>. QED
    BY <1>3, <2>6, <2>7, <2>9 DEF s
<1>. QED
  BY <1>2, <1>3

(* How many of the first i matrices hold a key.                            *)
HitsUpTo(n, hits) == [i \in 0 .. n |-> Cardinality({j \in hits : j <= i})]

LEMMA HitsCounted ==
  ASSUME NEW n \in Nat, NEW hits, hits \subseteq 1 .. n
  PROVE  /\ HitsUpTo(n, hits) \in [0 .. n -> Nat]
         /\ HitsUpTo(n, hits)[0] = 0 /\ HitsUpTo(n, hits)[n] = Cardinality(hits)
         /\ \A i \in 1 .. n : HitsUpTo(n, hits)[i] = HitsUpTo(n, hits)[i - 1] + IF i \in hits THEN 1 ELSE 0
<1>. DEFINE H(i) == {j \in hits : j <= i}
            upTo == [i \in 0 .. n |-> Cardinality(H(i))]
<1>1. \A i \in 0 .. n : IsFiniteSet(H(i)) /\ Cardinality(H(i)) \in Nat
  <2>1. IsFiniteSet(1 .. n)
    BY FS_Interval
  <2>2. ASSUME NEW i \in 0 .. n PROVE IsFiniteSet(H(i)) /\ Cardinality(H(i)) \in Nat
    <3>1. H(i) \subseteq 1 .. n
      OBVIOUS
    <3>. HIDE DEF H
    <3>. QED
      BY <2>1, <3>1, FS_Subset, FS_CardinalityType
  <2>. QED
    BY <2>2
<1>0. \A j \in hits : j \in Nat /\ 1 <= j /\ j <= n
  OBVIOUS
<1>2. H(0) = {} /\ H(n) = hits
  <2>1. \A j \in hits : ~ (j <= 0)
    BY <1>0
  <2>2. H(0) = {}
    BY <2>1
  <2>3. H(n) = hits
    BY <1>0
  <2>. QED
    BY <2>2, <2>3
<1>3. ASSUME NEW i \in 1 .. n
      PROVE  Cardinality(H(i)) = Cardinality(H(i - 1)) + IF i \in hits THEN 1 ELSE 0
  <2>1. i - 1 \in 0 .. n
    OBVIOUS
  <2>2. i \notin H(i - 1)
    OBVIOUS
  <2>3. CASE i \in hits
    <3>1. H(i) = H(i - 1) \cup {i}
      <4>1. \A j \in hits : j <= i <=> j <= i - 1 \/ j = i
        BY <1>0
      <4>. QED
        BY <2>3, <4>1
    <3>. HIDE DEF H
    <3>. QED
      BY <1>1, <2>1, <2>2, <2>3, <3>1, FS_AddElement
  <2>4. CASE i \notin hits
    <3>1. H(i) = H(i - 1)
      <4>1. \A j \in hits : j <= i <=> j <= i - 1
        BY <1>0, <2>4
      <4>. QED
        BY <4>1
    <3>. HIDE DEF H
    <3>. QED
      BY <1>1, <2>1, <2>4, <3>1
  <2>. QED
    BY <2>3, <2>4
<1>. HIDE DEF H
<1>4. upTo \in [0 .. n -> Nat] /\ \A i \in 0 .. n : upTo[i] = Cardinality(H(i))
  BY <1>1
<1>5. \A i \in 1 .. n : i \in 0 .. n /\ i - 1 \in 0 .. n
  OBVIOUS
<1>6. 0 \in 0 .. n /\ n \in 0 .. n
  OBVIOUS
<1>7. upTo[0] = 0 /\ upTo[n] = Cardinality(hits)
  BY <1>2, <1>4, <1>6, FS_EmptySet
<1>8. \A i \in 1 .. n : upTo[i] = upTo[i - 1] + IF i \in hits THEN 1 ELSE 0
  BY <1>3, <1>4, <1>5
<1>9. upTo = HitsUpTo(n, hits)
  BY DEF HitsUpTo, H
<1>. HIDE DEF upTo
<1>. QED
  BY <1>4, <1>7, <1>8, <1>9

(* A matrix without vectors counts for nothing.                            *)
LEMMA EmptyOneRemoved ==
  ASSUME NEW ms \in Seq(TaskMatrices), NEW c, Amounting(ms, c),
         NEW k \in 1 .. Len(ms), ms[k].vectors = <<>>
  PROVE  Amounting(RemoveAt(ms, k), c)
<1>. DEFINE n == Len(ms)
            new == RemoveAt(ms, k)
<1>1. n \in Nat /\ n > 0 /\ k \in 1 .. n
  OBVIOUS
<1>2. PICK T : Totals(ms, T) /\ T[n] = c
  BY DEF Amounting
<1>3. /\ T \in [0 .. n -> Nat] /\ T[0] = 0
      /\ \A i \in 1 .. n : T[i] = T[i - 1] + Len(ms[i].vectors)
  BY <1>2 DEF Totals
<1>4. /\ Len(new) = n - 1
      /\ \A j \in 1 .. n - 1 : new[j] = IF j < k THEN ms[j] ELSE ms[j + 1]
  BY RemoveAtTypes, RemoveAtElements
<1>5. T[k] = T[k - 1]
  <2>1. Len(ms[k].vectors) = 0 /\ T[k - 1] \in Nat
    BY <1>1, <1>3
  <2>. QED
    BY <1>1, <1>3, <2>1
<1>. DEFINE U == [i \in 0 .. n - 1 |-> IF i < k THEN T[i] ELSE T[i + 1]]
<1>. HIDE DEF n, new
<1>6. /\ U \in [0 .. n - 1 -> Nat]
      /\ \A i \in 0 .. n - 1 : U[i] = IF i < k THEN T[i] ELSE T[i + 1]
  <2>1. ASSUME NEW i \in 0 .. n - 1 PROVE T[i] \in Nat /\ T[i + 1] \in Nat
    <3>1. i \in 0 .. n /\ i + 1 \in 0 .. n
      BY <1>1
    <3>. QED
      BY <1>3, <3>1
  <2>. QED
    BY <2>1
<1>. HIDE DEF U
<1>7. U[0] = 0
  BY <1>1, <1>3, <1>6
<1>8. U[n - 1] = T[n]
  <2>1. n - 1 \in 0 .. n - 1 /\ (n - 1) + 1 = n
    BY <1>1
  <2>2. CASE n - 1 < k
    <3>1. k = n
      BY <1>1, <2>2
    <3>. QED
      BY <1>5, <1>6, <2>1, <2>2, <3>1
  <2>3. CASE ~ (n - 1 < k)
    BY <1>6, <2>1, <2>3
  <2>. QED
    BY <2>2, <2>3
<1>9. ASSUME NEW i \in 1 .. n - 1 PROVE U[i] = U[i - 1] + Len(new[i].vectors)
  <2>1. i \in 0 .. n - 1 /\ i - 1 \in 0 .. n - 1 /\ i \in 1 .. n /\ i + 1 \in 1 .. n /\ (i + 1) - 1 = i /\ (i - 1) + 1 = i
    BY <1>1
  <2>2. CASE i < k
    <3>1. i - 1 < k
      BY <1>1, <2>1, <2>2
    <3>. QED
      BY <1>3, <1>4, <1>6, <2>1, <2>2, <3>1
  <2>3. CASE i = k
    <3>1. i - 1 < k /\ ~ (i < k)
      BY <1>1, <2>1, <2>3
    <3>2. T[i + 1] = T[i] + Len(ms[i + 1].vectors)
      BY <1>3, <2>1
    <3>3. U[i] = T[i + 1] /\ U[i - 1] = T[i - 1] /\ new[i] = ms[i + 1]
      BY <1>4, <1>6, <2>1, <3>1
    <3>. QED
      BY <1>5, <2>3, <3>2, <3>3
  <2>4. CASE i > k
    <3>1. ~ (i - 1 < k) /\ ~ (i < k)
      BY <1>1, <2>1, <2>4
    <3>2. T[i + 1] = T[i] + Len(ms[i + 1].vectors)
      BY <1>3, <2>1
    <3>3. U[i] = T[i + 1] /\ U[i - 1] = T[i] /\ new[i] = ms[i + 1]
      BY <1>4, <1>6, <2>1, <3>1
    <3>. QED
      BY <3>2, <3>3
  <2>. QED
    BY <1>1, <2>1, <2>2, <2>3, <2>4
<1>10. Totals(new, U)
  BY <1>4, <1>6, <1>7, <1>9 DEF Totals
<1>11. U[Len(new)] = c
  BY <1>2, <1>4, <1>8
<1>12. Amounting(new, c)
  BY <1>10, <1>11 DEF Amounting
<1>. QED
  BY <1>12 DEF new

LEMMA RemoveTaskTypes ==
  ASSUME NEW item \in Items, NEW k
  PROVE  RemoveTask(item, k) \in Items
<1>. DEFINE ms == item.matrices
            n == Len(ms)
            hits == {i \in DOMAIN ms : Holds(ms[i], k)}
            left == [i \in DOMAIN ms |-> RemoveVector(ms[i], k)]
            last == CHOOSE i \in hits : \A j \in hits : j <= i
            nm == IF left[last].vectors = <<>> THEN RemoveAt(left, last) ELSE left
            count == item.TaskCount - Cardinality(hits)
<1>1. ms \in Seq(TaskMatrices) /\ n \in Nat /\ DOMAIN ms = 1 .. n /\ item.TaskCount \in Nat
  BY DEF Items
<1>2. RemoveTask(item, k) = IF hits = {} THEN item ELSE [matrices |-> nm, TaskCount |-> count]
  BY Zenon DEF RemoveTask
<1>3. CASE hits = {}
  BY <1>2, <1>3
<1>4. CASE hits # {}
  <2>1. hits \subseteq 1 .. n
    BY <1>1
  <2>2. last \in hits
    <3>1. \E x \in hits : \A y \in hits : y <= x
      <4>. HIDE DEF hits, n
      <4>. QED
        BY <1>1, <1>4, <2>1, LargestMember
    <3>. HIDE DEF hits
    <3>. QED
      BY <3>1
  <2>3. PICK T : Totals(ms, T) /\ T[n] = item.TaskCount
    BY DEF Items, Amounting
  <2>4. /\ T \in [0 .. n -> Nat] /\ T[0] = 0
        /\ \A i \in 1 .. n : T[i] = T[i - 1] + Len(ms[i].vectors)
    BY <2>3 DEF Totals
  <2>5. /\ left \in Seq(TaskMatrices) /\ Len(left) = n
        /\ \A i \in 1 .. n : /\ Len(left[i].vectors) \in Nat
                             /\ Len(left[i].vectors) = Len(ms[i].vectors) - IF i \in hits THEN 1 ELSE 0
    <3>1. ASSUME NEW i \in 1 .. n
          PROVE  /\ left[i] \in TaskMatrices /\ Len(left[i].vectors) \in Nat
                 /\ Len(left[i].vectors) = Len(ms[i].vectors) - IF i \in hits THEN 1 ELSE 0
      <4>1. ms[i] \in TaskMatrices /\ i \in DOMAIN ms /\ left[i] = RemoveVector(ms[i], k)
        BY <1>1
      <4>2. i \in hits <=> Holds(ms[i], k)
        BY <4>1
      <4>3. left[i] \in TaskMatrices
        BY <4>1, RemoveVectorTypes
      <4>4. Len(left[i].vectors) \in Nat
        <5>1. left[i].vectors \in Seq(TaskVectors)
          BY <4>3 DEF TaskMatrices
        <5>. HIDE DEF left
        <5>. QED
          BY <5>1
      <4>. HIDE DEF left, hits, ms
      <4>. QED
        BY <4>1, <4>2, <4>3, <4>4, RemoveVectorTypes
    <3>2. DOMAIN left = 1 .. n
      BY <1>1
    <3>3. left = [i \in 1 .. n |-> left[i]]
      BY <1>1
    <3>. HIDE DEF left, hits, ms, n
    <3>4. left \in [1 .. n -> TaskMatrices]
      BY <3>1, <3>3
    <3>5. left \in Seq(TaskMatrices) /\ Len(left) = n
      BY <1>1, <3>4
    <3>. QED
      BY <3>1, <3>5
  <2>. DEFINE upTo == HitsUpTo(n, hits)
  <2>6. /\ upTo \in [0 .. n -> Nat] /\ upTo[0] = 0 /\ upTo[n] = Cardinality(hits)
        /\ \A i \in 1 .. n : upTo[i] = upTo[i - 1] + IF i \in hits THEN 1 ELSE 0
    <3>. HIDE DEF n, hits
    <3>. QED
      BY <1>1, <2>1, HitsCounted
  <2>. HIDE DEF upTo, left, last, hits, ms, n
  <2>. DEFINE U == [i \in 0 .. n |-> T[i] - upTo[i]]
              P == {i \in 0 .. n : U[i] \in Nat}
  <2>7. \A i \in 0 .. n : U[i] = T[i] - upTo[i]
    OBVIOUS
  <2>8. ASSUME NEW i \in 1 .. n PROVE U[i] = U[i - 1] + Len(left[i].vectors)
    <3>1. i \in 0 .. n /\ i - 1 \in 0 .. n
      BY <1>1
    <3>2. U[i] = T[i] - upTo[i] /\ U[i - 1] = T[i - 1] - upTo[i - 1]
      BY <2>7, <3>1
    <3>3. T[i] \in Nat /\ T[i - 1] \in Nat /\ upTo[i] \in Nat /\ upTo[i - 1] \in Nat
      BY <2>4, <2>6, <3>1
    <3>4. T[i] = T[i - 1] + Len(ms[i].vectors) /\ upTo[i] = upTo[i - 1] + IF i \in hits THEN 1 ELSE 0
      BY <2>4, <2>6
    <3>5. Len(left[i].vectors) = Len(ms[i].vectors) - IF i \in hits THEN 1 ELSE 0
      BY <2>5
    <3>6. Len(ms[i].vectors) \in Nat
      <4>1. ms[i] \in TaskMatrices
        BY <1>1
      <4>2. ms[i].vectors \in Seq(TaskVectors)
        BY <4>1 DEF TaskMatrices
      <4>. QED
        BY <4>2
    <3>. DEFINE d == IF i \in hits THEN 1 ELSE 0
                a == Len(ms[i].vectors)
                b == Len(left[i].vectors)
    <3>7. d \in Nat /\ a \in Nat /\ T[i] = T[i - 1] + a /\ upTo[i] = upTo[i - 1] + d /\ b = a - d
      BY <3>4, <3>5, <3>6
    <3>. HIDE DEF U, a, b, d
    <3>8. U[i] = U[i - 1] + b
      BY <3>2, <3>3, <3>7
    <3>. QED
      BY <3>8 DEF b
  <2>9. U[0] = 0 /\ 0 \in P
    BY <1>1, <2>4, <2>6, <2>7
  <2>10. ASSUME NEW i \in 0 .. n - 1, i \in P PROVE i + 1 \in P
    <3>1. i + 1 \in 1 .. n /\ i + 1 \in 0 .. n /\ (i + 1) - 1 = i
      BY <1>1
    <3>2. U[i + 1] = U[i] + Len(left[i + 1].vectors)
      BY <2>8, <3>1
    <3>3. Len(left[i + 1].vectors) \in Nat /\ U[i] \in Nat
      BY <2>5, <2>10, <3>1
    <3>. HIDE DEF U
    <3>. QED
      BY <3>1, <3>2, <3>3
  <2>11. 0 .. n \subseteq P
    <3>. HIDE DEF P
    <3>. QED
      BY <1>1, <2>9, <2>10, InductionUpTo
  <2>12. U \in [0 .. n -> Nat]
    BY <2>11
  <2>13. U[n] = count /\ count \in Nat
    <3>1. n \in 0 .. n
      BY <1>1
    <3>2. U[n] = T[n] - upTo[n] /\ U[n] \in Nat
      BY <2>7, <2>12, <3>1
    <3>. HIDE DEF U
    <3>. QED
      BY <2>3, <2>6, <3>2
  <2>. HIDE DEF U, P, count
  <2>14. Amounting(left, count)
    <3>1. Totals(left, U)
      BY <2>5, <2>8, <2>9, <2>12 DEF Totals
    <3>. QED
      BY <2>5, <2>13, <3>1 DEF Amounting
  <2>15. nm \in Seq(TaskMatrices) /\ Amounting(nm, count)
    <3>1. last \in 1 .. Len(left)
      BY <2>1, <2>2, <2>5
    <3>2. CASE left[last].vectors = <<>>
      <4>1. RemoveAt(left, last) \in Seq(TaskMatrices)
        BY <2>5, <3>1, RemoveAtTypes
      <4>2. Amounting(RemoveAt(left, last), count)
        BY <2>5, <2>14, <3>1, <3>2, EmptyOneRemoved
      <4>. QED
        BY <3>2, <4>1, <4>2
    <3>3. CASE left[last].vectors # <<>>
      BY <2>5, <2>14, <3>3
    <3>. QED
      BY <3>2, <3>3
  <2>. HIDE DEF nm
  <2>. QED
    BY <1>2, <1>4, <2>13, <2>15 DEF Items
<1>. QED
  BY <1>3, <1>4

(* A vector that is passed on, and perhaps becomes a matrix, is one more.  *)
LEMMA OneMorePassed ==
  ASSUME NEW ms \in Seq(TaskMatrices), NEW c, Amounting(ms, c), NEW v, NEW g, NEW ns, Passed(ms, ns, g, v)
  PROVE  /\ g[Len(ms)] = <<>> => Amounting(ns, c + 1)
         /\ g[Len(ms)] # <<>> => Amounting(Append(ns, NewMatrix(g[Len(ms)][1])), c + 1)
<1>. DEFINE n == Len(ms)
            e == NewMatrix(g[n][1])
<1>1. n \in Nat /\ n \in 0 .. n /\ 0 \in 0 .. n
  OBVIOUS
<1>2. PICK T : Totals(ms, T) /\ T[n] = c
  BY DEF Amounting
<1>3. /\ T \in [0 .. n -> Nat] /\ T[0] = 0
      /\ \A i \in 1 .. n : T[i] = T[i - 1] + Len(ms[i].vectors)
  BY <1>2 DEF Totals
<1>4. /\ g \in [0 .. n -> TaskGives] /\ g[0] = <<v>> /\ ns \in Seq(TaskMatrices) /\ Len(ns) = n
      /\ \A i \in 1 .. n : TaskMoved(ms[i], ns[i], g[i - 1], g[i])
  BY DEF Passed
<1>5. \A x \in TaskGives : Len(x) = IF x = <<>> THEN 0 ELSE 1
  BY DEF TaskGives
<1>6. Len(e.vectors) = 1
  BY DEF NewMatrix
<1>. HIDE DEF n, e
<1>7. \A i \in 0 .. n : T[i] \in Nat /\ Len(g[i]) = IF g[i] = <<>> THEN 0 ELSE 1
  BY <1>3, <1>4, <1>5
<1>. DEFINE U == [i \in 0 .. n |-> T[i] + 1 - Len(g[i])]
<1>8. U \in [0 .. n -> Nat] /\ \A i \in 0 .. n : U[i] = T[i] + 1 - Len(g[i])
  <2>1. \A i \in 0 .. n : T[i] + 1 - Len(g[i]) \in Nat
    BY <1>7
  <2>. QED
    BY <2>1
<1>. HIDE DEF U
<1>9. U[0] = 0
  <2>1. Len(g[0]) = 1
    <3>1. g[0] = <<v>> /\ Len(<<v>>) = 1
      BY <1>4
    <3>. QED
      BY <3>1
  <2>2. U[0] = T[0] + 1 - Len(g[0])
    BY <1>1, <1>8
  <2>. QED
    BY <1>3, <2>1, <2>2
<1>10. ASSUME NEW i \in 1 .. n PROVE U[i] = U[i - 1] + Len(ns[i].vectors)
  <2>1. i \in 0 .. n /\ i - 1 \in 0 .. n
    BY <1>1
  <2>2. Len(ns[i].vectors) + Len(g[i]) = Len(ms[i].vectors) + Len(g[i - 1])
    BY <1>4 DEF TaskMoved
  <2>3. ms[i] \in TaskMatrices /\ ns[i] \in TaskMatrices
    BY <1>4 DEF n
  <2>4. Len(ns[i].vectors) \in Nat /\ Len(ms[i].vectors) \in Nat
    BY <2>3 DEF TaskMatrices
  <2>5. /\ T[i] = T[i - 1] + Len(ms[i].vectors)
        /\ U[i] = T[i] + 1 - Len(g[i]) /\ U[i - 1] = T[i - 1] + 1 - Len(g[i - 1])
    BY <1>3, <1>8, <2>1
  <2>6. T[i - 1] \in Nat /\ Len(g[i]) \in Nat /\ Len(g[i - 1]) \in Nat
    BY <1>7, <2>1
  <2>. DEFINE a == Len(ms[i].vectors)
              b == Len(ns[i].vectors)
              x == Len(g[i])
              y == Len(g[i - 1])
              t == T[i - 1]
  <2>7. /\ a \in Nat /\ b \in Nat /\ x \in Nat /\ y \in Nat /\ t \in Nat /\ b + x = a + y
        /\ U[i] = t + a + 1 - x /\ U[i - 1] = t + 1 - y
    BY <2>2, <2>4, <2>5, <2>6
  <2>. HIDE DEF a, b, x, y, t
  <2>8. U[i] = U[i - 1] + b
    BY <2>7
  <2>. QED
    BY <2>8 DEF b
<1>11. Totals(ns, U)
  BY <1>4, <1>8, <1>9, <1>10 DEF Totals
<1>12. ASSUME g[n] = <<>> PROVE Amounting(ns, c + 1)
  <2>1. U[n] = c + 1
    BY <1>1, <1>2, <1>7, <1>8, <1>12
  <2>. QED
    BY <1>4, <1>11, <2>1 DEF Amounting
<1>13. ASSUME g[n] # <<>> PROVE Amounting(Append(ns, e), c + 1)
  <2>1. U[n] = c /\ c \in Nat
    BY <1>1, <1>2, <1>7, <1>8, <1>13
  <2>. DEFINE W == [i \in 0 .. n + 1 |-> IF i = n + 1 THEN c + 1 ELSE U[i]]
              new == Append(ns, e)
  <2>2. /\ W \in [0 .. n + 1 -> Nat] /\ W[n + 1] = c + 1
        /\ \A i \in 0 .. n : W[i] = U[i]
    <3>1. \A i \in 0 .. n + 1 : i # n + 1 => i \in 0 .. n
      BY <1>1
    <3>2. \A i \in 0 .. n : i \in 0 .. n + 1 /\ i # n + 1
      BY <1>1
    <3>. QED
      BY <1>1, <1>8, <2>1, <3>1, <3>2
  <2>3. Len(new) = n + 1 /\ new[n + 1] = e /\ \A i \in 1 .. n : new[i] = ns[i]
    BY <1>1, <1>4
  <2>. HIDE DEF W, new
  <2>4. ASSUME NEW i \in 1 .. n + 1 PROVE W[i] = W[i - 1] + Len(new[i].vectors)
    <3>1. CASE i = n + 1
      <4>1. i - 1 = n
        BY <1>1, <3>1
      <4>2. W[i - 1] = c /\ W[i] = c + 1 /\ Len(new[i].vectors) = 1
        BY <1>1, <1>6, <2>1, <2>2, <2>3, <3>1, <4>1
      <4>. QED
        BY <2>1, <4>2
    <3>2. CASE i # n + 1
      <4>1. i \in 1 .. n /\ i \in 0 .. n /\ i - 1 \in 0 .. n
        BY <1>1, <3>2
      <4>. QED
        BY <1>10, <2>2, <2>3, <4>1
    <3>. QED
      BY <3>1, <3>2
  <2>5. W[0] = 0
    BY <1>1, <1>9, <2>2
  <2>6. Totals(new, W)
    BY <2>2, <2>3, <2>4, <2>5 DEF Totals
  <2>7. Amounting(new, c + 1)
    BY <2>2, <2>3, <2>6 DEF Amounting
  <2>. QED
    BY <2>7 DEF new
<1>. QED
  BY <1>12, <1>13 DEF n, e

LEMMA ReserveTypes ==
  ASSUME NEW item \in Items, NEW v \in TaskVectors
  PROVE  ReserveForResponse(item, v) \in Items
<1>. DEFINE ms == item.matrices
            n == Len(ms)
<1>1. ms \in Seq(TaskMatrices) /\ n \in Nat /\ item.TaskCount \in Nat /\ Amounting(ms, item.TaskCount)
  BY DEF Items
<1>2. PICK g, ns :
        /\ Passed(ms, ns, g, v)
        /\ ReserveForResponse(item, v) =
             [matrices |-> IF g[n] = <<>> THEN ns ELSE Append(ns, NewMatrix(g[n][1])),
              TaskCount |-> item.TaskCount + 1]
  BY <1>1, ReservePasses
<1>. HIDE DEF ms, n
<1>3. g[n] \in TaskGives /\ ns \in Seq(TaskMatrices)
  BY <1>1, <1>2 DEF Passed, n
<1>4. g[n] # <<>> => NewMatrix(g[n][1]) \in TaskMatrices
  <2>. SUFFICES ASSUME g[n] # <<>> PROVE NewMatrix(g[n][1]) \in TaskMatrices
    OBVIOUS
  <2>. DEFINE w == g[n][1]
  <2>1. w \in TaskVectors /\ Key(w) \in Tasks
    BY <1>3, GivesFacts DEF TaskVectors, Key
  <2>. HIDE DEF w
  <2>2. <<w>> \in Seq(TaskVectors) /\ Len(<<w>>) <= SliceLength /\ {Key(w)} \subseteq Tasks
    BY <2>1, TaskWindowAssumption
  <2>3. NewMatrix(w) \in TaskMatrices
    BY <2>2 DEF NewMatrix, TaskMatrices
  <2>. QED
    BY <2>3 DEF w
<1>. DEFINE nm == IF g[n] = <<>> THEN ns ELSE Append(ns, NewMatrix(g[n][1]))
<1>5. nm \in Seq(TaskMatrices)
  BY <1>3, <1>4
<1>6. Amounting(nm, item.TaskCount + 1)
  BY <1>1, <1>2, OneMorePassed DEF n
<1>7. item.TaskCount + 1 \in Nat
  BY <1>1
<1>8. ReserveForResponse(item, v) = [matrices |-> nm, TaskCount |-> item.TaskCount + 1]
  BY <1>2
<1>. HIDE DEF nm
<1>. QED
  BY <1>5, <1>6, <1>7, <1>8 DEF Items

LEMMA WithoutTypes ==
  ASSUME NEW D, NEW cats \in [D -> Items], NEW e
  PROVE  Without(cats, e) \in [D -> Items]
<1>1. CASE e.orphan
  BY <1>1 DEF Without
<1>2. CASE ~ e.orphan
  <2>. DEFINE c == Tag[Key(e.vector)]
              r == RemoveTask(cats[c], Key(e.vector))
  <2>1. c \in D => r \in Items
    BY RemoveTaskTypes
  <2>2. Without(cats, e) = [cats EXCEPT ![c] = r]
    BY <1>2 DEF Without
  <2>. HIDE DEF c, r
  <2>. QED
    BY <2>1, <2>2
<1>. QED
  BY <1>1, <1>2

(* Tasks that leave one after the other: f[i] are the categories after i.  *)
Leaving(list, D, cats, n, f) ==
  /\ f \in [0 .. n -> [D -> Items]]
  /\ f[0] = cats /\ \A i \in 1 .. n : f[i] = Without(f[i - 1], list[i])
  /\ RemoveTailTasks(list, cats, n) = [list |-> SubSeq(list, n + 1, Len(list)), cats |-> f[n]]

LEMMA TailTasks ==
  ASSUME NEW list \in Seq(Entries), NEW D, NEW cats \in [D -> Items],
         NEW n \in 0 .. Len(list)
  PROVE  \E f : Leaving(list, D, cats, n, f)
<1>. DEFINE S == [D -> Items]
            Solves(f) == f = [i \in 0 .. n |-> IF i = 0 THEN cats ELSE Without(f[i - 1], list[i])]
            left == CHOOSE f : Solves(f)
            g == [r \in S \X (1 .. n) |-> Without(r[1], list[r[2]])]
<1>1. n \in Nat
  OBVIOUS
<1>2. RemoveTailTasks(list, cats, n) = [list |-> SubSeq(list, n + 1, Len(list)), cats |-> left[n]]
  BY Zenon DEF RemoveTailTasks
<1>3. \A x \in S, i \in 1 .. n : Without(x, list[i]) \in S
  BY WithoutTypes
<1>. HIDE DEF S
<1>4. IsStep(g, S, n)
  BY <1>3 DEF IsStep
<1>5. \A x \in S, i \in 1 .. n : g[<<x, i>>] = Without(x, list[i])
  OBVIOUS
<1>6. cats \in S
  BY DEF S
<1>. HIDE DEF g
<1>7. PICK f : Iterates(f, g, cats, S, n)
  BY <1>1, <1>4, <1>6, Iteration, Zenon
<1>8. f \in [0 .. n -> S] /\ f[0] = cats /\ \A i \in 1 .. n : f[i] = g[<<f[i - 1], i>>]
  BY <1>7 DEF Iterates
<1>9. ASSUME NEW i \in 1 .. n PROVE f[i] = Without(f[i - 1], list[i])
  <2>1. f[i - 1] \in S
    BY <1>1, <1>8
  <2>. QED
    BY <1>5, <1>8, <2>1
<1>10. Solves(f)
  <2>1. ASSUME NEW i \in 0 .. n PROVE f[i] = IF i = 0 THEN cats ELSE Without(f[i - 1], list[i])
    <3>1. i = 0 \/ i \in 1 .. n
      BY <1>1
    <3>. QED
      BY <1>8, <1>9, <3>1
  <2>. QED
    BY <1>8, <2>1
<1>11. Solves(left)
  <2>. HIDE DEF Solves
  <2>. QED
    BY <1>10, Zenon
<1>. HIDE DEF left
<1>12. left[0] = cats /\ \A i \in 1 .. n : left[i] = Without(left[i - 1], list[i])
  <2>1. left = [i \in 0 .. n |-> IF i = 0 THEN cats ELSE Without(left[i - 1], list[i])]
    BY <1>11
  <2>. HIDE DEF Solves
  <2>. DEFINE h == left
  <2>2. h = [i \in 0 .. n |-> IF i = 0 THEN cats ELSE Without(h[i - 1], list[i])]
    BY <2>1
  <2>. HIDE DEF h
  <2>3. h[0] = cats /\ \A i \in 1 .. n : h[i] = Without(h[i - 1], list[i])
    BY <1>1, <2>2
  <2>. QED
    BY <2>3 DEF h
<1>. DEFINE T == {i \in 0 .. n : left[i] = f[i]}
<1>13. 0 .. n \subseteq T
  <2>1. 0 \in T
    BY <1>1, <1>8, <1>12
  <2>2. ASSUME NEW i \in 0 .. n - 1, i \in T PROVE i + 1 \in T
    <3>1. i + 1 \in 1 .. n /\ (i + 1) - 1 = i /\ i + 1 \in 0 .. n
      BY <1>1
    <3>. QED
      BY <1>9, <1>12, <2>2, <3>1
  <2>. HIDE DEF T
  <2>. QED
    BY <1>1, <2>1, <2>2, InductionUpTo
<1>14. left[n] = f[n]
  BY <1>1, <1>13
<1>. QED
  BY <1>2, <1>8, <1>9, <1>14 DEF S, Leaving

LEMMA TailTasksKeep ==
  ASSUME NEW list \in Seq(Entries), NEW D, NEW cats \in [D -> Items],
         NEW n \in 0 .. Len(list)
  PROVE  LET end == RemoveTailTasks(list, cats, n) IN
         /\ end.list \in Seq(Entries) /\ Len(end.list) = Len(list) - n
         /\ \A i \in 1 .. Len(list) - n : end.list[i] = list[n + i]
         /\ end.cats \in [D -> Items]
         /\ \A c : Agrees(list, cats, c) => Agrees(end.list, end.cats, c)
<1>. DEFINE m == Len(list)
            Rest(i) == SubSeq(list, i + 1, m)
<1>1. n \in Nat /\ m \in Nat /\ n <= m
  OBVIOUS
<1>0. PICK f : Leaving(list, D, cats, n, f)
  BY TailTasks
<1>2. /\ f \in [0 .. n -> [D -> Items]]
      /\ f[0] = cats /\ \A i \in 1 .. n : f[i] = Without(f[i - 1], list[i])
      /\ RemoveTailTasks(list, cats, n) = [list |-> SubSeq(list, n + 1, m), cats |-> f[n]]
  BY <1>0, Zenon DEF Leaving
<1>3. ASSUME NEW i \in 0 .. m
      PROVE  /\ Rest(i) \in Seq(Entries) /\ Len(Rest(i)) = m - i
             /\ \A j \in 1 .. m - i : Rest(i)[j] = list[i + j]
  <2>. HIDE DEF m
  <2>1. Rest(i) \in Seq(Entries)
    BY <1>1 DEF m
  <2>2. Len(Rest(i)) = m - i
    BY <1>1 DEF m
  <2>3. ASSUME NEW j \in 1 .. m - i PROVE Rest(i)[j] = list[i + j]
    <3>1. j \in 1 .. (m - (i + 1)) + 1 /\ (i + 1) + j - 1 = i + j
      BY <1>1
    <3>. QED
      BY <1>1, <3>1 DEF m
  <2>. QED
    BY <2>1, <2>2, <2>3
<1>4. ASSUME NEW c, Agrees(list, cats, c) PROVE Agrees(Rest(n), f[n], c)
  <2>. DEFINE T == {i \in 0 .. n : Agrees(Rest(i), f[i], c)}
  <2>1. 0 \in T
    <3>1. Rest(0) = list
      OBVIOUS
    <3>. HIDE DEF Rest
    <3>. QED
      BY <1>1, <1>2, <1>4, <3>1
  <2>2. ASSUME NEW i \in 0 .. n - 1, i \in T PROVE i + 1 \in T
    <3>. DEFINE l == Rest(i)
    <3>1. i \in 0 .. m /\ i + 1 \in 0 .. n /\ i + 1 \in 1 .. n /\ i + 1 \in 0 .. m /\ (i + 1) - 1 = i
          /\ 1 \in 1 .. m - i
      BY <1>1
    <3>. HIDE DEF m, Rest
    <3>2. l \in Seq(Entries) /\ Len(l) = m - i /\ l # <<>> /\ l[1] = list[i + 1]
      <4>1. l \in Seq(Entries) /\ Len(l) = m - i /\ l[1] = list[i + 1]
        BY <1>3, <3>1
      <4>. HIDE DEF l
      <4>2. l # <<>>
        BY <3>1, <4>1
      <4>. QED
        BY <4>1, <4>2
    <3>3. Tail(l) = Rest(i + 1)
      <4>. DEFINE r == Rest(i + 1)  t == Tail(l)
      <4>1. r \in Seq(Entries) /\ Len(r) = m - (i + 1) /\ \A j \in 1 .. m - (i + 1) : r[j] = list[(i + 1) + j]
        BY <1>3, <3>1
      <4>2. t \in Seq(Entries) /\ Len(t) = m - (i + 1) /\ \A j \in 1 .. m - (i + 1) : t[j] = l[j + 1]
        <5>. HIDE DEF l
        <5>. QED
          BY <1>1, <3>1, <3>2
      <4>3. ASSUME NEW j \in 1 .. m - (i + 1) PROVE t[j] = r[j]
        <5>1. j + 1 \in 1 .. m - i /\ i + (j + 1) = (i + 1) + j
          BY <1>1, <3>1
        <5>2. l[j + 1] = list[i + (j + 1)]
          BY <1>3, <3>1, <5>1
        <5>. QED
          BY <4>1, <4>2, <5>1, <5>2
      <4>. HIDE DEF r, t
      <4>. QED
        BY <4>1, <4>2, <4>3 DEF r, t
    <3>4. Agrees(l, f[i], c)
      BY <2>2
    <3>. HIDE DEF l
    <3>5. Agrees(Tail(l), Without(f[i], l[1]), c)
      BY <3>2, <3>4, LeaveAgrees
    <3>6. f[i + 1] = Without(f[i], l[1])
      BY <1>2, <3>1, <3>2
    <3>. QED
      BY <3>1, <3>3, <3>5, <3>6
  <2>3. 0 .. n \subseteq T
    <3>. HIDE DEF T
    <3>. QED
      BY <1>1, <2>1, <2>2, InductionUpTo
  <2>4. n \in T
    <3>. HIDE DEF T
    <3>. QED
      BY <1>1, <2>3
  <2>. QED
    BY <2>4
<1>5. n \in 0 .. m /\ n \in 0 .. n
  BY <1>1
<1>. DEFINE end == RemoveTailTasks(list, cats, n)
<1>6. end.list = Rest(n) /\ end.cats = f[n]
  BY <1>2
<1>. HIDE DEF end, Rest, m
<1>7. /\ end.list \in Seq(Entries) /\ Len(end.list) = m - n
      /\ \A i \in 1 .. m - n : end.list[i] = list[n + i]
  BY <1>3, <1>5, <1>6
<1>8. end.cats \in [D -> Items]
  BY <1>2, <1>5, <1>6
<1>9. \A c : Agrees(list, cats, c) => Agrees(end.list, end.cats, c)
  BY <1>4, <1>6
<1>. QED
  BY <1>7, <1>8, <1>9 DEF end, m

-----------------------------------------------------------------------------
(* The inductive invariant.                                                *)
TypesInv ==
  /\ clock \in 0 .. ClockModulus - 1
  /\ MaximumTaskAmount \in Nat /\ HistoryTimeWindowSize \in 0 .. ClockModulus - 1
  /\ TaskList \in Seq(Entries)
  /\ TaskCategories \in [DOMAIN TaskCategories -> Items]
  /\ resent \subseteq Tasks

(* Categories that no repeated request has spoiled.                        *)
Sound == Categories \ {Tag[t] : t \in resent}
AgreeInv == \A c \in Sound : Agrees(TaskList, TaskCategories, c)

(* Who is nearer the tail is not younger, also across the wrap.            *)
AgeInv == \A i, j \in 1 .. Len(TaskList) : i < j => Age(TaskList[i]) >= Age(TaskList[j])

Inv == TypesInv /\ AgreeInv /\ AgeInv

LEMMA Modulo ==
  ASSUME NEW x \in 0 .. ClockModulus - 1, NEW y \in 0 .. ClockModulus - 1
  PROVE  /\ (x - y) % ClockModulus = IF y <= x THEN x - y ELSE ClockModulus + x - y
         /\ (x + 1) % ClockModulus = IF x = ClockModulus - 1 THEN 0 ELSE x + 1
<1>1. ClockModulus \in Nat \ {0}
  BY TaskWindowAssumption
<1>2. CASE y <= x
  BY <1>1, <1>2
<1>3. CASE ~ (y <= x)
  BY <1>1, <1>3
<1>4. CASE x = ClockModulus - 1
  BY <1>1, <1>4
<1>5. CASE x # ClockModulus - 1
  BY <1>1, <1>5
<1>. QED
  BY <1>2, <1>3, <1>4, <1>5

LEMMA TaskAges ==
  ASSUME clock \in 0 .. ClockModulus - 1, NEW e \in Entries
  PROVE  /\ e.at \in 0 .. ClockModulus - 1 /\ ClockModulus \in Nat
         /\ Age(e) = IF e.at <= clock THEN clock - e.at ELSE ClockModulus + clock - e.at
         /\ Age(e) \in 0 .. ClockModulus - 1
<1>1. e.at \in 0 .. ClockModulus - 1 /\ ClockModulus \in Nat \ {0}
  BY TaskWindowAssumption DEF Entries
<1>2. Age(e) = IF e.at <= clock THEN clock - e.at ELSE ClockModulus + clock - e.at
  BY <1>1, Modulo DEF Age
<1>. QED
  BY <1>1, <1>2

LEMMA NothingAgrees ==
  ASSUME NEW cats, DOMAIN cats = {}, NEW c
  PROVE  Agrees(<<>>, cats, c)
<1>1. CategoryOf(cats, c) = NewCategory
  BY DEF CategoryOf
<1>2. DOMAIN <<>> = {} /\ Len(<<>>) = 0 /\ <<>> \in Seq(Filled)
  OBVIOUS
<1>3. ListedIn(<<>>, c) = {} /\ VectorsIn(<<>>, c) = {}
  BY <1>2 DEF ListedIn, VectorsIn
<1>4. Tidy(<<>>, OrderOf(<<>>)) /\ Held(<<>>) = {}
  BY <1>2 DEF Tidy, Held, TasksInRow
<1>5. NewCategory.matrices = <<>> /\ NewCategory.TaskCount = 0
  BY DEF NewCategory
<1>6. Cardinality({}) = 0
  BY FS_EmptySet
<1>. QED
  BY <1>1, <1>3, <1>4, <1>5, <1>6 DEF Agrees

LEMMA NewCategoryTypes == NewCategory \in Items
<1>. DEFINE T == [i \in 0 .. 0 |-> 0]
<1>1. Totals(<<>>, T) /\ T[Len(<<>>)] = 0
  BY DEF Totals
<1>2. Amounting(<<>>, 0)
  <2>. HIDE DEF T
  <2>. QED
    BY <1>1 DEF Amounting
<1>. QED
  BY <1>2 DEF NewCategory, Items

LEMMA InitKeeps ==
  ASSUME WindowInit
  PROVE  Inv
<1>1. /\ clock = 0 /\ MaximumTaskAmount = 0 /\ HistoryTimeWindowSize = 0
      /\ TaskList = <<>> /\ TaskCategories = [c \in {} |-> NewCategory] /\ resent = {}
  BY DEF WindowInit
<1>2. TypesInv
  BY <1>1, TaskWindowAssumption DEF TypesInv
<1>3. AgreeInv
  BY <1>1, NothingAgrees DEF AgreeInv
<1>4. AgeInv
  BY <1>1 DEF AgeInv
<1>. QED
  BY <1>2, <1>3, <1>4 DEF Inv

LEMMA ArrivalKeeps ==
  ASSUME Inv, NEW t \in Tasks, NEW n \in 0 .. MaxResends, EnqueueArrivalTime(t, n)
  PROVE  Inv' /\ DOMAIN TaskCategories' = DOMAIN TaskCategories \cup {Tag[t]}
<1>. DEFINE v == <<t, n>>
            d == Tag[t]
            e == [vector |-> v, at |-> clock, orphan |-> FALSE]
            item == ReserveForResponse(CategoryOf(TaskCategories, d), v)
            cats == WithCategory(TaskCategories, d, item)
            list == Append(TaskList, e)
            excess == IF TaskList # <<>> /\ MaximumTaskAmount > 0 /\ Len(list) > MaximumTaskAmount
                      THEN Len(list) - MaximumTaskAmount ELSE 0
            end == RemoveTailTasks(list, cats, excess)
            D == DOMAIN TaskCategories \cup {d}
            m == Len(TaskList)
<1>1. /\ resent' = IF t \in KeysListed THEN resent \cup {t} ELSE resent
      /\ TaskList' = end.list /\ TaskCategories' = end.cats
      /\ UNCHANGED <<clock, MaximumTaskAmount, HistoryTimeWindowSize>>
  BY Zenon DEF EnqueueArrivalTime
<1>2. /\ TypesInv /\ AgreeInv /\ AgeInv
      /\ clock \in 0 .. ClockModulus - 1
      /\ MaximumTaskAmount \in Nat
      /\ TaskList \in Seq(Entries) /\ m \in Nat
      /\ TaskCategories \in [DOMAIN TaskCategories -> Items]
      /\ resent \subseteq Tasks
  BY DEF Inv, TypesInv
<1>3. v \in TaskVectors /\ e \in Entries /\ ~ e.orphan /\ e.vector = v /\ Key(v) = t /\ e.at = clock
  BY <1>2 DEF TaskVectors, Entries, Key
<1>4. cats \in [D -> Items]
  <2>1. CategoryOf(TaskCategories, d) \in Items
    BY <1>2, NewCategoryTypes DEF CategoryOf
  <2>2. item \in Items
    BY <1>3, <2>1, ReserveTypes
  <2>. HIDE DEF item
  <2>. QED
    BY <1>2, <2>2 DEF WithCategory
<1>5. /\ list \in Seq(Entries) /\ Len(list) = m + 1 /\ list[m + 1] = e
      /\ \A i \in 1 .. m : list[i] = TaskList[i]
  <2>. HIDE DEF e
  <2>. QED
    BY <1>2, <1>3
<1>6. excess \in 0 .. Len(list)
  <2>. HIDE DEF list
  <2>. QED
    BY <1>2, <1>5
<1>. HIDE DEF v, e, list, excess, cats
<1>7. /\ end.list \in Seq(Entries) /\ Len(end.list) = Len(list) - excess
      /\ \A i \in 1 .. Len(list) - excess : end.list[i] = list[excess + i]
      /\ end.cats \in [D -> Items]
      /\ \A c : Agrees(list, cats, c) => Agrees(end.list, end.cats, c)
  BY <1>4, <1>5, <1>6, TailTasksKeep
<1>. HIDE DEF end
<1>8. TypesInv'
  <2>1. TaskCategories' \in [DOMAIN TaskCategories' -> Items]
    BY <1>1, <1>7
  <2>2. HistoryTimeWindowSize \in 0 .. ClockModulus - 1
    BY <1>2 DEF TypesInv
  <2>3. resent' \subseteq Tasks
    BY <1>1, <1>2
  <2>. QED
    BY <1>1, <1>2, <1>7, <2>1, <2>2, <2>3 DEF TypesInv
<1>9. AgreeInv'
  <2>. SUFFICES ASSUME NEW c \in Categories, c \notin {Tag[k] : k \in resent'}
                PROVE  Agrees(end.list, end.cats, c)
    BY <1>1 DEF AgreeInv, Sound
  <2>1. Agrees(TaskList, TaskCategories, c)
    <3>1. resent \subseteq resent'
      BY <1>1
    <3>. QED
      BY <1>2, <3>1 DEF AgreeInv, Sound
  <2>2. \A i \in ListedIn(TaskList, c) : Key(TaskList[i].vector) # Key(e.vector)
    <3>. SUFFICES ASSUME NEW i \in ListedIn(TaskList, c), Key(TaskList[i].vector) = t PROVE FALSE
      BY <1>3
    <3>1. i \in DOMAIN TaskList /\ Tag[t] = c
      BY DEF ListedIn
    <3>2. t \in KeysListed
      BY <3>1 DEF KeysListed
    <3>. QED
      BY <1>1, <3>1, <3>2
  <2>3. Agrees(Append(TaskList, e),
               WithCategory(TaskCategories, Tag[Key(e.vector)],
                            ReserveForResponse(CategoryOf(TaskCategories, Tag[Key(e.vector)]), e.vector)), c)
    BY <1>2, <1>3, <2>1, <2>2, ArriveAgrees
  <2>4. Agrees(list, cats, c)
    BY <1>3, <2>3 DEF list, cats
  <2>. QED
    BY <1>7, <2>4
<1>10. AgeInv'
  <2>1. \A i \in 1 .. m : TaskList[i] \in Entries
    BY <1>2
  <2>2. ASSUME NEW i \in 1 .. m + 1, NEW j \in 1 .. m + 1, i < j PROVE Age(list[i]) >= Age(list[j])
    <3>1. CASE j \in 1 .. m
      <4>1. i \in 1 .. m
        BY <1>2, <2>2, <3>1
      <4>. QED
        BY <1>2, <1>5, <2>2, <3>1, <4>1 DEF AgeInv
    <3>2. CASE j = m + 1
      <4>1. i \in 1 .. m
        BY <1>2, <2>2, <3>2
      <4>2. Age(list[j]) = 0 /\ Age(list[i]) \in Nat
        BY <1>2, <1>3, <1>5, <2>1, <3>2, <4>1, TaskAges
      <4>. QED
        BY <4>2
    <3>. QED
      BY <1>2, <3>1, <3>2
  <2>3. \A x : Age(x)' = Age(x)
    BY <1>1 DEF Age
  <2>4. ASSUME NEW i \in 1 .. Len(end.list), NEW j \in 1 .. Len(end.list), i < j
        PROVE  Age(end.list[i]) >= Age(end.list[j])
    <3>. DEFINE a == excess + i  b == excess + j
    <3>1. a \in 1 .. m + 1 /\ b \in 1 .. m + 1 /\ a < b
      BY <1>2, <1>5, <1>6, <1>7, <2>4
    <3>2. end.list[i] = list[a] /\ end.list[j] = list[b]
      BY <1>7
    <3>. HIDE DEF a, b
    <3>. QED
      BY <2>2, <3>1, <3>2
  <2>. QED
    BY <1>1, <2>3, <2>4 DEF AgeInv
<1>11. DOMAIN TaskCategories' = D
  BY <1>1, <1>7
<1>. QED
  BY <1>8, <1>9, <1>10, <1>11 DEF Inv

LEMMA ResponseKeeps ==
  ASSUME Inv, NEW t \in Tasks, EnqueueResponse(t)
  PROVE  Inv'
<1>. DEFINE d == Tag[t]
            item == CategoryOf(TaskCategories, d)
            cats == WithCategory(TaskCategories, d, item)
<1>1. /\ TaskCategories' = cats
      /\ UNCHANGED <<clock, MaximumTaskAmount, HistoryTimeWindowSize, TaskList, resent>>
  BY DEF EnqueueResponse
<1>2. TypesInv /\ AgreeInv /\ AgeInv
  BY DEF Inv
<1>3. TypesInv'
  <2>1. item \in Items
    BY <1>2, NewCategoryTypes DEF TypesInv, CategoryOf
  <2>2. cats \in [DOMAIN TaskCategories \cup {d} -> Items]
    BY <1>2, <2>1 DEF TypesInv, WithCategory
  <2>. HIDE DEF cats
  <2>. QED
    BY <1>1, <1>2, <2>2 DEF TypesInv
<1>4. AgreeInv'
  <2>. SUFFICES ASSUME NEW c \in Sound PROVE Agrees(TaskList, cats, c)
    BY <1>1 DEF AgreeInv, Sound
  <2>1. CategoryOf(cats, c) = CategoryOf(TaskCategories, c) /\ DOMAIN TaskCategories \subseteq DOMAIN cats
    BY DEF CategoryOf, WithCategory
  <2>2. Agrees(TaskList, TaskCategories, c)
    BY <1>2 DEF AgreeInv
  <2>. HIDE DEF cats
  <2>. QED
    BY <2>1, <2>2 DEF Agrees
<1>5. AgeInv'
  BY <1>1, <1>2 DEF AgeInv, Age
<1>. QED
  BY <1>3, <1>4, <1>5 DEF Inv

LEMMA TickKeeps ==
  ASSUME Inv, Tick
  PROVE  Inv'
<1>1. /\ \A i \in DOMAIN TaskList : Age(TaskList[i]) < ClockModulus - 1
      /\ clock' = (clock + 1) % ClockModulus
      /\ UNCHANGED <<MaximumTaskAmount, HistoryTimeWindowSize, TaskList, TaskCategories, resent>>
  BY DEF Tick
<1>2. TypesInv /\ AgreeInv /\ AgeInv /\ clock \in 0 .. ClockModulus - 1 /\ TaskList \in Seq(Entries)
  BY DEF Inv, TypesInv
<1>3. ClockModulus \in Nat \ {0}
  BY TaskWindowAssumption
<1>4. clock' \in 0 .. ClockModulus - 1 /\ clock' = IF clock = ClockModulus - 1 THEN 0 ELSE clock + 1
  BY <1>1, <1>2, <1>3, Modulo
<1>5. TypesInv'
  BY <1>1, <1>2, <1>4 DEF TypesInv
<1>6. AgreeInv'
  BY <1>1, <1>2 DEF AgreeInv, Sound
<1>7. ASSUME NEW i \in 1 .. Len(TaskList) PROVE Age(TaskList[i])' = Age(TaskList[i]) + 1
  <2>. DEFINE e == TaskList[i]
  <2>1. e \in Entries /\ Age(e) < ClockModulus - 1
    BY <1>1, <1>2
  <2>2. /\ e.at \in 0 .. ClockModulus - 1
        /\ Age(e) = IF e.at <= clock THEN clock - e.at ELSE ClockModulus + clock - e.at
    BY <1>2, <2>1, TaskAges
  <2>3. Age(e)' = (clock' - e.at) % ClockModulus
    BY <1>1 DEF Age
  <2>4. Age(e)' = IF e.at <= clock' THEN clock' - e.at ELSE ClockModulus + clock' - e.at
    BY <1>4, <2>2, <2>3, Modulo
  <2>5. e' = e
    BY <1>1
  <2>. HIDE DEF e
  <2>6. Age(e)' = Age(e) + 1
    BY <1>2, <1>3, <1>4, <2>1, <2>2, <2>4
  <2>. QED
    BY <2>6 DEF e
<1>8. AgeInv'
  <2>. SUFFICES ASSUME NEW i \in 1 .. Len(TaskList), NEW j \in 1 .. Len(TaskList), i < j
                PROVE  Age(TaskList[i])' >= Age(TaskList[j])'
    BY <1>1 DEF AgeInv
  <2>1. Age(TaskList[i]) >= Age(TaskList[j])
    BY <1>2 DEF AgeInv
  <2>2. Age(TaskList[i]) \in Nat /\ Age(TaskList[j]) \in Nat
    BY <1>2, TaskAges
  <2>. QED
    BY <1>7, <2>1, <2>2
<1>. QED
  BY <1>5, <1>6, <1>8 DEF Inv

LEMMA AmountKeeps ==
  ASSUME Inv, NEW a \in Amounts, SetMaximumTaskAmount(a)
  PROVE  Inv'
BY TaskWindowAssumption DEF Inv, TypesInv, AgreeInv, AgeInv, Sound, Age, SetMaximumTaskAmount

LEMMA WindowKeeps ==
  ASSUME Inv, NEW w \in Windows, SetTaskHistoryTimeWindowSize(w)
  PROVE  Inv'
BY TaskWindowAssumption DEF Inv, TypesInv, AgreeInv, AgeInv, Sound, Age, SetTaskHistoryTimeWindowSize

LEMMA ClearKeeps ==
  ASSUME Inv, Clear
  PROVE  Inv'
<1>1. /\ TaskCategories' = [c \in {} |-> NewCategory] /\ TaskList' = <<>> /\ resent' = {}
      /\ UNCHANGED <<clock, MaximumTaskAmount, HistoryTimeWindowSize>>
  BY DEF Clear
<1>2. TypesInv
  BY DEF Inv
<1>3. TypesInv'
  BY <1>1, <1>2 DEF TypesInv
<1>4. AgreeInv'
  <2>. SUFFICES ASSUME NEW c PROVE Agrees(<<>>, TaskCategories', c)
    BY <1>1 DEF AgreeInv
  <2>. DEFINE cats == [x \in {} |-> NewCategory]
  <2>1. DOMAIN cats = {}
    OBVIOUS
  <2>. HIDE DEF cats
  <2>2. Agrees(<<>>, cats, c)
    BY <2>1, NothingAgrees
  <2>3. TaskCategories' = cats
    BY <1>1 DEF cats
  <2>. QED
    BY <2>2, <2>3
<1>5. AgeInv'
  BY <1>1 DEF AgeInv
<1>. QED
  BY <1>3, <1>4, <1>5 DEF Inv

(* What the daemon finds expired: n tasks at the tail.                     *)
DaemonTakes(n) ==
  /\ n \in 0 .. Len(TaskList)
  /\ \A i \in 1 .. n : Expired(TaskList[i].at)
  /\ n < Len(TaskList) => ~ Expired(TaskList[n + 1].at)

DaemonRemoves(n) ==
  LET end == RemoveTailTasks(TaskList, TaskCategories, n)
      empty == {c \in DOMAIN end.cats : end.cats[c].TaskCount <= 0}
  IN
  /\ UNCHANGED <<clock, MaximumTaskAmount, HistoryTimeWindowSize, resent>>
  /\ TaskCategories' = [c \in DOMAIN end.cats \ empty |-> end.cats[c]]
  /\ TaskList' = [i \in DOMAIN end.list |->
                    IF Tag[Key(end.list[i].vector)] \in empty
                    THEN [end.list[i] EXCEPT !.orphan = TRUE] ELSE end.list[i]]

LEMMA DaemonStep ==
  ASSUME TaskList \in Seq(Entries), TaskDaemon
  PROVE  \E n : DaemonTakes(n) /\ DaemonRemoves(n)
<1>. DEFINE m == Len(TaskList)
            P(n) == /\ \A i \in 1 .. n : Expired(TaskList[i].at)
                    /\ n < m => ~ Expired(TaskList[n + 1].at)
            K == {n \in 0 .. m : n < m => ~ Expired(TaskList[n + 1].at)}
            count == CHOOSE n \in 0 .. m : P(n)
<1>1. m \in Nat
  OBVIOUS
<1>. HIDE DEF m
<1>2. K \subseteq Nat /\ m \in K
  BY <1>1
<1>3. PICK n \in K : \A k \in K : n <= k
  <2>. HIDE DEF K
  <2>. QED
    BY <1>2, SmallestMember
<1>4. P(n)
  <2>1. ASSUME NEW i \in 1 .. n, ~ Expired(TaskList[i].at) PROVE FALSE
    <3>1. i - 1 \in 0 .. m /\ (i - 1) + 1 = i /\ i - 1 < n
      BY <1>1
    <3>2. i - 1 \in K
      BY <2>1, <3>1
    <3>. QED
      BY <1>1, <1>3, <3>1, <3>2
  <2>. QED
    BY <2>1
<1>5. count \in 0 .. m /\ P(count)
  <2>1. n \in 0 .. m
    OBVIOUS
  <2>. HIDE DEF P
  <2>. QED
    BY <1>4, <2>1
<1>6. DaemonRemoves(count)
  BY Zenon DEF TaskDaemon, DaemonRemoves, m
<1>7. DaemonTakes(count)
  <2>. HIDE DEF count
  <2>. QED
    BY <1>5 DEF DaemonTakes, m
<1>. QED
  BY <1>6, <1>7

(* Orphans are only marked in the list.                                    *)
LEMMA Relisted ==
  ASSUME NEW list \in Seq(Entries), NEW new \in Seq(Entries), Len(new) = Len(list),
         \A i \in 1 .. Len(list) : new[i].vector = list[i].vector, NEW c
  PROVE  /\ OrderOf(new) = OrderOf(list) /\ ListedIn(new, c) = ListedIn(list, c)
         /\ VectorsIn(new, c) = VectorsIn(list, c)
<1>1. DOMAIN list = 1 .. Len(list) /\ DOMAIN new = 1 .. Len(list)
  OBVIOUS
<1>2. ListedIn(new, c) = ListedIn(list, c)
  BY <1>1 DEF ListedIn
<1>3. VectorsIn(new, c) = VectorsIn(list, c)
  <2>1. \A i \in ListedIn(list, c) : new[i].vector = list[i].vector
    BY <1>1 DEF ListedIn
  <2>. QED
    BY <1>2, <2>1 DEF VectorsIn
<1>4. OrderOf(new) = OrderOf(list)
  BY <1>1 DEF OrderOf
<1>. QED
  BY <1>2, <1>3, <1>4

LEMMA DaemonKeeps ==
  ASSUME Inv, TaskDaemon
  PROVE  Inv' /\ DOMAIN TaskCategories' \subseteq DOMAIN TaskCategories
<1>1. /\ TypesInv /\ AgreeInv /\ AgeInv
      /\ TaskList \in Seq(Entries) /\ TaskCategories \in [DOMAIN TaskCategories -> Items]
  BY DEF Inv, TypesInv
<1>2. PICK n : DaemonTakes(n) /\ DaemonRemoves(n)
  BY <1>1, DaemonStep
<1>. DEFINE end == RemoveTailTasks(TaskList, TaskCategories, n)
            empty == {c \in DOMAIN end.cats : end.cats[c].TaskCount <= 0}
            m == Len(TaskList) - n
<1>3. /\ UNCHANGED <<clock, MaximumTaskAmount, HistoryTimeWindowSize, resent>>
      /\ TaskCategories' = [c \in DOMAIN end.cats \ empty |-> end.cats[c]]
      /\ TaskList' = [i \in DOMAIN end.list |->
                        IF Tag[Key(end.list[i].vector)] \in empty
                        THEN [end.list[i] EXCEPT !.orphan = TRUE] ELSE end.list[i]]
  BY <1>2, Zenon DEF DaemonRemoves
<1>4. n \in 0 .. Len(TaskList) /\ m \in Nat /\ n \in Nat /\ m + n = Len(TaskList)
  BY <1>1, <1>2 DEF DaemonTakes
<1>5. /\ end.list \in Seq(Entries) /\ Len(end.list) = m
      /\ \A i \in 1 .. m : end.list[i] = TaskList[n + i]
      /\ end.cats \in [DOMAIN TaskCategories -> Items]
      /\ \A c : Agrees(TaskList, TaskCategories, c) => Agrees(end.list, end.cats, c)
  BY <1>1, <1>4, TailTasksKeep
<1>. DEFINE list == end.list  cats == end.cats  new == TaskList'  left == TaskCategories'
<1>6. /\ list \in Seq(Entries) /\ Len(list) = m /\ DOMAIN list = 1 .. m
      /\ \A i \in 1 .. m : list[i] \in Entries
  BY <1>5
<1>. HIDE DEF end, m, empty
<1>7. /\ new \in Seq(Entries) /\ Len(new) = m
      /\ \A i \in 1 .. m :
           /\ new[i].vector = list[i].vector /\ new[i].at = list[i].at
           /\ Tag[Key(list[i].vector)] \notin empty => new[i] = list[i]
  <2>1. \A i \in 1 .. m :
          /\ [list[i] EXCEPT !.orphan = TRUE] \in Entries
          /\ [list[i] EXCEPT !.orphan = TRUE].vector = list[i].vector
          /\ [list[i] EXCEPT !.orphan = TRUE].at = list[i].at
    BY <1>6 DEF Entries
  <2>2. new = [i \in 1 .. m |-> IF Tag[Key(list[i].vector)] \in empty
                               THEN [list[i] EXCEPT !.orphan = TRUE] ELSE list[i]]
    BY <1>3, <1>6
  <2>. HIDE DEF new, list
  <2>3. new \in [1 .. m -> Entries]
    BY <1>6, <2>1, <2>2
  <2>4. new \in Seq(Entries) /\ Len(new) = m
    BY <1>4, <2>3
  <2>. QED
    BY <2>1, <2>2, <2>4
<1>8. left \in [DOMAIN left -> Items]
  <2>1. \A c \in DOMAIN cats : cats[c] \in Items
    BY <1>5
  <2>. QED
    BY <1>3, <2>1
<1>9. TypesInv'
  BY <1>1, <1>3, <1>7, <1>8 DEF TypesInv
<1>10. AgreeInv'
  <2>. SUFFICES ASSUME NEW c \in Sound PROVE Agrees(new, left, c)
    BY <1>3 DEF AgreeInv, Sound
  <2>. DEFINE item == CategoryOf(cats, c)
              after == CategoryOf(left, c)
  <2>1. Agrees(list, cats, c)
    BY <1>1, <1>5 DEF AgreeInv
  <2>2. /\ Tidy(item.matrices, OrderOf(list)) /\ Held(item.matrices) = VectorsIn(list, c)
        /\ item.TaskCount = Cardinality(ListedIn(list, c))
        /\ \A i, j \in ListedIn(list, c) : Key(list[i].vector) = Key(list[j].vector) => i = j
        /\ \A i \in ListedIn(list, c) : c \in DOMAIN cats /\ ~ list[i].orphan
    BY <2>1 DEF Agrees
  <2>3. OrderOf(new) = OrderOf(list) /\ ListedIn(new, c) = ListedIn(list, c) /\ VectorsIn(new, c) = VectorsIn(list, c)
    <3>. HIDE DEF new, list
    <3>. QED
      BY <1>6, <1>7, Relisted
  <2>4. IsFiniteSet(ListedIn(list, c)) /\ ListedIn(list, c) \subseteq 1 .. m
    <3>. HIDE DEF list
    <3>. QED
      BY <1>6, ListFacts
  <2>5. CASE c \in empty
    <3>1. c \in DOMAIN cats /\ item = cats[c] /\ item.TaskCount <= 0
      BY <2>5 DEF CategoryOf, empty
    <3>2. ListedIn(list, c) = {}
      <4>1. Cardinality(ListedIn(list, c)) \in Nat
        BY <2>4, FS_CardinalityType
      <4>2. Cardinality(ListedIn(list, c)) = 0
        BY <2>2, <3>1, <4>1
      <4>. QED
        BY <2>4, <4>2, FS_EmptySet
    <3>3. VectorsIn(list, c) = {}
      BY <3>2 DEF VectorsIn
    <3>4. after = NewCategory
      BY <1>3, <2>5 DEF CategoryOf
    <3>5. after.matrices = <<>> /\ after.TaskCount = 0
      BY <3>4 DEF NewCategory
    <3>. HIDE DEF after, item, new, list, left
    <3>6. Tidy(<<>>, OrderOf(new)) /\ Held(<<>>) = {}
      BY DEF Tidy, Held, TasksInRow
    <3>7. Cardinality({}) = 0
      BY FS_EmptySet
    <3>. QED
      BY <2>3, <3>2, <3>3, <3>5, <3>6, <3>7 DEF Agrees, after
  <2>6. CASE c \notin empty
    <3>1. after = item /\ (c \in DOMAIN cats => c \in DOMAIN left)
      BY <1>3, <2>6 DEF CategoryOf
    <3>2. \A i \in ListedIn(list, c) : new[i] = list[i]
      BY <1>7, <2>4, <2>6 DEF ListedIn
    <3>. HIDE DEF after, item, new, list, left, cats
    <3>. QED
      BY <2>2, <2>3, <3>1, <3>2 DEF Agrees, after
  <2>. QED
    BY <2>5, <2>6
<1>11. AgeInv'
  <2>. SUFFICES ASSUME NEW i \in 1 .. m, NEW j \in 1 .. m, i < j
                PROVE  Age(TaskList[i])' >= Age(TaskList[j])'
    BY <1>7 DEF AgeInv
  <2>. DEFINE a == n + i  b == n + j
  <2>1. a \in 1 .. Len(TaskList) /\ b \in 1 .. Len(TaskList) /\ a < b
    BY <1>4
  <2>2. new[i].at = TaskList[a].at /\ new[j].at = TaskList[b].at
    BY <1>5, <1>7
  <2>3. Age(TaskList[i])' = Age(TaskList[a]) /\ Age(TaskList[j])' = Age(TaskList[b])
    BY <1>3, <2>2 DEF Age
  <2>. HIDE DEF a, b
  <2>. QED
    BY <1>1, <2>1, <2>3 DEF AgeInv
<1>12. DOMAIN TaskCategories' \subseteq DOMAIN TaskCategories
  BY <1>3, <1>5
<1>. QED
  BY <1>9, <1>10, <1>11, <1>12 DEF Inv

-----------------------------------------------------------------------------
LEMMA NextKeeps ==
  ASSUME Inv, [WindowNext]_windowVars
  PROVE  Inv'
<1>1. CASE \E t \in Tasks, n \in 0 .. MaxResends : EnqueueArrivalTime(t, n)
  BY <1>1, ArrivalKeeps
<1>2. CASE \E t \in Tasks : EnqueueResponse(t)
  BY <1>2, ResponseKeeps
<1>3. CASE Tick
  BY <1>3, TickKeeps
<1>4. CASE TaskDaemon
  BY <1>4, DaemonKeeps
<1>5. CASE Clear
  BY <1>5, ClearKeeps
<1>6. CASE \E a \in Amounts : SetMaximumTaskAmount(a)
  BY <1>6, AmountKeeps
<1>7. CASE \E w \in Windows : SetTaskHistoryTimeWindowSize(w)
  BY <1>7, WindowKeeps
<1>8. CASE UNCHANGED windowVars
  BY <1>8 DEF windowVars, Inv, TypesInv, AgreeInv, AgeInv, Sound, Age
<1>. QED
  BY <1>1, <1>2, <1>3, <1>4, <1>5, <1>6, <1>7, <1>8 DEF WindowNext

(* The inductive invariant: types, the agreement of the list with every    *)
(* category that no repeated request has spoiled, and ages that do not     *)
(* grow towards the head of the list.                                      *)
THEOREM InvCorrect ==
  WindowSpec => []Inv
<1>1. WindowInit => Inv
  BY InitKeeps
<1>2. Inv /\ [WindowNext]_windowVars => Inv'
  BY NextKeeps
<1>. QED
  BY <1>1, <1>2, PTL DEF WindowSpec

(* The settings are among those there are, and so are the categories.      *)
SettledInv ==
  /\ MaximumTaskAmount \in Amounts \cup {0} /\ HistoryTimeWindowSize \in Windows \cup {0}
  /\ DOMAIN TaskCategories \subseteq Categories

LEMMA NextSettles ==
  ASSUME Inv, SettledInv, [WindowNext]_windowVars
  PROVE  SettledInv'
<1>0. \A t \in Tasks : Tag[t] \in Categories
  BY TaskWindowAssumption
<1>1. CASE \E t \in Tasks, n \in 0 .. MaxResends : EnqueueArrivalTime(t, n)
  <2>1. PICK t \in Tasks, n \in 0 .. MaxResends : EnqueueArrivalTime(t, n)
    BY <1>1
  <2>2. UNCHANGED <<MaximumTaskAmount, HistoryTimeWindowSize>>
    BY <2>1, Zenon DEF EnqueueArrivalTime
  <2>3. DOMAIN TaskCategories' = DOMAIN TaskCategories \cup {Tag[t]}
    BY <2>1, ArrivalKeeps
  <2>. QED
    BY <1>0, <2>2, <2>3 DEF SettledInv
<1>2. CASE \E t \in Tasks : EnqueueResponse(t)
  BY <1>0, <1>2 DEF EnqueueResponse, WithCategory, SettledInv
<1>3. CASE Tick
  BY <1>3 DEF Tick, SettledInv
<1>4. CASE TaskDaemon
  <2>1. UNCHANGED <<MaximumTaskAmount, HistoryTimeWindowSize>>
    BY <1>4, Zenon DEF TaskDaemon
  <2>2. DOMAIN TaskCategories' \subseteq DOMAIN TaskCategories
    BY <1>4, DaemonKeeps
  <2>. QED
    BY <2>1, <2>2 DEF SettledInv
<1>5. CASE Clear
  BY <1>5 DEF Clear, SettledInv
<1>6. CASE \E a \in Amounts : SetMaximumTaskAmount(a)
  BY <1>6 DEF SetMaximumTaskAmount, SettledInv
<1>7. CASE \E w \in Windows : SetTaskHistoryTimeWindowSize(w)
  BY <1>7 DEF SetTaskHistoryTimeWindowSize, SettledInv
<1>8. CASE UNCHANGED windowVars
  BY <1>8 DEF windowVars, SettledInv
<1>. QED
  BY <1>1, <1>2, <1>3, <1>4, <1>5, <1>6, <1>7, <1>8 DEF WindowNext

LEMMA WindowTypes ==
  ASSUME Inv, SettledInv
  PROVE  WindowTypeOK
<1>1. /\ clock \in 0 .. ClockModulus - 1 /\ TaskList \in Seq(Entries) /\ resent \subseteq Tasks
      /\ TaskCategories \in [DOMAIN TaskCategories -> Items]
  BY DEF Inv, TypesInv
<1>2. \A i \in DOMAIN TaskList : TaskList[i] \in [vector : TaskVectors, at : 0 .. ClockModulus - 1, orphan : BOOLEAN]
  <2>1. \A i \in DOMAIN TaskList : TaskList[i] \in Entries
    BY <1>1
  <2>. QED
    BY <2>1, Zenon DEF Entries
<1>3. ASSUME NEW c \in DOMAIN TaskCategories
      PROVE  /\ TaskCategories[c].TaskCount \in Nat
             /\ \A i \in DOMAIN TaskCategories[c].matrices :
                  /\ Len(TaskCategories[c].matrices[i].vectors) <= SliceLength
                  /\ TaskCategories[c].matrices[i].keys \subseteq Tasks
  <2>. DEFINE item == TaskCategories[c]
  <2>1. item \in Items
    BY <1>1
  <2>. HIDE DEF item
  <2>2. item.TaskCount \in Nat /\ item.matrices \in Seq(TaskMatrices)
    BY <2>1 DEF Items
  <2>3. \A i \in DOMAIN item.matrices : item.matrices[i] \in TaskMatrices
    BY <2>2
  <2>. QED
    BY <2>2, <2>3 DEF TaskMatrices, item
<1>. QED
  BY <1>1, <1>2, <1>3 DEF WindowTypeOK, SettledInv

LEMMA AgreementShows ==
  ASSUME Inv
  PROVE  WindowMatchesCategories
<1>. SUFFICES ASSUME NEW c \in Categories \ {Tag[t] : t \in resent}
              PROVE  LET ms == CategoryOf(TaskCategories, c).matrices
                     IN  /\ UNION {ToSet(ms[i].vectors) : i \in DOMAIN ms} = {TaskList[i].vector : i \in Listed(c)}
                         /\ \A i, j \in DOMAIN ms : \A a \in DOMAIN ms[i].vectors, b \in DOMAIN ms[j].vectors :
                              i > j \/ (i = j /\ a < b) => Older(ms[i].vectors[a], ms[j].vectors[b])
                         /\ CategoryOf(TaskCategories, c).TaskCount = Cardinality(Listed(c))
                         /\ \A i \in DOMAIN ms :
                              ms[i].vectors # <<>> /\ ms[i].keys = {Key(v) : v \in ToSet(ms[i].vectors)}
  BY Zenon DEF WindowMatchesCategories
<1>. DEFINE item == CategoryOf(TaskCategories, c)
            ms == item.matrices
            O == OrderOf(TaskList)
<1>1. Agrees(TaskList, TaskCategories, c)
  BY DEF Inv, AgreeInv, Sound
<1>2. /\ Tidy(ms, O) /\ Held(ms) = VectorsIn(TaskList, c)
      /\ item.TaskCount = Cardinality(ListedIn(TaskList, c))
  BY <1>1 DEF Agrees
<1>3. Listed(c) = ListedIn(TaskList, c)
  BY DEF Listed, ListedIn
<1>. HIDE DEF ms, O
<1>4. /\ ms \in Seq(Filled) /\ DOMAIN ms = 1 .. Len(ms) /\ Len(ms) \in Nat
      /\ \A i \in 1 .. Len(ms) : ms[i].keys = KeysOf(ms[i].vectors) /\ TasksSorted(ms[i].vectors, O)
      /\ \A i, j \in 1 .. Len(ms) : i > j =>
           \A x \in ToSet(ms[i].vectors), y \in ToSet(ms[j].vectors) : <<x, y>> \in O
      /\ \A i \in 1 .. Len(ms) : ms[i].vectors # <<>>
  BY <1>2, HeldFacts DEF Tidy, TasksInRow
<1>5. UNION {ToSet(ms[i].vectors) : i \in DOMAIN ms} = {TaskList[i].vector : i \in Listed(c)}
  BY <1>2, <1>3 DEF Held, VectorsIn
<1>6. \A x, y : <<x, y>> \in O => Older(x, y)
  BY DEF O, OrderOf, Older
<1>7. ASSUME NEW i \in DOMAIN ms, NEW j \in DOMAIN ms,
             NEW a \in DOMAIN ms[i].vectors, NEW b \in DOMAIN ms[j].vectors, i > j \/ (i = j /\ a < b)
      PROVE  Older(ms[i].vectors[a], ms[j].vectors[b])
  <2>1. CASE i > j
    <3>1. ms[i].vectors[a] \in ToSet(ms[i].vectors) /\ ms[j].vectors[b] \in ToSet(ms[j].vectors)
      BY DEF ToSet
    <3>. QED
      BY <1>4, <1>6, <2>1, <3>1
  <2>2. CASE i = j /\ a < b
    BY <1>4, <1>6, <2>2 DEF TasksSorted
  <2>. QED
    BY <1>7, <2>1, <2>2
<1>8. \A i \in DOMAIN ms : ms[i].vectors # <<>> /\ ms[i].keys = {Key(v) : v \in ToSet(ms[i].vectors)}
  BY <1>4 DEF KeysOf
<1>. QED
  BY <1>2, <1>3, <1>5, <1>7, <1>8 DEF ms

(* The list and the matrices tell the same history, but for categories     *)
(* that a repeated request has spoiled: every task that leaves the list is *)
(* found in its category, and no other with it.                            *)
THEOREM WindowCorrect ==
  WindowSpec => []WindowMatchesCategories
<1>1. Inv => WindowMatchesCategories
  BY AgreementShows
<1>. QED
  BY <1>1, InvCorrect, PTL

LEMMA ExpiryHolds ==
  ASSUME Inv
  PROVE  ExpiryStep
<1>. DEFINE w == HistoryTimeWindowSize
            m == Len(TaskList)
            removed == m - Len(TaskList')
<1>. SUFFICES ASSUME TaskDaemon
              PROVE  /\ \A i \in 1 .. removed : w > 0 /\ (Age(TaskList[i]) > w \/ clock < w)
                     /\ \A i \in removed + 1 .. m :
                          w > 0 /\ Age(TaskList[i]) > w => \E j \in removed + 1 .. i : TaskList[j].at > clock
  BY DEF ExpiryStep
<1>1. /\ TaskList \in Seq(Entries) /\ clock \in 0 .. ClockModulus - 1 /\ w \in 0 .. ClockModulus - 1
      /\ TaskCategories \in [DOMAIN TaskCategories -> Items]
      /\ AgeInv
  BY DEF Inv, TypesInv
<1>2. PICK n : DaemonTakes(n) /\ DaemonRemoves(n)
  BY <1>1, DaemonStep
<1>3. /\ n \in 0 .. m /\ m \in Nat /\ n \in Nat
      /\ \A i \in 1 .. n : Expired(TaskList[i].at)
      /\ n < m => ~ Expired(TaskList[n + 1].at)
  BY <1>1, <1>2 DEF DaemonTakes
<1>. DEFINE end == RemoveTailTasks(TaskList, TaskCategories, n)
            empty == {c \in DOMAIN end.cats : end.cats[c].TaskCount <= 0}
<1>0. TaskList' = [i \in DOMAIN end.list |->
                     IF Tag[Key(end.list[i].vector)] \in empty
                     THEN [end.list[i] EXCEPT !.orphan = TRUE] ELSE end.list[i]]
  BY <1>2, Zenon DEF DaemonRemoves
<1>4. removed = n
  <2>1. end.list \in Seq(Entries) /\ Len(end.list) = m - n
    <3>. DEFINE D == DOMAIN TaskCategories
    <3>1. n \in 0 .. Len(TaskList) /\ TaskCategories \in [D -> Items] /\ TaskList \in Seq(Entries)
      BY <1>1, <1>3
    <3>. HIDE DEF D
    <3>2. end.list \in Seq(Entries) /\ Len(end.list) = Len(TaskList) - n
      BY <3>1, TailTasksKeep
    <3>. QED
      BY <3>2
  <2>. DEFINE list == end.list
              new == [i \in DOMAIN list |-> IF Tag[Key(list[i].vector)] \in empty
                                           THEN [list[i] EXCEPT !.orphan = TRUE] ELSE list[i]]
  <2>. HIDE DEF end, empty
  <2>2. TaskList' = new
    BY <1>0
  <2>3. Len(new) = Len(list)
    <3>1. DOMAIN list = 1 .. Len(list) /\ Len(list) \in Nat
      BY <2>1
    <3>. HIDE DEF list
    <3>. QED
      BY <3>1
  <2>. QED
    BY <1>3, <2>1, <2>2, <2>3
<1>5. ASSUME NEW i \in 1 .. m
      PROVE  /\ TaskList[i].at \in 0 .. ClockModulus - 1 /\ Age(TaskList[i]) \in Nat
             /\ Age(TaskList[i]) = IF TaskList[i].at <= clock THEN clock - TaskList[i].at
                                   ELSE ClockModulus + clock - TaskList[i].at
             /\ Expired(TaskList[i].at) => w > 0 /\ (Age(TaskList[i]) > w \/ clock < w)
             /\ ~ Expired(TaskList[i].at) /\ w > 0 /\ w <= clock /\ TaskList[i].at <= clock =>
                  Age(TaskList[i]) <= w
  <2>. DEFINE e == TaskList[i]
  <2>1. e \in Entries
    BY <1>1
  <2>2. /\ e.at \in 0 .. ClockModulus - 1 /\ ClockModulus \in Nat
        /\ Age(e) = IF e.at <= clock THEN clock - e.at ELSE ClockModulus + clock - e.at
        /\ Age(e) \in 0 .. ClockModulus - 1
    BY <1>1, <2>1, TaskAges
  <2>3. (clock - w) % ClockModulus = IF w <= clock THEN clock - w ELSE ClockModulus + clock - w
    BY <1>1, Modulo
  <2>4. Expired(e.at) <=>
          /\ w > 0
          /\ \/ e.at < (clock - w) % ClockModulus
             \/ clock < w /\ e.at > clock /\ e.at < (ClockModulus - 1 - w - clock) % ClockModulus
    BY DEF Expired
  <2>. HIDE DEF e, w
  <2>5. Expired(e.at) => w > 0 /\ (Age(e) > w \/ clock < w)
    BY <1>1, <2>2, <2>3, <2>4
  <2>6. ~ Expired(e.at) /\ w > 0 /\ w <= clock /\ e.at <= clock => Age(e) <= w
    BY <1>1, <2>2, <2>3, <2>4
  <2>. QED
    BY <2>2, <2>5, <2>6 DEF e
<1>. HIDE DEF removed, w, m
<1>6. \A i \in 1 .. removed : w > 0 /\ (Age(TaskList[i]) > w \/ clock < w)
  BY <1>3, <1>4, <1>5
<1>7. ASSUME NEW i \in removed + 1 .. m, w > 0, Age(TaskList[i]) > w
      PROVE  \E j \in removed + 1 .. i : TaskList[j].at > clock
  <2>. DEFINE k == removed + 1
  <2>1. k \in 1 .. m /\ i \in 1 .. m /\ k \in removed + 1 .. i /\ i \in removed + 1 .. i /\ (k = i \/ k < i)
    BY <1>3, <1>4
  <2>2. ~ Expired(TaskList[k].at)
    BY <1>3, <1>4, <2>1
  <2>. HIDE DEF k
  <2>3. Age(TaskList[k]) >= Age(TaskList[i])
    <3>1. CASE k = i
      BY <1>5, <2>1, <3>1
    <3>2. CASE k < i
      BY <1>1, <2>1, <3>2 DEF AgeInv, m
    <3>. QED
      BY <2>1, <3>1, <3>2
  <2>4. CASE TaskList[i].at > clock
    BY <2>1, <2>4
  <2>5. CASE TaskList[k].at > clock
    BY <2>1, <2>5
  <2>6. CASE TaskList[i].at <= clock /\ TaskList[k].at <= clock
    <3>1. w < clock
      BY <1>1, <1>5, <1>7, <2>1, <2>6
    <3>2. Age(TaskList[k]) <= w
      BY <1>1, <1>5, <1>7, <2>1, <2>2, <2>6, <3>1
    <3>3. Age(TaskList[k]) \in Nat /\ Age(TaskList[i]) \in Nat /\ w \in Nat
      BY <1>1, <1>5, <2>1
    <3>. QED
      BY <1>7, <2>3, <3>2, <3>3
  <2>7. TaskList[i].at \in Nat /\ TaskList[k].at \in Nat /\ clock \in Nat
    BY <1>1, <1>5, <2>1
  <2>. QED
    BY <2>4, <2>5, <2>6, <2>7
<1>. QED
  BY <1>6, <1>7 DEF w, m, removed

(* The daemon removes what is older than the window and leaves what is     *)
(* not, but for what the wrap of the clock lets go early, or keeps behind  *)
(* a task that arrived before the wrap.                                    *)
THEOREM ExpiryCorrect ==
  WindowSpec => ExpiryRespectsWindow
<1>1. Inv => ExpiryStep
  BY ExpiryHolds
<1>. QED
  BY <1>1, InvCorrect, PTL DEF WindowSpec, ExpiryRespectsWindow
-----------------------------------------------------------------------------
(***************************************************************************)
(* Proofs about EventPipe: for every number of classes, length of a        *)
(* matrix, number of events and of ticks, and any sizes of the window, the *)
(* sums carried along are right and the vectors stay in their order.       *)
(*                                                                         *)
(* Counts are compared through measures: functions from counts to integers *)
(* that respect addition and subtraction, as every field is.  What leaves  *)
(* one matrix enters the next (Moved), so for every measure a tick changes *)
(* the total of the pipe by what enters and what leaves at the end only    *)
(* (Transport), and each matrix keeps its own sum exact.                   *)
(*                                                                         *)
(* The inductive invariant speaks of the whole slice.  What a change of    *)
(* the window took out lies beyond the length, comes back when the pipe    *)
(* grows again, and is overwritten when a matrix is appended: so the       *)
(* matrices there are good too, the order holds across the length, and     *)
(* their hits are no more than what was counted apart when they were taken *)
(* out, without which the pipe's sum could come to a negative number of    *)
(* hits, where Add and Minus no longer agree.                              *)
(***************************************************************************)
(* What is counted, with or without the tick of a vector.                  *)
Counted == Counts \cup Vectors

(* Ways to measure counts that respect addition and subtraction.           *)
Measures ==
  {p \in [Counted -> Int] :
     /\ p[Zero] = 0
     /\ \A a, b \in Counted : /\ p[Combine(a, b, 1)] = p[a] + p[b]
                              /\ p[Combine(a, b, -1)] = p[a] - p[b]}

LEMMA CountedFields ==
  ASSUME NEW a \in Counted
  PROVE  /\ a.known \in BOOLEAN
         /\ a.hits \in Int /\ a.violations \in Int /\ a.extra \in [Extras -> Int]
         /\ a.tasks \in [Classes -> Int] /\ a.exceeding \in [Classes -> Int]
<1>1. ASSUME a \in Vectors
      PROVE  /\ a.known \in BOOLEAN
             /\ a.hits \in Int /\ a.violations \in Int /\ a.extra \in [Extras -> Int]
             /\ a.tasks \in [Classes -> Int] /\ a.exceeding \in [Classes -> Int]
  <2>1. /\ \A f \in [Classes -> Nat] : f \in [Classes -> Int]
        /\ \A f \in [Extras -> Nat] : f \in [Extras -> Int]
    OBVIOUS
  <2>. QED
    BY <1>1, <2>1 DEF Vectors
<1>. QED
  BY <1>1 DEF Counted, Counts

LEMMA PlusFields ==
  ASSUME NEW a \in Counted, NEW b \in Counted
  PROVE  /\ Combine(a, b, 1) \in Counts
         /\ Combine(a, b, 1).known = a.known
         /\ Combine(a, b, 1).hits = a.hits + b.hits
         /\ Combine(a, b, 1).violations = a.violations + b.violations
         /\ \A k \in Extras : Combine(a, b, 1).extra[k] = a.extra[k] + b.extra[k]
         /\ \A c \in Classes :
              /\ Combine(a, b, 1).tasks[c] = a.tasks[c] + b.tasks[c]
              /\ Combine(a, b, 1).exceeding[c] = a.exceeding[c] + b.exceeding[c]
<1>1. /\ a.known \in BOOLEAN /\ a.hits \in Int /\ a.violations \in Int /\ a.extra \in [Extras -> Int]
      /\ a.tasks \in [Classes -> Int] /\ a.exceeding \in [Classes -> Int]
  BY CountedFields
<1>2. /\ b.hits \in Int /\ b.violations \in Int /\ b.extra \in [Extras -> Int]
      /\ b.tasks \in [Classes -> Int] /\ b.exceeding \in [Classes -> Int]
  BY CountedFields
<1>. DEFINE tasks == [c \in Classes |-> a.tasks[c] + 1 * b.tasks[c]]
            exceeding == [c \in Classes |-> a.exceeding[c] + 1 * b.exceeding[c]]
            extra == [k \in Extras |-> a.extra[k] + 1 * b.extra[k]]
<1>3. /\ tasks \in [Classes -> Int] /\ exceeding \in [Classes -> Int]
      /\ extra \in [Extras -> Int]
  BY <1>1, <1>2
<1>4. Combine(a, b, 1) =
        [known |-> a.known, hits |-> a.hits + 1 * b.hits,
         violations |-> a.violations + 1 * b.violations, extra |-> extra,
         tasks |-> tasks, exceeding |-> exceeding]
  BY DEF Combine
<1>5. /\ \A c \in Classes : /\ tasks[c] = a.tasks[c] + b.tasks[c]
                            /\ exceeding[c] = a.exceeding[c] + b.exceeding[c]
      /\ \A k \in Extras : extra[k] = a.extra[k] + b.extra[k]
  BY <1>1, <1>2
<1>. HIDE DEF tasks, exceeding, extra
<1>. QED
  BY <1>1, <1>2, <1>3, <1>4, <1>5 DEF Counts

LEMMA MinusFields ==
  ASSUME NEW a \in Counted, NEW b \in Counted
  PROVE  /\ Combine(a, b, -1) \in Counts
         /\ Combine(a, b, -1).known = a.known
         /\ Combine(a, b, -1).hits = a.hits - b.hits
         /\ Combine(a, b, -1).violations = a.violations - b.violations
         /\ \A k \in Extras : Combine(a, b, -1).extra[k] = a.extra[k] - b.extra[k]
         /\ \A c \in Classes :
              /\ Combine(a, b, -1).tasks[c] = a.tasks[c] - b.tasks[c]
              /\ Combine(a, b, -1).exceeding[c] = a.exceeding[c] - b.exceeding[c]
<1>1. /\ a.known \in BOOLEAN /\ a.hits \in Int /\ a.violations \in Int /\ a.extra \in [Extras -> Int]
      /\ a.tasks \in [Classes -> Int] /\ a.exceeding \in [Classes -> Int]
  BY CountedFields
<1>2. /\ b.hits \in Int /\ b.violations \in Int /\ b.extra \in [Extras -> Int]
      /\ b.tasks \in [Classes -> Int] /\ b.exceeding \in [Classes -> Int]
  BY CountedFields
<1>. DEFINE tasks == [c \in Classes |-> a.tasks[c] + (-1) * b.tasks[c]]
            exceeding == [c \in Classes |-> a.exceeding[c] + (-1) * b.exceeding[c]]
            extra == [k \in Extras |-> a.extra[k] + (-1) * b.extra[k]]
<1>3. /\ tasks \in [Classes -> Int] /\ exceeding \in [Classes -> Int]
      /\ extra \in [Extras -> Int]
  BY <1>1, <1>2
<1>4. Combine(a, b, -1) =
        [known |-> a.known, hits |-> a.hits + (-1) * b.hits,
         violations |-> a.violations + (-1) * b.violations, extra |-> extra,
         tasks |-> tasks, exceeding |-> exceeding]
  BY DEF Combine
<1>5. /\ \A c \in Classes : /\ tasks[c] = a.tasks[c] - b.tasks[c]
                            /\ exceeding[c] = a.exceeding[c] - b.exceeding[c]
      /\ \A k \in Extras : extra[k] = a.extra[k] - b.extra[k]
  BY <1>1, <1>2
<1>. HIDE DEF tasks, exceeding, extra
<1>. QED
  BY <1>1, <1>2, <1>3, <1>4, <1>5 DEF Counts

-----------------------------------------------------------------------------
LEMMA ZeroFields ==
  /\ Zero \in Counts /\ Zero.known = FALSE
  /\ Zero.hits = 0 /\ Zero.violations = 0 /\ \A k \in Extras : Zero.extra[k] = 0
  /\ \A c \in Classes : Zero.tasks[c] = 0 /\ Zero.exceeding[c] = 0
<1>1. [c \in Classes |-> 0] \in [Classes -> Int] /\ [k \in Extras |-> 0] \in [Extras -> Int]
  OBVIOUS
<1>. QED
  BY <1>1 DEF Zero, Counts

HitsOf == [v \in Counted |-> v.hits]
ViolationsOf == [v \in Counted |-> v.violations]
TasksOf(c) == [v \in Counted |-> v.tasks[c]]
ExceedingOf(c) == [v \in Counted |-> v.exceeding[c]]
ExtraOf(k) == [v \in Counted |-> v.extra[k]]

(* The fields are such measures.                                           *)
LEMMA FieldsMeasure ==
  /\ HitsOf \in Measures /\ ViolationsOf \in Measures
  /\ \A k \in Extras : ExtraOf(k) \in Measures
  /\ \A c \in Classes : TasksOf(c) \in Measures /\ ExceedingOf(c) \in Measures
<1>1. /\ Zero \in Counted
      /\ \A a, b \in Counted : /\ Combine(a, b, 1) \in Counted
                               /\ Combine(a, b, -1) \in Counted
  BY ZeroFields, PlusFields, MinusFields DEF Counted
<1>2. HitsOf \in Measures
  BY <1>1, ZeroFields, CountedFields, PlusFields, MinusFields DEF HitsOf, Measures
<1>3. ViolationsOf \in Measures
  BY <1>1, ZeroFields, CountedFields, PlusFields, MinusFields DEF ViolationsOf, Measures
<1>4. ASSUME NEW k \in Extras PROVE ExtraOf(k) \in Measures
  <2>1. \A a \in Counted : a.extra[k] \in Int
    BY CountedFields
  <2>2. Zero.extra[k] = 0
    BY ZeroFields
  <2>3. \A a, b \in Counted :
          /\ Combine(a, b, 1).extra[k] = a.extra[k] + b.extra[k]
          /\ Combine(a, b, -1).extra[k] = a.extra[k] - b.extra[k]
    BY PlusFields, MinusFields
  <2>. QED
    BY <1>1, <2>1, <2>2, <2>3 DEF ExtraOf, Measures
<1>5. ASSUME NEW c \in Classes PROVE TasksOf(c) \in Measures
  <2>1. \A a \in Counted : a.tasks[c] \in Int
    BY CountedFields
  <2>2. Zero.tasks[c] = 0
    BY ZeroFields
  <2>3. \A a, b \in Counted :
          /\ Combine(a, b, 1).tasks[c] = a.tasks[c] + b.tasks[c]
          /\ Combine(a, b, -1).tasks[c] = a.tasks[c] - b.tasks[c]
    BY PlusFields, MinusFields
  <2>. QED
    BY <1>1, <2>1, <2>2, <2>3 DEF TasksOf, Measures
<1>6. ASSUME NEW c \in Classes PROVE ExceedingOf(c) \in Measures
  <2>1. \A a \in Counted : a.exceeding[c] \in Int
    BY CountedFields
  <2>2. Zero.exceeding[c] = 0
    BY ZeroFields
  <2>3. \A a, b \in Counted :
          /\ Combine(a, b, 1).exceeding[c] = a.exceeding[c] + b.exceeding[c]
          /\ Combine(a, b, -1).exceeding[c] = a.exceeding[c] - b.exceeding[c]
    BY PlusFields, MinusFields
  <2>. QED
    BY <1>1, <2>1, <2>2, <2>3 DEF ExceedingOf, Measures
<1>. QED
  BY <1>2, <1>3, <1>4, <1>5, <1>6

LEMMA MeasureLaws ==
  ASSUME NEW p \in Measures
  PROVE  /\ \A a \in Counted : p[a] \in Int
         /\ p[Zero] = 0
         /\ \A a, b \in Counted : /\ p[Combine(a, b, 1)] = p[a] + p[b]
                                  /\ p[Combine(a, b, -1)] = p[a] - p[b]
         /\ Zero \in Counts /\ Counts \subseteq Counted /\ Vectors \subseteq Counted
         /\ \A a, b \in Counted : /\ Combine(a, b, 1) \in Counts
                                  /\ Combine(a, b, -1) \in Counts
BY ZeroFields, PlusFields, MinusFields DEF Measures, Counted

LEMMA MeasurePlus ==
  ASSUME NEW p \in Measures, NEW a \in Counted, NEW b \in Counted
  PROVE  p[a] \in Int /\ p[b] \in Int /\ p[Combine(a, b, 1)] = p[a] + p[b]
BY DEF Measures

(* The recursion that sums up vectors.                                     *)
LEMMA SumStep ==
  ASSUME NEW s \in Seq(Counted)
  PROVE  /\ SumUpTo(s, 0) = Zero
         /\ \A n \in 0 .. Len(s) : SumUpTo(s, n) \in Counts
         /\ \A n \in 1 .. Len(s) :
              SumUpTo(s, n) = Combine(SumUpTo(s, n - 1), s[n], 1)
<1>. DEFINE m == Len(s)
            Solves(f) == f = [i \in 0 .. m |-> IF i = 0 THEN Zero
                                               ELSE Combine(f[i - 1], s[i], 1)]
            sum == CHOOSE f : Solves(f)
            g == [r \in Counts \X (1 .. m) |-> Combine(r[1], s[r[2]], 1)]
<1>1. m \in Nat /\ \A i \in 1 .. m : s[i] \in Counted
  OBVIOUS
<1>2. \A n : SumUpTo(s, n) = sum[n]
  BY Zenon DEF SumUpTo
<1>3. Counts \subseteq Counted
  BY DEF Counted
<1>4. \A a \in Counts, i \in 1 .. m : Combine(a, s[i], 1) \in Counts
  BY <1>1, <1>3, PlusFields
<1>5. g \in [Counts \X (1 .. m) -> Counts]
  BY <1>4
<1>6. \A a \in Counts, i \in 1 .. m : g[<<a, i>>] = Combine(a, s[i], 1)
  OBVIOUS
<1>7. \E f : Solves(f)
  <2>. HIDE DEF g, m
  <2>0. Zero \in Counts
    BY ZeroFields
  <2>00. m \in Nat
    BY <1>1
  <2>01. IsStep(g, Counts, m)
    BY <1>5 DEF IsStep
  <2>02. PICK f : Iterates(f, g, Zero, Counts, m)
    BY <2>0, <2>00, <2>01, Iteration, Zenon
  <2>1. /\ f \in [0 .. m -> Counts] /\ f[0] = Zero
        /\ \A i \in 1 .. m : f[i] = g[<<f[i - 1], i>>]
    BY <2>02 DEF Iterates
  <2>2. ASSUME NEW i \in 1 .. m PROVE f[i] = Combine(f[i - 1], s[i], 1)
    <3>1. f[i - 1] \in Counts
      BY <1>1, <2>1
    <3>. QED
      BY <1>6, <2>1, <3>1
  <2>3. ASSUME NEW i \in 0 .. m
        PROVE  f[i] = IF i = 0 THEN Zero ELSE Combine(f[i - 1], s[i], 1)
    <3>1. i = 0 \/ i \in 1 .. m
      BY <1>1
    <3>. QED
      BY <2>1, <2>2, <3>1
  <2>4. Solves(f)
    BY <2>1, <2>3
  <2>. QED
    BY <2>4
<1>8. Solves(sum)
  <2>. HIDE DEF Solves
  <2>. QED
    BY <1>7, Zenon
<1>. HIDE DEF sum, g, m
<1>9. sum[0] = Zero /\ \A i \in 1 .. m : sum[i] = Combine(sum[i - 1], s[i], 1)
  BY <1>1, <1>8
<1>. DEFINE T == {i \in 0 .. m : sum[i] \in Counts}
<1>10. 0 \in T /\ \A i \in 0 .. m - 1 : i \in T => i + 1 \in T
  <2>1. ASSUME NEW i \in 0 .. m - 1, sum[i] \in Counts PROVE sum[i + 1] \in Counts
    <3>1. i + 1 \in 1 .. m /\ (i + 1) - 1 = i
      BY <1>1
    <3>. QED
      BY <1>4, <1>9, <2>1, <3>1
  <2>. QED
    BY <1>1, <1>9, <2>1, ZeroFields
<1>11. 0 .. m \subseteq T
  <2>. HIDE DEF T
  <2>. QED
    BY <1>1, <1>10, InductionUpTo
<1>. QED
  BY <1>2, <1>9, <1>11 DEF m

-----------------------------------------------------------------------------
(* A measure of some vectors, when one is added behind or the first taken. *)
LEMMA SumAppend ==
  ASSUME NEW p \in Measures, NEW s \in Seq(Counted), NEW v \in Counted
  PROVE  p[SumOf(Append(s, v))] = p[SumOf(s)] + p[v]
<1>. DEFINE n == Len(s)
            t == Append(s, v)
            T == {i \in 0 .. n : SumUpTo(t, i) = SumUpTo(s, i)}
<1>1. /\ n \in Nat /\ t \in Seq(Counted) /\ Len(t) = n + 1 /\ t[n + 1] = v
      /\ \A i \in 1 .. n : t[i] = s[i]
  OBVIOUS
<1>. HIDE DEF n, t
<1>2. /\ SumUpTo(t, 0) = Zero
      /\ \A i \in 0 .. n + 1 : SumUpTo(t, i) \in Counts
      /\ \A i \in 1 .. n + 1 : SumUpTo(t, i) = Combine(SumUpTo(t, i - 1), t[i], 1)
  BY <1>1, SumStep
<1>3. /\ SumUpTo(s, 0) = Zero
      /\ \A i \in 1 .. n : SumUpTo(s, i) = Combine(SumUpTo(s, i - 1), s[i], 1)
  BY SumStep DEF n
<1>4. 0 \in T /\ \A i \in 0 .. n - 1 : i \in T => i + 1 \in T
  <2>1. ASSUME NEW i \in 0 .. n - 1, SumUpTo(t, i) = SumUpTo(s, i)
        PROVE  SumUpTo(t, i + 1) = SumUpTo(s, i + 1)
    <3>1. i + 1 \in 1 .. n /\ i + 1 \in 1 .. n + 1 /\ (i + 1) - 1 = i
      BY <1>1
    <3>2. t[i + 1] = s[i + 1]
      BY <1>1, <3>1
    <3>. QED
      BY <1>2, <1>3, <2>1, <3>1, <3>2
  <2>. QED
    BY <1>1, <1>2, <1>3, <2>1
<1>5. n \in T
  <2>1. 0 .. n \subseteq T
    <3>. HIDE DEF T
    <3>. QED
      BY <1>1, <1>4, InductionUpTo
  <2>. QED
    BY <1>1, <2>1
<1>6. SumUpTo(t, n + 1) = Combine(SumUpTo(s, n), v, 1)
  <2>1. n + 1 \in 1 .. n + 1 /\ (n + 1) - 1 = n
    BY <1>1
  <2>. QED
    BY <1>1, <1>2, <1>5, <2>1
<1>7. SumUpTo(s, n) \in Counted
  BY <1>1, <1>2, <1>5, MeasureLaws
<1>8. p[SumUpTo(t, n + 1)] = p[SumUpTo(s, n)] + p[v]
  BY <1>6, <1>7, MeasureLaws
<1>. QED
  BY <1>1, <1>8 DEF n, t, SumOf

LEMMA SumTail ==
  ASSUME NEW p \in Measures, NEW s \in Seq(Counted), s # <<>>
  PROVE  p[SumOf(Tail(s))] = p[SumOf(s)] - p[Head(s)]
<1>. DEFINE n == Len(s) - 1
            t == Tail(s)
            v == Head(s)
            T == {i \in 0 .. n : p[SumUpTo(t, i)] = p[SumUpTo(s, i + 1)] - p[v]}
<1>1. /\ n \in Nat /\ Len(s) = n + 1 /\ v = s[1] /\ t \in Seq(Counted) /\ Len(t) = n
      /\ \A i \in 1 .. n : t[i] = s[i + 1]
      /\ \A i \in 1 .. n + 1 : s[i] \in Counted
  OBVIOUS
<1>. HIDE DEF n, t, v
<1>2. /\ SumUpTo(t, 0) = Zero
      /\ \A i \in 0 .. n : SumUpTo(t, i) \in Counted
      /\ \A i \in 1 .. n : SumUpTo(t, i) = Combine(SumUpTo(t, i - 1), t[i], 1)
  BY <1>1, SumStep, MeasureLaws
<1>3. /\ SumUpTo(s, 0) = Zero
      /\ \A i \in 0 .. n + 1 : SumUpTo(s, i) \in Counted
      /\ \A i \in 1 .. n + 1 : SumUpTo(s, i) = Combine(SumUpTo(s, i - 1), s[i], 1)
  BY <1>1, SumStep, MeasureLaws
<1>4. 0 \in T
  <2>1. 1 \in 1 .. n + 1 /\ 1 - 1 = 0 /\ s[1] \in Counted /\ Zero \in Counted
    BY <1>1, MeasureLaws
  <2>2. SumUpTo(s, 1) = Combine(Zero, v, 1)
    BY <1>1, <1>3, <2>1
  <2>3. v \in Counted
    BY <1>1, <2>1
  <2>4. /\ p[Combine(Zero, v, 1)] = p[Zero] + p[v]
        /\ p[Zero] = 0 /\ p[v] \in Int
    BY <2>1, <2>3, MeasurePlus, MeasureLaws
  <2>5. p[SumUpTo(s, 1)] = p[v]
    BY <2>2, <2>4
  <2>. QED
    BY <1>1, <1>2, <2>4, <2>5
<1>5. ASSUME NEW i \in 0 .. n - 1, i \in T PROVE i + 1 \in T
  <2>1. /\ i \in 0 .. n /\ i + 1 \in 1 .. n /\ i + 1 \in 0 .. n /\ i + 2 \in 1 .. n + 1
        /\ i + 1 \in 0 .. n + 1 /\ (i + 1) - 1 = i /\ (i + 2) - 1 = i + 1 /\ (i + 1) + 1 = i + 2
    BY <1>1
  <2>. DEFINE a == SumUpTo(t, i)  b == SumUpTo(s, i + 1)  c == s[i + 2]
  <2>2. a \in Counted /\ b \in Counted /\ c \in Counted /\ v \in Counted
    BY <1>1, <1>2, <1>3, <2>1
  <2>3. t[i + 1] = c
    BY <1>1, <2>1
  <2>4. /\ SumUpTo(t, i + 1) = Combine(a, c, 1)
        /\ SumUpTo(s, i + 2) = Combine(b, c, 1)
    BY <1>2, <1>3, <2>1, <2>3
  <2>5. p[a] = p[b] - p[v]
    BY <1>5
  <2>. HIDE DEF a, b, c
  <2>6. p[SumUpTo(t, i + 1)] = p[SumUpTo(s, i + 2)] - p[v]
    <3>1. /\ p[a] \in Int /\ p[b] \in Int /\ p[c] \in Int /\ p[v] \in Int
          /\ p[Combine(a, c, 1)] = p[a] + p[c]
          /\ p[Combine(b, c, 1)] = p[b] + p[c]
      BY <2>2, MeasurePlus
    <3>. QED
      BY <2>4, <2>5, <3>1
  <2>. QED
    BY <2>1, <2>6
<1>6. n \in T
  <2>1. 0 .. n \subseteq T
    <3>. HIDE DEF T
    <3>. QED
      BY <1>1, <1>4, <1>5, InductionUpTo
  <2>. QED
    BY <1>1, <2>1
<1>7. p[SumUpTo(t, n)] = p[SumUpTo(s, n + 1)] - p[v]
  BY <1>6
<1>. QED
  BY <1>1, <1>7 DEF t, v, SumOf

(* What a measure says of an element of the pipe. *)
Weight(p, m) == IF m = Nil THEN 0 ELSE p[SumOf(m.vectors)]

Slices == Seq(Matrices \cup {Nil})

LEMMA VectorsCounted ==
  ASSUME NEW m \in Matrices
  PROVE  m.vectors \in Seq(Vectors) /\ m.vectors \in Seq(Counted) /\ m.cumulative \in Counts
<1>1. m.vectors \in Seq(Vectors) /\ m.cumulative \in Counts
  BY DEF Matrices
<1>2. Vectors \subseteq Counted
  BY DEF Counted
<1>3. \A s \in Seq(Vectors) : s \in Seq(Counted)
  BY <1>2
<1>. QED
  BY <1>1, <1>3

LEMMA SumCounted ==
  ASSUME NEW s \in Seq(Counted)
  PROVE  SumOf(s) \in Counts /\ SumOf(s) \in Counted
<1>1. Len(s) \in 0 .. Len(s)
  OBVIOUS
<1>. QED
  BY <1>1, SumStep DEF SumOf, Counted

LEMMA NilOutside ==
  Nil \notin Counted /\ Nil \notin Matrices
BY EventPipeAssumption DEF Counted

(* The recursion that sums up matrices.                                    *)
LEMMA TotalStep ==
  ASSUME NEW s \in Slices
  PROVE  /\ Total(s, 0) = Zero
         /\ \A n \in 0 .. Len(s) : Total(s, n) \in Counts
         /\ \A n \in 1 .. Len(s) :
              Total(s, n) = IF s[n] = Nil THEN Total(s, n - 1)
                            ELSE Combine(Total(s, n - 1), SumOf(s[n].vectors), 1)
<1>. DEFINE m == Len(s)
            Next1(a, i) == IF s[i] = Nil THEN a ELSE Combine(a, SumOf(s[i].vectors), 1)
            Solves(f) == f = [i \in 0 .. m |-> IF i = 0 THEN Zero
                                               ELSE IF s[i] = Nil THEN f[i - 1]
                                               ELSE Combine(f[i - 1], SumOf(s[i].vectors), 1)]
            total == CHOOSE f : Solves(f)
            g == [r \in Counts \X (1 .. m) |-> Next1(r[1], r[2])]
<1>1. m \in Nat /\ \A i \in 1 .. m : s[i] \in Matrices \cup {Nil}
  BY DEF Slices
<1>2. \A n : Total(s, n) = total[n]
  BY Zenon DEF Total
<1>3. Counts \subseteq Counted
  BY DEF Counted
<1>4. ASSUME NEW a \in Counts, NEW i \in 1 .. m PROVE Next1(a, i) \in Counts
  <2>1. CASE s[i] = Nil
    BY <2>1
  <2>2. CASE s[i] # Nil
    <3>1. s[i] \in Matrices
      BY <1>1, <2>2
    <3>2. SumOf(s[i].vectors) \in Counted
      BY <3>1, VectorsCounted, SumCounted
    <3>3. a \in Counted
      BY <1>3
    <3>. QED
      BY <2>2, <3>2, <3>3, PlusFields
  <2>. QED
    BY <2>1, <2>2
<1>. HIDE DEF Next1
<1>5. IsStep(g, Counts, m)
  BY <1>4 DEF IsStep
<1>6. \A a \in Counts, i \in 1 .. m : g[<<a, i>>] = Next1(a, i)
  OBVIOUS
<1>7. \E f : Solves(f)
  <2>. HIDE DEF g, m
  <2>1. m \in Nat /\ Zero \in Counts
    BY <1>1, ZeroFields
  <2>2. PICK f : Iterates(f, g, Zero, Counts, m)
    BY <1>5, <2>1, Iteration, Zenon
  <2>3. f \in [0 .. m -> Counts] /\ f[0] = Zero /\ \A i \in 1 .. m : f[i] = g[<<f[i - 1], i>>]
    BY <2>2 DEF Iterates
  <2>4. ASSUME NEW i \in 1 .. m PROVE f[i] = Next1(f[i - 1], i)
    <3>1. f[i - 1] \in Counts
      BY <2>1, <2>3
    <3>. QED
      BY <1>6, <2>3, <3>1
  <2>5. ASSUME NEW i \in 0 .. m PROVE f[i] = IF i = 0 THEN Zero ELSE Next1(f[i - 1], i)
    <3>1. i = 0 \/ i \in 1 .. m
      BY <2>1
    <3>. QED
      BY <2>3, <2>4, <3>1
  <2>6. Solves(f)
    BY <2>3, <2>5 DEF Next1
  <2>. QED
    BY <2>6
<1>8. Solves(total)
  <2>. HIDE DEF Solves
  <2>. QED
    BY <1>7, Zenon
<1>. HIDE DEF total, g, m
<1>9. total[0] = Zero /\ \A i \in 1 .. m : total[i] = Next1(total[i - 1], i)
  BY <1>1, <1>8 DEF Next1
<1>. DEFINE T == {i \in 0 .. m : total[i] \in Counts}
<1>10. 0 \in T /\ \A i \in 0 .. m - 1 : i \in T => i + 1 \in T
  <2>1. ASSUME NEW i \in 0 .. m - 1, total[i] \in Counts PROVE total[i + 1] \in Counts
    <3>1. i + 1 \in 1 .. m /\ (i + 1) - 1 = i
      BY <1>1
    <3>. QED
      BY <1>4, <1>9, <2>1, <3>1
  <2>. QED
    BY <1>1, <1>9, <2>1, ZeroFields
<1>11. 0 .. m \subseteq T
  <2>. HIDE DEF T
  <2>. QED
    BY <1>1, <1>10, InductionUpTo
<1>. QED
  BY <1>2, <1>9, <1>11 DEF m, Next1

LEMMA TotalWeight ==
  ASSUME NEW p \in Measures, NEW s \in Slices
  PROVE  /\ p[Total(s, 0)] = 0
         /\ \A n \in 0 .. Len(s) : p[Total(s, n)] \in Int
         /\ \A n \in 1 .. Len(s) : /\ Weight(p, s[n]) \in Int
                                   /\ p[Total(s, n)] = p[Total(s, n - 1)] + Weight(p, s[n])
<1>1. p[Total(s, 0)] = 0
  BY TotalStep, MeasureLaws
<1>2. \A n \in 0 .. Len(s) : Total(s, n) \in Counted
  BY TotalStep DEF Counted
<1>3. \A n \in 0 .. Len(s) : p[Total(s, n)] \in Int
  BY <1>2, MeasureLaws
<1>4. ASSUME NEW n \in 1 .. Len(s)
      PROVE  Weight(p, s[n]) \in Int /\ p[Total(s, n)] = p[Total(s, n - 1)] + Weight(p, s[n])
  <2>1. n - 1 \in 0 .. Len(s)
    BY DEF Slices
  <2>2. CASE s[n] = Nil
    <3>1. Total(s, n) = Total(s, n - 1)
      BY <2>2, TotalStep
    <3>. QED
      BY <1>3, <2>1, <2>2, <3>1 DEF Weight
  <2>3. CASE s[n] # Nil
    <3>1. s[n] \in Matrices
      BY <2>3 DEF Slices
    <3>2. SumOf(s[n].vectors) \in Counted
      BY <3>1, VectorsCounted, SumCounted
    <3>3. Total(s, n) = Combine(Total(s, n - 1), SumOf(s[n].vectors), 1)
      BY <2>3, TotalStep
    <3>. QED
      BY <1>2, <2>1, <2>3, <3>2, <3>3, MeasurePlus DEF Weight
  <2>. QED
    BY <2>2, <2>3
<1>. QED
  BY <1>1, <1>3, <1>4

(* A transport along a slice: what element i gives up, g[i], comes to the  *)
(* next element.  Only what enters and what leaves at the end counts.      *)
Carries(p, s, t, g, m) ==
  \A i \in 1 .. m : Weight(p, t[i]) + g[i] = Weight(p, s[i]) + g[i - 1]

LEMMA Transport ==
  ASSUME NEW p \in Measures, NEW s \in Slices, NEW t \in Slices, NEW m \in Nat,
         m <= Len(s), m <= Len(t), NEW g \in [0 .. m -> Int], Carries(p, s, t, g, m)
  PROVE  p[Total(t, m)] + g[m] = p[Total(s, m)] + g[0]
<1>. DEFINE T == {i \in 0 .. m : p[Total(t, i)] + g[i] = p[Total(s, i)] + g[0]}
<1>1. /\ p[Total(s, 0)] = 0 /\ p[Total(t, 0)] = 0
      /\ \A n \in 0 .. Len(s) : p[Total(s, n)] \in Int
      /\ \A n \in 0 .. Len(t) : p[Total(t, n)] \in Int
      /\ \A n \in 1 .. Len(s) : /\ Weight(p, s[n]) \in Int
                                /\ p[Total(s, n)] = p[Total(s, n - 1)] + Weight(p, s[n])
      /\ \A n \in 1 .. Len(t) : /\ Weight(p, t[n]) \in Int
                                /\ p[Total(t, n)] = p[Total(t, n - 1)] + Weight(p, t[n])
  BY TotalWeight
<1>2. Len(s) \in Nat /\ Len(t) \in Nat /\ 0 \in 0 .. m
  BY DEF Slices
<1>3. 0 \in T
  BY <1>1, <1>2
<1>4. ASSUME NEW i \in 0 .. m - 1, i \in T PROVE i + 1 \in T
  <2>1. /\ i + 1 \in 1 .. m /\ i + 1 \in 0 .. m /\ i + 1 \in 1 .. Len(s) /\ i + 1 \in 1 .. Len(t) /\ (i + 1) - 1 = i
        /\ i \in 0 .. Len(s) /\ i \in 0 .. Len(t) /\ i \in 0 .. m
    BY <1>2
  <2>2. /\ p[Total(s, i + 1)] = p[Total(s, i)] + Weight(p, s[i + 1]) /\ Weight(p, s[i + 1]) \in Int
        /\ p[Total(s, i)] \in Int
    BY <1>1, <2>1
  <2>5. /\ p[Total(t, i + 1)] = p[Total(t, i)] + Weight(p, t[i + 1]) /\ Weight(p, t[i + 1]) \in Int
        /\ p[Total(t, i)] \in Int
    BY <1>1, <2>1
  <2>6. Weight(p, t[i + 1]) + g[i + 1] = Weight(p, s[i + 1]) + g[i]
    <3>1. Weight(p, t[i + 1]) + g[i + 1] = Weight(p, s[i + 1]) + g[(i + 1) - 1]
      BY <2>1, Zenon DEF Carries
    <3>. QED
      BY <2>1, <3>1
  <2>3. p[Total(t, i)] + g[i] = p[Total(s, i)] + g[0] /\ g[i] \in Int /\ g[i + 1] \in Int /\ g[0] \in Int
    BY <1>2, <1>4, <2>1
  <2>4. p[Total(t, i + 1)] + g[i + 1] = p[Total(s, i + 1)] + g[0]
    <3>. DEFINE a == p[Total(s, i)]  b == p[Total(t, i)]
                c == Weight(p, s[i + 1])  d == Weight(p, t[i + 1])
                x == g[i]  y == g[i + 1]  z == g[0]
    <3>1. a \in Int /\ b \in Int /\ c \in Int /\ d \in Int /\ x \in Int /\ y \in Int /\ z \in Int
      BY <2>2, <2>5, <2>3
    <3>2. b + x = a + z
      BY <2>3
    <3>3. d + y = c + x
      BY <2>6
    <3>4. p[Total(t, i + 1)] = b + d /\ p[Total(s, i + 1)] = a + c
      BY <2>2, <2>5
    <3>. HIDE DEF a, b, c, d, x, y, z
    <3>5. (b + d) + y = (a + c) + z
      BY <3>1, <3>2, <3>3
    <3>. QED
      BY <3>4, <3>5, Zenon DEF y, z
  <2>. QED
    BY <2>1, <2>4
<1>5. m \in T
  <2>1. 0 .. m \subseteq T
    <3>. HIDE DEF T
    <3>. QED
      BY <1>3, <1>4, InductionUpTo
  <2>. QED
    BY <2>1
<1>. QED
  BY <1>5

LEMMA TotalFlat ==
  ASSUME NEW p \in Measures, NEW s \in Slices, NEW n \in Nat, n <= Len(s),
         \A i \in n + 1 .. Len(s) : s[i] = Nil
  PROVE  p[Total(s, Len(s))] = p[Total(s, n)]
<1>. DEFINE m == Len(s) - n
            T == {i \in 0 .. m : p[Total(s, n + i)] = p[Total(s, n)]}
<1>1. Len(s) \in Nat /\ m \in Nat /\ n + m = Len(s)
  BY DEF Slices
<1>. HIDE DEF m
<1>2. 0 \in T
  BY <1>1
<1>3. ASSUME NEW i \in 0 .. m - 1, i \in T PROVE i + 1 \in T
  <2>1. n + (i + 1) \in n + 1 .. Len(s) /\ n + (i + 1) \in 1 .. Len(s) /\ (n + (i + 1)) - 1 = n + i /\ i + 1 \in 0 .. m
    BY <1>1
  <2>2. s[n + (i + 1)] = Nil
    BY <2>1
  <2>3. Total(s, n + (i + 1)) = Total(s, n + i)
    BY <2>1, <2>2, TotalStep
  <2>. QED
    BY <1>3, <2>1, <2>3
<1>4. m \in T
  <2>1. 0 .. m \subseteq T
    <3>. HIDE DEF T
    <3>. QED
      BY <1>1, <1>2, <1>3, InductionUpTo
  <2>. QED
    BY <1>1, <2>1
<1>. QED
  BY <1>1, <1>4

Grows(p, s) == \A i \in 1 .. Len(s) : Weight(p, s[i]) >= 0

LEMMA TotalGrows ==
  ASSUME NEW p \in Measures, NEW s \in Slices, Grows(p, s),
         NEW n \in Nat, n <= Len(s)
  PROVE  p[Total(s, n)] >= 0 /\ p[Total(s, n)] <= p[Total(s, Len(s))]
<1>. DEFINE m == Len(s) - n
            T == {i \in 0 .. n : p[Total(s, i)] >= 0}
            U == {i \in 0 .. m : p[Total(s, n)] <= p[Total(s, n + i)]}
<1>1. Len(s) \in Nat /\ m \in Nat /\ n + m = Len(s)
  BY DEF Slices
<1>. HIDE DEF m
<1>2. /\ p[Total(s, 0)] = 0
      /\ \A i \in 0 .. Len(s) : p[Total(s, i)] \in Int
  BY TotalWeight
<1>3. ASSUME NEW i \in 0 .. Len(s) - 1
      PROVE  p[Total(s, i)] \in Int /\ p[Total(s, i + 1)] \in Int /\ p[Total(s, i)] <= p[Total(s, i + 1)]
  <2>1. i + 1 \in 1 .. Len(s) /\ i \in 0 .. Len(s) /\ i + 1 \in 0 .. Len(s) /\ (i + 1) - 1 = i
    BY <1>1
  <2>2. Weight(p, s[i + 1]) \in Int /\ Weight(p, s[i + 1]) >= 0
    BY <2>1, TotalWeight DEF Grows
  <2>3. p[Total(s, i + 1)] = p[Total(s, i)] + Weight(p, s[i + 1])
    BY <2>1, TotalWeight
  <2>4. p[Total(s, i)] \in Int /\ p[Total(s, i + 1)] \in Int
    BY <1>2, <2>1
  <2>. DEFINE a == p[Total(s, i)]  b == Weight(p, s[i + 1])
  <2>5. a \in Int /\ b \in Int /\ b >= 0 /\ p[Total(s, i + 1)] = a + b
    BY <2>2, <2>3, <2>4
  <2>. HIDE DEF a, b
  <2>6. a <= a + b
    BY <2>5
  <2>. QED
    BY <2>4, <2>5, <2>6 DEF a
<1>4. 0 \in T /\ \A i \in 0 .. n - 1 : i \in T => i + 1 \in T
  <2>1. ASSUME NEW i \in 0 .. n - 1, p[Total(s, i)] >= 0 PROVE p[Total(s, i + 1)] >= 0
    <3>1. i \in 0 .. Len(s) - 1
      BY <1>1
    <3>. QED
      BY <1>3, <2>1, <3>1
  <2>. QED
    BY <1>1, <1>2, <2>1
<1>5. p[Total(s, n)] \in Int
  BY <1>1, <1>2
<1>8. 0 \in U
  BY <1>1, <1>5
<1>9. ASSUME NEW i \in 0 .. m - 1, i \in U PROVE i + 1 \in U
  <2>1. n + i \in 0 .. Len(s) - 1 /\ n + (i + 1) = (n + i) + 1 /\ i + 1 \in 0 .. m
    BY <1>1
  <2>2. p[Total(s, n + i)] \in Int /\ p[Total(s, (n + i) + 1)] \in Int /\ p[Total(s, n + i)] <= p[Total(s, (n + i) + 1)]
    BY <1>3, <2>1
  <2>3. p[Total(s, n)] <= p[Total(s, n + i)]
    BY <1>9
  <2>4. p[Total(s, n)] <= p[Total(s, n + (i + 1))]
    <3>. DEFINE a == p[Total(s, n)]  b == p[Total(s, n + i)]  c == p[Total(s, (n + i) + 1)]
    <3>1. a \in Int /\ b \in Int /\ c \in Int /\ a <= b /\ b <= c
      BY <1>5, <2>2, <2>3
    <3>. HIDE DEF a, b, c
    <3>2. a <= c
      BY <3>1
    <3>. QED
      BY <2>1, <3>2 DEF a, c
  <2>. QED
    BY <2>1, <2>4
<1>6. n \in T
  <2>1. 0 .. n \subseteq T
    <3>. HIDE DEF T
    <3>. QED
      BY <1>4, InductionUpTo
  <2>. QED
    BY <2>1
<1>7. m \in U
  <2>1. 0 .. m \subseteq U
    <3>. HIDE DEF U
    <3>. QED
      BY <1>1, <1>8, <1>9, InductionUpTo
  <2>. QED
    BY <1>1, <2>1
<1>. QED
  BY <1>1, <1>6, <1>7

(* What can really be counted: no more violations than hits.               *)
Sane(v) ==
  /\ v \in Counted
  /\ v.hits \in Nat /\ v.violations \in 0 .. v.hits /\ v.extra \in [Extras -> Nat]
  /\ v.tasks \in [Classes -> Nat] /\ v.exceeding \in [Classes -> Nat]

(* Add is addition but for what it may lose of a queue without a hit.      *)
LEMMA AddFields ==
  ASSUME NEW a \in Counted, a.hits >= 0, NEW b, Sane(b)
  PROVE  /\ Add(a, b) \in Counts
         /\ Add(a, b).hits = a.hits + b.hits /\ Add(a, b).violations = a.violations + b.violations
         /\ Add(a, b).tasks = Combine(a, b, 1).tasks
         /\ Add(a, b).exceeding = Combine(a, b, 1).exceeding
         /\ Add(a, b).extra \in {a.extra, Combine(a, b, 1).extra}
<1>. DEFINE c == Combine(a, b, 1)
<1>1. /\ b \in Counted /\ b.hits \in Nat /\ b.violations \in 0 .. b.hits
      /\ b.known \in BOOLEAN
  BY CountedFields DEF Sane
<1>2. /\ a.known \in BOOLEAN /\ a.hits \in Int /\ a.violations \in Int /\ a.extra \in [Extras -> Int]
  BY CountedFields
<1>3. /\ c \in Counts /\ c.known = a.known /\ c.hits = a.hits + b.hits
      /\ c.violations = a.violations + b.violations
  BY <1>1, PlusFields
<1>4. Add(a, b) = IF a.known /\ b.known /\ a.hits + b.hits = 0
                  THEN [c EXCEPT !.extra = a.extra, !.violations = a.violations]
                  ELSE [c EXCEPT !.known = a.known \/ b.known]
  BY DEF Add
<1>. HIDE DEF c
<1>5. CASE a.known /\ b.known /\ a.hits + b.hits = 0
  <2>1. b.violations = 0
    BY <1>1, <1>2, <1>5
  <2>2. Add(a, b) = [c EXCEPT !.extra = a.extra, !.violations = a.violations]
    BY <1>4, <1>5
  <2>3. /\ Add(a, b).known = c.known /\ Add(a, b).hits = c.hits
        /\ Add(a, b).violations = a.violations /\ Add(a, b).extra = a.extra
        /\ Add(a, b).tasks = c.tasks /\ Add(a, b).exceeding = c.exceeding
    BY <1>3, <2>2 DEF Counts
  <2>4. Add(a, b) \in Counts
    BY <1>2, <1>3, <2>2 DEF Counts
  <2>. QED
    BY <1>1, <1>2, <1>3, <2>1, <2>3, <2>4 DEF c
<1>6. CASE ~ (a.known /\ b.known /\ a.hits + b.hits = 0)
  <2>1. Add(a, b) = [c EXCEPT !.known = a.known \/ b.known]
    BY <1>4, <1>6
  <2>2. (a.known \/ b.known) \in BOOLEAN
    BY <1>1, <1>2
  <2>. QED
    BY <1>3, <2>1, <2>2 DEF Counts, c
<1>. QED
  BY <1>5, <1>6

-----------------------------------------------------------------------------
(* What SameCounts compares. *)
CountMeasures ==
  {HitsOf, ViolationsOf} \cup {TasksOf(c) : c \in Classes} \cup {ExceedingOf(c) : c \in Classes}

LEMMA SameMeasured ==
  ASSUME NEW a \in Counted, NEW b \in Counted
  PROVE  SameCounts(a, b) <=> \A p \in CountMeasures : p[a] = p[b]
<1>1. /\ a.tasks \in [Classes -> Int] /\ a.exceeding \in [Classes -> Int]
      /\ b.tasks \in [Classes -> Int] /\ b.exceeding \in [Classes -> Int]
  BY CountedFields
<1>2. /\ HitsOf[a] = a.hits /\ HitsOf[b] = b.hits
      /\ ViolationsOf[a] = a.violations /\ ViolationsOf[b] = b.violations
      /\ \A c \in Classes : /\ TasksOf(c)[a] = a.tasks[c] /\ TasksOf(c)[b] = b.tasks[c]
                            /\ ExceedingOf(c)[a] = a.exceeding[c] /\ ExceedingOf(c)[b] = b.exceeding[c]
  BY DEF HitsOf, ViolationsOf, TasksOf, ExceedingOf
<1>3. a.tasks = b.tasks <=> \A c \in Classes : a.tasks[c] = b.tasks[c]
  BY <1>1
<1>4. a.exceeding = b.exceeding <=> \A c \in Classes : a.exceeding[c] = b.exceeding[c]
  BY <1>1
<1>5. (\A p \in CountMeasures : p[a] = p[b]) <=>
        /\ HitsOf[a] = HitsOf[b] /\ ViolationsOf[a] = ViolationsOf[b]
        /\ \A c \in Classes : TasksOf(c)[a] = TasksOf(c)[b] /\ ExceedingOf(c)[a] = ExceedingOf(c)[b]
  BY Zenon DEF CountMeasures
<1>. QED
  BY <1>2, <1>3, <1>4, <1>5 DEF SameCounts

(* What NoMore compares. *)
LowMeasures == {ExtraOf(k) : k \in Extras}

LEMMA LessMeasured ==
  ASSUME NEW a \in Counted, NEW b \in Counted
  PROVE  NoMore(a, b) <=> \A p \in LowMeasures : p[a] <= p[b]
<1>1. \A k \in Extras : ExtraOf(k)[a] = a.extra[k] /\ ExtraOf(k)[b] = b.extra[k]
  BY DEF ExtraOf
<1>2. (\A p \in LowMeasures : p[a] <= p[b]) <=> \A k \in Extras : ExtraOf(k)[a] <= ExtraOf(k)[b]
  BY Zenon DEF LowMeasures
<1>. QED
  BY <1>1, <1>2 DEF NoMore

LEMMA AddMeasured ==
  ASSUME NEW a \in Counted, a.hits >= 0, NEW b, Sane(b)
  PROVE  /\ Add(a, b) \in Counts /\ Add(a, b) \in Counted /\ b \in Counted
         /\ \A p \in CountMeasures : p[Add(a, b)] = p[a] + p[b]
         /\ \A p \in LowMeasures : p[Add(a, b)] <= p[a] + p[b]
<1>1. /\ Add(a, b) \in Counts
      /\ Add(a, b).hits = a.hits + b.hits /\ Add(a, b).violations = a.violations + b.violations
      /\ Add(a, b).tasks = Combine(a, b, 1).tasks
      /\ Add(a, b).exceeding = Combine(a, b, 1).exceeding
      /\ Add(a, b).extra \in {a.extra, Combine(a, b, 1).extra}
  BY AddFields
<1>2. Add(a, b) \in Counted
  BY <1>1 DEF Counted
<1>3. b \in Counted /\ b.extra \in [Extras -> Nat] /\ a.extra \in [Extras -> Int]
  BY CountedFields DEF Sane
<1>4. /\ \A c \in Classes :
           /\ Combine(a, b, 1).tasks[c] = a.tasks[c] + b.tasks[c]
           /\ Combine(a, b, 1).exceeding[c] = a.exceeding[c] + b.exceeding[c]
      /\ \A k \in Extras : Combine(a, b, 1).extra[k] = a.extra[k] + b.extra[k]
  BY <1>3, PlusFields
<1>5. HitsOf[Add(a, b)] = HitsOf[a] + HitsOf[b]
  BY <1>1, <1>2, <1>3 DEF HitsOf
<1>6. ViolationsOf[Add(a, b)] = ViolationsOf[a] + ViolationsOf[b]
  BY <1>1, <1>2, <1>3 DEF ViolationsOf
<1>7. ASSUME NEW c \in Classes
      PROVE  /\ TasksOf(c)[Add(a, b)] = TasksOf(c)[a] + TasksOf(c)[b]
             /\ ExceedingOf(c)[Add(a, b)] = ExceedingOf(c)[a] + ExceedingOf(c)[b]
  BY <1>1, <1>2, <1>3, <1>4 DEF TasksOf, ExceedingOf
<1>8. \A p \in CountMeasures : p[Add(a, b)] = p[a] + p[b]
  BY <1>5, <1>6, <1>7, Zenon DEF CountMeasures
<1>9. ASSUME NEW k \in Extras PROVE ExtraOf(k)[Add(a, b)] <= ExtraOf(k)[a] + ExtraOf(k)[b]
  <2>1. /\ ExtraOf(k)[Add(a, b)] = Add(a, b).extra[k]
        /\ ExtraOf(k)[a] = a.extra[k] /\ ExtraOf(k)[b] = b.extra[k]
    BY <1>2, <1>3 DEF ExtraOf
  <2>. DEFINE x == a.extra[k]  y == b.extra[k]
  <2>2. x \in Int /\ y \in Nat
    BY <1>3
  <2>3. Add(a, b).extra[k] \in {x, x + y}
    BY <1>1, <1>4
  <2>. HIDE DEF x, y
  <2>4. \A z \in {x, x + y} : z <= x + y
    BY <2>2
  <2>5. Add(a, b).extra[k] <= x + y
    BY <2>3, <2>4
  <2>. QED
    BY <2>1, <2>5 DEF x, y
<1>10. \A p \in LowMeasures : p[Add(a, b)] <= p[a] + p[b]
  BY <1>9, Zenon DEF LowMeasures
<1>. QED
  BY <1>1, <1>2, <1>3, <1>8, <1>10

LEMMA MeasuresKnown ==
  /\ CountMeasures \subseteq Measures /\ LowMeasures \subseteq Measures
  /\ HitsOf \in CountMeasures
  /\ \A a \in Counted : HitsOf[a] = a.hits
<1>1. CountMeasures \subseteq Measures
  BY FieldsMeasure, Zenon DEF CountMeasures
<1>2. LowMeasures \subseteq Measures
  BY FieldsMeasure, Zenon DEF LowMeasures
<1>. QED
  BY <1>1, <1>2, FieldsMeasure DEF CountMeasures, HitsOf

(* The vectors of the daemon: no more violations than hits.                *)
GoodVectors == {w \in Vectors : w.violations <= w.hits}

LEMMA GoodVectorsSane ==
  ASSUME NEW w \in GoodVectors
  PROVE  Sane(w) /\ w \in Vectors /\ w \in Counted /\ w.hits \in Nat /\ w.ticks \in Nat
<1>1. w \in Vectors /\ w.violations <= w.hits
  BY DEF GoodVectors
<1>2. /\ w.hits \in Nat /\ w.violations \in Nat /\ w.extra \in [Extras -> Nat] /\ w.ticks \in Nat
      /\ w.tasks \in [Classes -> Nat] /\ w.exceeding \in [Classes -> Nat]
  BY <1>1 DEF Vectors
<1>3. w.violations \in 0 .. w.hits
  BY <1>1, <1>2
<1>4. w \in Counted
  BY <1>1 DEF Counted
<1>. QED
  BY <1>1, <1>2, <1>3, <1>4 DEF Sane

(* Sane counts add up to sane counts. *)
LEMMA AddSane ==
  ASSUME NEW a \in Counts, Sane(a), NEW b \in Counts, Sane(b)
  PROVE  Add(a, b) \in Counts /\ Sane(Add(a, b))
<1>1. /\ a \in Counted /\ a.hits \in Nat /\ a.violations \in 0 .. a.hits /\ a.extra \in [Extras -> Nat]
      /\ a.tasks \in [Classes -> Nat] /\ a.exceeding \in [Classes -> Nat]
      /\ b \in Counted /\ b.hits \in Nat /\ b.violations \in 0 .. b.hits /\ b.extra \in [Extras -> Nat]
      /\ b.tasks \in [Classes -> Nat] /\ b.exceeding \in [Classes -> Nat]
  BY DEF Sane
<1>. DEFINE s == Add(a, b)
            c == Combine(a, b, 1)
<1>2. a.hits >= 0
  BY <1>1
<1>3. /\ s \in Counts
      /\ s.hits = a.hits + b.hits /\ s.violations = a.violations + b.violations
      /\ s.tasks = c.tasks /\ s.exceeding = c.exceeding
      /\ s.extra \in {a.extra, c.extra}
  BY <1>1, <1>2, AddFields
<1>4. /\ c \in Counts
      /\ \A d \in Classes : /\ c.tasks[d] = a.tasks[d] + b.tasks[d]
                            /\ c.exceeding[d] = a.exceeding[d] + b.exceeding[d]
      /\ \A k \in Extras : c.extra[k] = a.extra[k] + b.extra[k]
  BY <1>1, PlusFields
<1>5. /\ c.tasks \in [Classes -> Int] /\ c.exceeding \in [Classes -> Int]
      /\ c.extra \in [Extras -> Int]
  BY <1>4 DEF Counts
<1>. HIDE DEF s, c
<1>6. /\ \A d \in Classes : c.tasks[d] \in Nat /\ c.exceeding[d] \in Nat
      /\ \A k \in Extras : c.extra[k] \in Nat
  BY <1>1, <1>4
<1>7. /\ c.tasks \in [Classes -> Nat] /\ c.exceeding \in [Classes -> Nat]
      /\ c.extra \in [Extras -> Nat]
  BY <1>5, <1>6
<1>8. s.hits \in Nat /\ s.violations \in 0 .. s.hits /\ s.extra \in [Extras -> Nat]
  BY <1>1, <1>3, <1>7
<1>9. s \in Counted
  BY <1>3 DEF Counted
<1>. QED
  BY <1>3, <1>7, <1>8, <1>9 DEF Sane, s

(* The recursion that sums up the buffer: the new vector.                  *)
LEMMA VectorGood ==
  ASSUME NEW buffer \in Seq(Counts), \A i \in 1 .. Len(buffer) : Sane(buffer[i]), ticks \in Nat
  PROVE  Vector(buffer) \in GoodVectors /\ Vector(buffer).ticks = ticks + 1
<1>. DEFINE m == Len(buffer)
            S == {a \in Counts : Sane(a)}
            Solves(f) == f = [n \in 0 .. m |-> IF n = 0 THEN Zero ELSE Add(f[n - 1], buffer[n])]
            sum == CHOOSE f : Solves(f)
            g == [r \in S \X (1 .. m) |-> Add(r[1], buffer[r[2]])]
<1>1. m \in Nat /\ \A i \in 1 .. m : buffer[i] \in S
  OBVIOUS
<1>2. Vector(buffer) =
        [known |-> sum[m].known, hits |-> sum[m].hits, violations |-> sum[m].violations,
         extra |-> sum[m].extra, tasks |-> sum[m].tasks, exceeding |-> sum[m].exceeding,
         ticks |-> ticks + 1]
  BY Zenon DEF Vector
<1>3. \A a, b \in S : Add(a, b) \in S
  BY AddSane
<1>4. Zero \in S
  <2>1. /\ Zero.tasks = [c \in Classes |-> 0] /\ Zero.exceeding = [c \in Classes |-> 0]
        /\ [c \in Classes |-> 0] \in [Classes -> Nat]
        /\ Zero.extra = [k \in Extras |-> 0] /\ [k \in Extras |-> 0] \in [Extras -> Nat]
    BY DEF Zero
  <2>2. Zero.hits = 0 /\ Zero.violations = 0 /\ Zero \in Counts
    BY ZeroFields
  <2>3. Zero.violations \in 0 .. Zero.hits /\ Zero.hits \in Nat
    BY <2>2
  <2>. QED
    BY <2>1, <2>2, <2>3 DEF Sane, Counted
<1>. HIDE DEF S
<1>5. IsStep(g, S, m)
  BY <1>1, <1>3 DEF IsStep
<1>6. \A a \in S, i \in 1 .. m : g[<<a, i>>] = Add(a, buffer[i])
  OBVIOUS
<1>7. \E f : Solves(f)
  <2>. HIDE DEF g, m
  <2>0. m \in Nat
    BY <1>1
  <2>1. PICK f : Iterates(f, g, Zero, S, m)
    BY <1>4, <1>5, <2>0, Iteration, Zenon
  <2>2. f \in [0 .. m -> S] /\ f[0] = Zero /\ \A i \in 1 .. m : f[i] = g[<<f[i - 1], i>>]
    BY <2>1 DEF Iterates
  <2>3. ASSUME NEW i \in 1 .. m PROVE f[i] = Add(f[i - 1], buffer[i])
    <3>1. f[i - 1] \in S
      BY <2>0, <2>2
    <3>. QED
      BY <1>6, <2>2, <3>1
  <2>4. ASSUME NEW i \in 0 .. m PROVE f[i] = IF i = 0 THEN Zero ELSE Add(f[i - 1], buffer[i])
    <3>1. i = 0 \/ i \in 1 .. m
      BY <2>0
    <3>. QED
      BY <2>2, <2>3, <3>1
  <2>5. Solves(f)
    BY <2>2, <2>4
  <2>. QED
    BY <2>5
<1>8. Solves(sum)
  <2>. HIDE DEF Solves
  <2>. QED
    BY <1>7, Zenon
<1>. HIDE DEF sum, g, m
<1>9. sum[0] = Zero /\ \A i \in 1 .. m : sum[i] = Add(sum[i - 1], buffer[i])
  BY <1>1, <1>8
<1>. DEFINE T == {i \in 0 .. m : sum[i] \in S}
<1>10. 0 \in T
  BY <1>1, <1>4, <1>9
<1>11. ASSUME NEW i \in 0 .. m - 1, i \in T PROVE i + 1 \in T
  <2>1. i + 1 \in 1 .. m /\ (i + 1) - 1 = i /\ i + 1 \in 0 .. m
    BY <1>1
  <2>. QED
    BY <1>1, <1>3, <1>9, <1>11, <2>1
<1>12. m \in T
  <2>1. 0 .. m \subseteq T
    <3>. HIDE DEF T
    <3>. QED
      BY <1>1, <1>10, <1>11, InductionUpTo
  <2>. QED
    BY <1>1, <2>1
<1>13. sum[m] \in Counts /\ Sane(sum[m])
  BY <1>12 DEF S
<1>14. /\ sum[m].known \in BOOLEAN /\ sum[m].hits \in Nat /\ sum[m].violations \in Nat
       /\ sum[m].violations <= sum[m].hits /\ sum[m].extra \in [Extras -> Nat]
       /\ sum[m].tasks \in [Classes -> Nat] /\ sum[m].exceeding \in [Classes -> Nat]
  BY <1>13 DEF Sane, Counts
<1>15. ticks + 1 \in Nat
  OBVIOUS
<1>. DEFINE a == sum[m]
<1>. HIDE DEF a
<1>16. /\ a.known \in BOOLEAN /\ a.hits \in Nat /\ a.violations \in Nat
       /\ a.violations <= a.hits /\ a.extra \in [Extras -> Nat]
       /\ a.tasks \in [Classes -> Nat] /\ a.exceeding \in [Classes -> Nat]
  BY <1>14 DEF a
<1>17. Vector(buffer) =
         [known |-> a.known, hits |-> a.hits, violations |-> a.violations,
          extra |-> a.extra, tasks |-> a.tasks, exceeding |-> a.exceeding,
          ticks |-> ticks + 1]
  BY <1>2 DEF a
<1>18. Vector(buffer) \in Vectors
  BY <1>15, <1>16, <1>17 DEF Vectors
<1>. QED
  BY <1>16, <1>17, <1>18 DEF GoodVectors

(* What is counted in vectors has no negative number of hits.              *)
LEMMA SumHits ==
  ASSUME NEW s \in Seq(Vectors)
  PROVE  s \in Seq(Counted) /\ SumOf(s).hits \in Int /\ SumOf(s).hits >= 0
<1>. DEFINE m == Len(s)
            T == {i \in 0 .. m : SumUpTo(s, i).hits >= 0}
<1>1. /\ m \in Nat /\ s \in Seq(Counted)
      /\ \A i \in 1 .. m : s[i] \in Vectors /\ s[i] \in Counted
  BY DEF Counted
<1>. HIDE DEF m
<1>2. /\ SumUpTo(s, 0) = Zero
      /\ \A i \in 0 .. m : SumUpTo(s, i) \in Counted
      /\ \A i \in 1 .. m : SumUpTo(s, i) = Combine(SumUpTo(s, i - 1), s[i], 1)
  BY <1>1, SumStep DEF m, Counted
<1>3. \A i \in 1 .. m : s[i].hits \in Nat
  BY <1>1 DEF Vectors
<1>4. 0 \in T
  BY <1>1, <1>2, ZeroFields
<1>5. ASSUME NEW i \in 0 .. m - 1, i \in T PROVE i + 1 \in T
  <2>1. i + 1 \in 1 .. m /\ (i + 1) - 1 = i /\ i + 1 \in 0 .. m /\ i \in 0 .. m
    BY <1>1
  <2>2. SumUpTo(s, i) \in Counted /\ s[i + 1] \in Counted /\ SumUpTo(s, i + 1) = Combine(SumUpTo(s, i), s[i + 1], 1)
    BY <1>1, <1>2, <2>1
  <2>3. SumUpTo(s, i + 1).hits = SumUpTo(s, i).hits + s[i + 1].hits /\ SumUpTo(s, i).hits \in Int
    BY <2>2, PlusFields, CountedFields
  <2>4. s[i + 1].hits \in Nat /\ SumUpTo(s, i).hits >= 0
    BY <1>3, <1>5, <2>1
  <2>5. SumUpTo(s, i + 1).hits >= 0
    BY <2>3, <2>4
  <2>. QED
    BY <2>1, <2>5
<1>6. m \in T
  <2>1. 0 .. m \subseteq T
    <3>. HIDE DEF T
    <3>. QED
      BY <1>1, <1>4, <1>5, InductionUpTo
  <2>. QED
    BY <1>1, <2>1
<1>7. SumUpTo(s, m).hits >= 0 /\ SumUpTo(s, m) \in Counted
  BY <1>1, <1>2, <1>6
<1>. QED
  BY <1>1, <1>7, CountedFields DEF SumOf, m

-----------------------------------------------------------------------------
(* Matrices whose sum is right, of at most as many vectors as they hold.   *)
Exact(m) ==
  SameCounts(m.cumulative, SumOf(m.vectors)) /\ NoMore(m.cumulative, SumOf(m.vectors))
GoodMatrices ==
  {m \in Matrices : /\ m.vectors \in Seq(GoodVectors)
                    /\ Len(m.vectors) <= MatrixLength
                    /\ Exact(m)}
FilledMatrices == {m \in GoodMatrices : Len(m.vectors) >= 1}

(* What a matrix gives up: nothing, or one vector. *)
Gives == {<<>>} \cup {<<w>> : w \in GoodVectors}
Given(p, x) == IF x = <<>> THEN 0 ELSE p[x[1]]

LEMMA GivenFacts ==
  /\ <<>> \in Gives
  /\ \A w \in GoodVectors : <<w>> \in Gives
  /\ \A p \in Measures : Given(p, <<>>) = 0 /\ \A w : Given(p, <<w>>) = p[w]
  /\ \A x \in Gives : x # <<>> => x[1] \in GoodVectors /\ x = <<x[1]>>
BY DEF Gives, Given

(* A good matrix, with what the measures say of it.                        *)
LEMMA GoodMatrixFacts ==
  ASSUME NEW m \in GoodMatrices
  PROVE  /\ m \in Matrices /\ m.vectors \in Seq(GoodVectors) /\ m.vectors \in Seq(Vectors)
         /\ m.vectors \in Seq(Counted) /\ Len(m.vectors) <= MatrixLength
         /\ m.cumulative \in Counted /\ SumOf(m.vectors) \in Counted
         /\ m.cumulative.hits >= 0
         /\ \A p \in CountMeasures : p[m.cumulative] = p[SumOf(m.vectors)]
         /\ \A p \in LowMeasures : p[m.cumulative] <= p[SumOf(m.vectors)]
<1>1. m \in Matrices /\ m.vectors \in Seq(GoodVectors) /\ Len(m.vectors) <= MatrixLength /\ Exact(m)
  BY DEF GoodMatrices
<1>2. m.vectors \in Seq(Vectors) /\ m.vectors \in Seq(Counted) /\ m.cumulative \in Counts
  BY <1>1, VectorsCounted
<1>3. SumOf(m.vectors) \in Counted /\ m.cumulative \in Counted
  BY <1>2, SumCounted DEF Counted
<1>4. /\ \A p \in CountMeasures : p[m.cumulative] = p[SumOf(m.vectors)]
      /\ \A p \in LowMeasures : p[m.cumulative] <= p[SumOf(m.vectors)]
  BY <1>1, <1>3, SameMeasured, LessMeasured DEF Exact
<1>5. HitsOf[m.cumulative] = HitsOf[SumOf(m.vectors)]
  BY <1>4, MeasuresKnown
<1>6. m.cumulative.hits >= 0
  BY <1>2, <1>3, <1>5, MeasuresKnown, SumHits
<1>. QED
  BY <1>1, <1>2, <1>3, <1>4, <1>6

(* The vector that comes to a matrix. *)
LEMMA MatrixEnqueueEffect ==
  ASSUME NEW m \in GoodMatrices, NEW w \in GoodVectors
  PROVE  LET e == MatrixEnqueue(m, w) IN
         /\ e.matrix \in FilledMatrices /\ e.out \in Gives
         /\ \A p \in Measures :
              p[SumOf(e.matrix.vectors)] + Given(p, e.out) = p[SumOf(m.vectors)] + p[w]
         /\ e.out = <<>> => e.matrix.vectors = Append(m.vectors, w)
         /\ e.out # <<>> => /\ m.vectors # <<>> /\ e.out = <<m.vectors[1]>>
                            /\ e.matrix.vectors = Append(Tail(m.vectors), w)
<1>. DEFINE e == MatrixEnqueue(m, w)
            s == m.vectors
            longer == Append(s, w)
            sum == Add(m.cumulative, w)
<1>0. MatrixLength \in Nat \ {0}
  BY EventPipeAssumption
<1>1. /\ m \in Matrices /\ s \in Seq(GoodVectors) /\ s \in Seq(Vectors)
      /\ s \in Seq(Counted) /\ Len(s) <= MatrixLength
      /\ m.cumulative \in Counted /\ SumOf(s) \in Counted
      /\ m.cumulative.hits >= 0
      /\ \A p \in CountMeasures : p[m.cumulative] = p[SumOf(s)]
      /\ \A p \in LowMeasures : p[m.cumulative] <= p[SumOf(s)]
  BY GoodMatrixFacts
<1>2. Sane(w) /\ w \in Vectors /\ w \in Counted
  BY GoodVectorsSane
<1>3. /\ sum \in Counts /\ sum \in Counted
      /\ \A p \in CountMeasures : p[sum] = p[m.cumulative] + p[w]
      /\ \A p \in LowMeasures : p[sum] <= p[m.cumulative] + p[w]
  BY <1>1, <1>2, AddMeasured
<1>4. /\ longer \in Seq(GoodVectors) /\ longer \in Seq(Vectors) /\ longer \in Seq(Counted)
      /\ Len(longer) = Len(s) + 1 /\ longer # <<>> /\ Len(s) \in Nat
  BY <1>1, <1>2
<1>5. \A p \in Measures : p[SumOf(longer)] = p[SumOf(s)] + p[w]
  BY <1>1, <1>2, SumAppend
<1>6. \A p \in CountMeasures : p[sum] = p[SumOf(longer)]
  BY <1>1, <1>3, <1>5, MeasuresKnown
<1>7. /\ e.matrix = [vectors |-> IF Len(longer) > MatrixLength THEN Tail(longer) ELSE longer,
                     cumulative |-> IF Len(longer) > MatrixLength THEN Minus(sum, Head(longer)) ELSE sum]
      /\ e.out = IF Len(longer) > MatrixLength THEN <<Head(longer)>> ELSE <<>>
  BY DEF MatrixEnqueue, Matrix
<1>8. SumOf(longer) \in Counted
  BY <1>4, SumCounted
<1>9. \A p \in Measures : /\ p[SumOf(s)] \in Int /\ p[w] \in Int /\ p[SumOf(longer)] \in Int
                          /\ p[m.cumulative] \in Int /\ p[sum] \in Int
  BY <1>1, <1>2, <1>3, <1>8, MeasureLaws
<1>12. ASSUME NEW p \in LowMeasures PROVE p[sum] <= p[SumOf(longer)]
  <2>. DEFINE a == p[sum]  b == p[m.cumulative]  d == p[w]  f == p[SumOf(s)]  h == p[SumOf(longer)]
  <2>1. p \in Measures
    BY MeasuresKnown
  <2>2. /\ a \in Int /\ b \in Int /\ d \in Int /\ f \in Int /\ h \in Int
        /\ a <= b + d /\ b <= f /\ h = f + d
    BY <1>1, <1>3, <1>5, <1>9, <2>1
  <2>. HIDE DEF a, b, d, f, h
  <2>3. a <= h
    BY <2>2
  <2>. QED
    BY <2>3 DEF a, h
<1>. HIDE DEF e, longer, sum
<1>10. CASE ~ (Len(longer) > MatrixLength)
  <2>1. e.matrix = [vectors |-> longer, cumulative |-> sum] /\ e.out = <<>>
    BY <1>7, <1>10
  <2>2. e.matrix.vectors = longer /\ e.matrix.cumulative = sum
    BY <2>1
  <2>3. e.matrix \in Matrices
    BY <1>3, <1>4, <2>1 DEF Matrices
  <2>4. Exact(e.matrix)
    BY <1>3, <1>6, <1>8, <1>12, <2>2, SameMeasured, LessMeasured DEF Exact
  <2>5. Len(longer) <= MatrixLength /\ Len(longer) >= 1
    BY <1>0, <1>4, <1>10
  <2>6. e.matrix \in FilledMatrices
    BY <1>4, <2>2, <2>3, <2>4, <2>5 DEF GoodMatrices, FilledMatrices
  <2>7. \A p \in Measures : p[SumOf(e.matrix.vectors)] + Given(p, e.out) = p[SumOf(s)] + p[w]
    BY <1>5, <1>9, <2>1, <2>2, GivenFacts
  <2>. QED
    BY <2>1, <2>2, <2>6, <2>7, GivenFacts DEF longer, e
<1>11. CASE Len(longer) > MatrixLength
  <2>. DEFINE h == Head(longer)
              t == Tail(longer)
  <2>1. e.matrix = [vectors |-> t, cumulative |-> Minus(sum, h)] /\ e.out = <<h>>
    BY <1>7, <1>11
  <2>2. e.matrix.vectors = t /\ e.matrix.cumulative = Minus(sum, h)
    BY <2>1
  <2>3. Len(s) = MatrixLength /\ s # <<>>
    BY <1>0, <1>1, <1>4, <1>11
  <2>4. h = s[1] /\ t = Append(Tail(s), w) /\ Len(t) = MatrixLength
    <3>1. Head(Append(s, w)) = s[1] /\ Tail(Append(s, w)) = Append(Tail(s), w)
      BY <1>1, <2>3
    <3>2. Len(Tail(longer)) = Len(longer) - 1
      BY <1>4
    <3>. QED
      BY <1>4, <2>3, <3>1, <3>2 DEF longer
  <2>5. h \in GoodVectors /\ h \in Counted /\ t \in Seq(GoodVectors) /\ t \in Seq(Vectors) /\ t \in Seq(Counted)
    <3>1. h \in GoodVectors /\ h \in Counted
      BY <1>1, <2>3, <2>4
    <3>. QED
      BY <1>4, <3>1
  <2>6. \A p \in Measures : p[SumOf(t)] = p[SumOf(longer)] - p[h]
    BY <1>4, SumTail
  <2>7. Minus(sum, h) \in Counts /\ Minus(sum, h) \in Counted
    BY <1>3, <2>5, MinusFields DEF Minus, Counted
  <2>8. \A p \in CountMeasures \cup LowMeasures : p[Minus(sum, h)] = p[sum] - p[h]
    BY <1>3, <2>5, MeasuresKnown, MeasureLaws DEF Minus
  <2>9. SumOf(t) \in Counted
    BY <2>5, SumCounted
  <2>10. \A p \in CountMeasures : p[Minus(sum, h)] = p[SumOf(t)]
    BY <1>6, <2>6, <2>8, MeasuresKnown
  <2>16. ASSUME NEW p \in LowMeasures PROVE p[Minus(sum, h)] <= p[SumOf(t)]
    <3>. DEFINE a == p[sum]  b == p[h]  d == p[SumOf(longer)]
    <3>1. p \in Measures
      BY MeasuresKnown
    <3>2. /\ a \in Int /\ b \in Int /\ d \in Int /\ a <= d
          /\ p[Minus(sum, h)] = a - b /\ p[SumOf(t)] = d - b
      BY <1>9, <1>12, <2>5, <2>6, <2>8, <3>1, MeasureLaws
    <3>. HIDE DEF a, b, d
    <3>3. a - b <= d - b
      BY <3>2
    <3>. QED
      BY <3>2, <3>3
  <2>11. Exact(e.matrix)
    BY <2>2, <2>7, <2>9, <2>10, <2>16, SameMeasured, LessMeasured DEF Exact
  <2>12. e.matrix \in Matrices
    BY <2>1, <2>5, <2>7 DEF Matrices
  <2>13. e.matrix \in FilledMatrices
    <3>. DEFINE n == e.matrix
    <3>1. Len(n.vectors) <= MatrixLength /\ Len(n.vectors) >= 1 /\ n.vectors \in Seq(GoodVectors)
      BY <1>0, <2>2, <2>4, <2>5
    <3>. HIDE DEF n
    <3>2. n \in Matrices /\ Exact(n)
      BY <2>11, <2>12 DEF n
    <3>. QED
      BY <3>1, <3>2 DEF GoodMatrices, FilledMatrices, n
  <2>14. \A p \in Measures : p[SumOf(e.matrix.vectors)] + Given(p, e.out) = p[SumOf(s)] + p[w]
    <3>. SUFFICES ASSUME NEW p \in Measures
                  PROVE  p[SumOf(e.matrix.vectors)] + Given(p, e.out) = p[SumOf(s)] + p[w]
      OBVIOUS
    <3>1. p[SumOf(t)] = p[SumOf(longer)] - p[h] /\ p[SumOf(longer)] = p[SumOf(s)] + p[w]
      BY <1>5, <2>6
    <3>2. p[SumOf(longer)] \in Int /\ p[h] \in Int
      BY <1>9, <2>5, MeasureLaws
    <3>3. p[SumOf(t)] + p[h] = p[SumOf(s)] + p[w]
      BY <3>1, <3>2
    <3>4. Given(p, e.out) = p[h]
      BY <2>1, GivenFacts
    <3>. QED
      BY <2>2, <3>3, <3>4
  <2>15. e.out # <<>> /\ e.out \in Gives
    BY <2>1, <2>5, GivenFacts
  <2>. QED
    BY <2>1, <2>2, <2>3, <2>4, <2>13, <2>14, <2>15 DEF e
<1>. QED
  BY <1>10, <1>11

GoodSlices == Seq(FilledMatrices \cup {Nil})

(* What comes to the matrices of the pipe, one after another: g[i] is what *)
(* the i-th gives up, g[0] the vector that enters.                         *)
Passes(v, g) ==
  /\ g \in [0 .. length -> Gives] /\ g[0] = <<v>>
  /\ \A i \in 1 .. length :
       g[i] = IF g[i - 1] = <<>> \/ Pipe[i] = Nil THEN <<>>
              ELSE MatrixEnqueue(Pipe[i], g[i - 1][1]).out
  /\ PassThrough(v) =
       [done |-> [i \in 1 .. length |->
                    IF g[i - 1] = <<>> \/ Pipe[i] = Nil THEN Pipe[i]
                    ELSE MatrixEnqueue(Pipe[i], g[i - 1][1]).matrix],
        out |-> g[length],
        crash |-> \E i \in 1 .. length : g[i - 1] # <<>> /\ Pipe[i] = Nil]

LEMMA GoodSliceElement ==
  ASSUME NEW s \in GoodSlices, NEW i \in 1 .. Len(s)
  PROVE  /\ s \in Slices /\ Len(s) \in Nat
         /\ s[i] # Nil => s[i] \in FilledMatrices /\ s[i] \in GoodMatrices /\ s[i] \in Matrices
<1>1. FilledMatrices \subseteq GoodMatrices /\ GoodMatrices \subseteq Matrices
  BY DEF FilledMatrices, GoodMatrices
<1>. HIDE DEF FilledMatrices
<1>2. s \in Seq(FilledMatrices \cup {Nil})
  BY DEF GoodSlices
<1>3. s \in Seq(Matrices \cup {Nil})
  BY <1>1, <1>2
<1>. QED
  BY <1>1, <1>2, <1>3 DEF Slices

(* The recursion of PassThrough. *)
LEMMA PassThroughGiven ==
  ASSUME Pipe \in GoodSlices, length \in 0 .. Len(Pipe), NEW v \in GoodVectors
  PROVE  \E g : Passes(v, g)
<1>. DEFINE m == length
            Out(x, i) == IF x = <<>> \/ Pipe[i] = Nil THEN <<>>
                         ELSE MatrixEnqueue(Pipe[i], x[1]).out
            Solves(f) == f = [i \in 0 .. m |->
                                IF i = 0 THEN <<v>>
                                ELSE IF f[i - 1] = <<>> \/ Pipe[i] = Nil THEN <<>>
                                ELSE MatrixEnqueue(Pipe[i], f[i - 1][1]).out]
            given == CHOOSE f : Solves(f)
            g == [r \in Gives \X (1 .. m) |-> Out(r[1], r[2])]
<1>1. m \in Nat /\ Len(Pipe) \in Nat /\ m <= Len(Pipe)
  BY DEF GoodSlices
<1>2. PassThrough(v) =
        [done |-> [i \in 1 .. length |->
                     IF given[i - 1] = <<>> \/ Pipe[i] = Nil THEN Pipe[i]
                     ELSE MatrixEnqueue(Pipe[i], given[i - 1][1]).matrix],
         out |-> given[length],
         crash |-> \E i \in 1 .. length : given[i - 1] # <<>> /\ Pipe[i] = Nil]
  BY Zenon DEF PassThrough
<1>3. ASSUME NEW x \in Gives, NEW i \in 1 .. m PROVE Out(x, i) \in Gives
  <2>1. CASE x = <<>> \/ Pipe[i] = Nil
    BY <2>1, GivenFacts
  <2>2. CASE ~ (x = <<>> \/ Pipe[i] = Nil)
    <3>1. x[1] \in GoodVectors
      BY <2>2, GivenFacts
    <3>2. Pipe[i] \in GoodMatrices
      BY <1>1, <2>2, GoodSliceElement
    <3>3. MatrixEnqueue(Pipe[i], x[1]).out \in Gives
      BY <3>1, <3>2, MatrixEnqueueEffect
    <3>. QED
      BY <2>2, <3>3
  <2>. QED
    BY <2>1, <2>2
<1>. HIDE DEF Out
<1>4. IsStep(g, Gives, m)
  BY <1>3 DEF IsStep
<1>5. \A x \in Gives, i \in 1 .. m : g[<<x, i>>] = Out(x, i)
  OBVIOUS
<1>6. <<v>> \in Gives
  BY GivenFacts
<1>7. \E f : Solves(f)
  <2>. HIDE DEF g, m
  <2>0. m \in Nat
    BY <1>1
  <2>1. PICK f : Iterates(f, g, <<v>>, Gives, m)
    BY <1>4, <1>6, <2>0, Iteration, Zenon
  <2>2. f \in [0 .. m -> Gives] /\ f[0] = <<v>> /\ \A i \in 1 .. m : f[i] = g[<<f[i - 1], i>>]
    BY <2>1 DEF Iterates
  <2>3. ASSUME NEW i \in 1 .. m PROVE f[i] = Out(f[i - 1], i)
    <3>1. f[i - 1] \in Gives
      BY <2>0, <2>2
    <3>. QED
      BY <1>5, <2>2, <3>1
  <2>4. ASSUME NEW i \in 0 .. m PROVE f[i] = IF i = 0 THEN <<v>> ELSE Out(f[i - 1], i)
    <3>1. i = 0 \/ i \in 1 .. m
      BY <2>0
    <3>. QED
      BY <2>2, <2>3, <3>1
  <2>5. Solves(f)
    BY <2>2, <2>4 DEF Out
  <2>. QED
    BY <2>5
<1>8. Solves(given)
  <2>. HIDE DEF Solves
  <2>. QED
    BY <1>7, Zenon
<1>. HIDE DEF given, g, m
<1>9. /\ given[0] = <<v>> /\ \A i \in 1 .. m : given[i] = Out(given[i - 1], i)
      /\ given = [i \in 0 .. m |-> given[i]]
  BY <1>1, <1>8 DEF Out
<1>. DEFINE T == {i \in 0 .. m : given[i] \in Gives}
<1>10. 0 \in T
  BY <1>1, <1>6, <1>9
<1>11. ASSUME NEW i \in 0 .. m - 1, i \in T PROVE i + 1 \in T
  <2>1. i + 1 \in 1 .. m /\ (i + 1) - 1 = i /\ i + 1 \in 0 .. m
    BY <1>1
  <2>. QED
    BY <1>3, <1>9, <1>11, <2>1
<1>12. 0 .. m \subseteq T
  <2>. HIDE DEF T
  <2>. QED
    BY <1>1, <1>10, <1>11, InductionUpTo
<1>13. given \in [0 .. m -> Gives]
  BY <1>9, <1>12
<1>14. \A i \in 1 .. length :
         given[i] = IF given[i - 1] = <<>> \/ Pipe[i] = Nil THEN <<>>
                    ELSE MatrixEnqueue(Pipe[i], given[i - 1][1]).out
  BY <1>9 DEF Out, m
<1>15. Passes(v, given)
  BY <1>2, <1>9, <1>13, <1>14, Zenon DEF Passes, m
<1>. QED
  BY <1>15

(* What happens to a matrix: x comes to it, and it gives y up.             *)
Moved(s, t, x, y) ==
  /\ t \in FilledMatrices \cup {Nil}
  /\ \A p \in Measures : Weight(p, t) + Given(p, y) = Weight(p, s) + Given(p, x)
  /\ x = <<>> => y = <<>> /\ t = s
  /\ x # <<>> =>
       /\ s # Nil /\ t # Nil
       /\ y = <<>> => t.vectors = Append(s.vectors, x[1])
       /\ y # <<>> => /\ s.vectors # <<>> /\ y = <<s.vectors[1]>>
                      /\ t.vectors = Append(Tail(s.vectors), x[1])

LEMMA PassThroughMoves ==
  ASSUME Pipe \in GoodSlices, length \in 0 .. Len(Pipe), NEW v \in GoodVectors,
         NEW g, Passes(v, g), ~ PassThrough(v).crash, NEW i \in 1 .. length
  PROVE  Moved(Pipe[i], PassThrough(v).done[i], g[i - 1], g[i])
<1>. DEFINE x == g[i - 1]
            y == g[i]
            s == Pipe[i]
            t == PassThrough(v).done[i]
            e == MatrixEnqueue(s, x[1])
<1>1. i - 1 \in 0 .. length /\ i \in 0 .. length /\ i \in 1 .. Len(Pipe) /\ length \in Nat
  BY DEF GoodSlices
<1>2. x \in Gives /\ y \in Gives
  BY <1>1 DEF Passes
<1>3. /\ y = IF x = <<>> \/ s = Nil THEN <<>> ELSE e.out
      /\ t = IF x = <<>> \/ s = Nil THEN s ELSE e.matrix
      /\ x # <<>> => s # Nil
  BY DEF Passes
<1>4. s # Nil => s \in FilledMatrices /\ s \in GoodMatrices
  BY <1>1, GoodSliceElement
<1>. HIDE DEF x, y, s, t, e
<1>5. CASE x = <<>>
  BY <1>3, <1>4, <1>5 DEF Moved, x, y, s, t
<1>6. CASE x # <<>>
  <2>1. s # Nil /\ y = e.out /\ t = e.matrix /\ s \in GoodMatrices
    BY <1>3, <1>4, <1>6
  <2>2. x[1] \in GoodVectors /\ x = <<x[1]>>
    BY <1>2, <1>6, GivenFacts
  <2>3. /\ e.matrix \in FilledMatrices
        /\ \A p \in Measures :
             p[SumOf(e.matrix.vectors)] + Given(p, e.out) = p[SumOf(s.vectors)] + p[x[1]]
        /\ e.out = <<>> => e.matrix.vectors = Append(s.vectors, x[1])
        /\ e.out # <<>> => /\ s.vectors # <<>> /\ e.out = <<s.vectors[1]>>
                           /\ e.matrix.vectors = Append(Tail(s.vectors), x[1])
    BY <2>1, <2>2, MatrixEnqueueEffect DEF e
  <2>4. t # Nil
    BY <2>1, <2>3, NilOutside DEF FilledMatrices, GoodMatrices
  <2>5. \A p \in Measures : Weight(p, t) + Given(p, y) = Weight(p, s) + Given(p, x)
    <3>1. \A p \in Measures : Given(p, x) = p[x[1]]
      BY <2>2, GivenFacts
    <3>. QED
      BY <2>1, <2>3, <2>4, <3>1 DEF Weight
  <2>. QED
    BY <1>6, <2>1, <2>3, <2>4, <2>5 DEF Moved, x, y, s, t
<1>. QED
  BY <1>5, <1>6

-----------------------------------------------------------------------------
(* The ticks of some vectors, and of an element of the pipe.               *)
TicksOf(s) == {s[a].ticks : a \in DOMAIN s}
Ages(m) == IF m = Nil THEN {} ELSE TicksOf(m.vectors)
Sorted(s) == \A a, b \in DOMAIN s : a < b => s[a].ticks < s[b].ticks

LEMMA SortedAppend ==
  ASSUME NEW s \in Seq(Vectors), Sorted(s), NEW w \in Vectors, \A x \in TicksOf(s) : x < w.ticks
  PROVE  Sorted(Append(s, w)) /\ TicksOf(Append(s, w)) \subseteq TicksOf(s) \cup {w.ticks}
<1>. DEFINE t == Append(s, w)
            n == Len(s)
<1>1. /\ n \in Nat /\ DOMAIN s = 1 .. n /\ DOMAIN t = 1 .. n + 1
      /\ \A a \in 1 .. n : t[a] = s[a]
      /\ t[n + 1] = w
  OBVIOUS
<1>. HIDE DEF t, n
<1>2. \A a \in 1 .. n : s[a].ticks < w.ticks
  BY <1>1 DEF TicksOf
<1>3. \A a, b \in 1 .. n : a < b => s[a].ticks < s[b].ticks
  BY <1>1 DEF Sorted
<1>4. \A a \in 1 .. n + 1 : a \in 1 .. n \/ a = n + 1
  BY <1>1
<1>5. Sorted(t)
  <2>. SUFFICES ASSUME NEW a \in 1 .. n + 1, NEW b \in 1 .. n + 1, a < b PROVE t[a].ticks < t[b].ticks
    BY <1>1 DEF Sorted
  <2>1. a \in 1 .. n
    BY <1>1
  <2>2. CASE b \in 1 .. n
    BY <1>1, <1>3, <2>1, <2>2
  <2>3. CASE b = n + 1
    BY <1>1, <1>2, <2>1, <2>3
  <2>. QED
    BY <1>4, <2>2, <2>3
<1>6. TicksOf(t) \subseteq TicksOf(s) \cup {w.ticks}
  BY <1>1, <1>4 DEF TicksOf
<1>. QED
  BY <1>5, <1>6 DEF t

LEMMA SortedTail ==
  ASSUME NEW s \in Seq(Vectors), Sorted(s), s # <<>>
  PROVE  /\ Tail(s) \in Seq(Vectors) /\ Sorted(Tail(s))
         /\ TicksOf(Tail(s)) \subseteq TicksOf(s)
         /\ s[1].ticks \in TicksOf(s)
         /\ \A x \in TicksOf(Tail(s)) : s[1].ticks < x
         /\ \A x \in TicksOf(s) : s[1].ticks <= x
<1>. DEFINE t == Tail(s)
            n == Len(s) - 1
<1>1. /\ n \in Nat /\ DOMAIN s = 1 .. n + 1 /\ DOMAIN t = 1 .. n
      /\ \A a \in 1 .. n : t[a] = s[a + 1]
      /\ t \in Seq(Vectors)
      /\ \A a \in 1 .. n + 1 : s[a] \in Vectors
  OBVIOUS
<1>. HIDE DEF t, n
<1>2. \A a, b \in 1 .. n + 1 : a < b => s[a].ticks < s[b].ticks
  BY <1>1 DEF Sorted
<1>3. \A a \in 1 .. n : a + 1 \in 1 .. n + 1 /\ 1 < a + 1
  BY <1>1
<1>4. 1 \in 1 .. n + 1 /\ s[1].ticks \in Nat
  BY <1>1 DEF Vectors
<1>5. Sorted(t)
  <2>. SUFFICES ASSUME NEW a \in 1 .. n, NEW b \in 1 .. n, a < b PROVE t[a].ticks < t[b].ticks
    BY <1>1 DEF Sorted
  <2>1. a + 1 < b + 1
    BY <1>1
  <2>. QED
    BY <1>1, <1>2, <1>3, <2>1
<1>6. TicksOf(t) \subseteq TicksOf(s)
  BY <1>1, <1>3 DEF TicksOf
<1>7. s[1].ticks \in TicksOf(s)
  BY <1>1, <1>4 DEF TicksOf
<1>8. \A x \in TicksOf(t) : s[1].ticks < x
  BY <1>1, <1>2, <1>3, <1>4 DEF TicksOf
<1>9. ASSUME NEW a \in 1 .. n + 1 PROVE s[1].ticks <= s[a].ticks
  <2>1. s[a].ticks \in Nat
    BY <1>1 DEF Vectors
  <2>2. a = 1 \/ 1 < a
    BY <1>1
  <2>. QED
    BY <1>2, <1>4, <2>1, <2>2
<1>10. \A x \in TicksOf(s) : s[1].ticks <= x
  BY <1>1, <1>9 DEF TicksOf
<1>. QED
  BY <1>1, <1>5, <1>6, <1>7, <1>8, <1>10 DEF t

(* Sets of ticks in a row, the later the older: one element of a set moves *)
(* to the next, the oldest, and the newest tick comes to the first.        *)
InRow(A, n, t) ==
  /\ \A i \in 1 .. n : \A x \in A[i] : x \in Int /\ x <= t
  /\ \A i, j \in 1 .. n : i > j => \A x \in A[i], y \in A[j] : x < y
HandsOn(A, B, G, n, t) ==
  /\ G[0] \subseteq {t + 1}
  /\ \A i \in 1 .. n : G[i] \subseteq A[i] /\ \A x \in G[i], y \in A[i] : x <= y
  /\ \A i \in 1 .. n : B[i] \subseteq (A[i] \cup G[i - 1]) \ G[i]

LEMMA OrderKept ==
  ASSUME NEW n \in Nat, NEW t \in Int, NEW A, NEW B, NEW G,
         InRow(A, n, t), HandsOn(A, B, G, n, t)
  PROVE  InRow(B, n, t + 1)
<1>0. /\ \A i \in 1 .. n : \A x \in A[i] : x \in Int /\ x <= t
      /\ \A i, j \in 1 .. n : i > j => \A x \in A[i], y \in A[j] : x < y
      /\ G[0] \subseteq {t + 1}
      /\ \A i \in 1 .. n : G[i] \subseteq A[i] /\ \A x \in G[i], y \in A[i] : x <= y
      /\ \A i \in 1 .. n : B[i] \subseteq (A[i] \cup G[i - 1]) \ G[i]
  BY DEF InRow, HandsOn
<1>1. ASSUME NEW i \in 1 .. n, NEW x \in G[i - 1]
      PROVE  (i = 1 /\ x = t + 1) \/ (i - 1 \in 1 .. n /\ x \in A[i - 1])
  <2>1. CASE i = 1
    BY <1>0, <1>1, <2>1
  <2>2. CASE i # 1
    <3>1. i - 1 \in 1 .. n
      BY <2>2
    <3>. QED
      BY <1>0, <1>1, <3>1
  <2>. QED
    BY <2>1, <2>2
<1>2. ASSUME NEW i \in 1 .. n, NEW x \in B[i] PROVE x \in Int /\ x <= t + 1
  <2>1. x \in A[i] \/ x \in G[i - 1]
    BY <1>0, <1>2
  <2>2. CASE x \in A[i]
    BY <1>0, <2>2
  <2>3. CASE x \in G[i - 1]
    <3>1. CASE x = t + 1
      BY <1>0, <3>1
    <3>2. CASE i - 1 \in 1 .. n /\ x \in A[i - 1]
      <4>1. x \in Int /\ x <= t
        BY <1>0, <3>2
      <4>. QED
        BY <4>1
    <3>. QED
      BY <1>1, <2>3, <3>1, <3>2
  <2>. QED
    BY <2>1, <2>2, <2>3
<1>3. ASSUME NEW i \in 1 .. n, NEW j \in 1 .. n, i > j, NEW x \in B[i], NEW y \in B[j]
      PROVE  x < y
  <2>1. (x \in A[i] \/ x \in G[i - 1]) /\ (y \in A[j] \/ y \in G[j - 1]) /\ y \notin G[j]
    BY <1>0, <1>3
  <2>2. i - 1 \in 1 .. n /\ i # 1
    BY <1>3
  <2>3. CASE x \in A[i] /\ y \in A[j]
    BY <1>0, <1>3, <2>3
  <2>4. ASSUME NEW k \in 1 .. n, x \in A[k], y \in G[j - 1], k > j - 1 PROVE x < y
    <3>1. x \in Int /\ x <= t
      BY <1>0, <2>4
    <3>2. CASE j = 1 /\ y = t + 1
      BY <3>1, <3>2
    <3>3. CASE j - 1 \in 1 .. n /\ y \in A[j - 1]
      BY <1>0, <2>4, <3>3
    <3>. QED
      BY <1>1, <2>4, <3>2, <3>3
  <2>5. CASE x \in A[i] /\ y \in G[j - 1]
    <3>1. i > j - 1
      BY <1>3
    <3>. QED
      BY <2>4, <2>5, <3>1
  <2>6. CASE x \in G[i - 1] /\ y \in A[j]
    <3>1. x \in A[i - 1]
      BY <1>0, <2>2, <2>6
    <3>2. CASE i - 1 > j
      BY <1>0, <2>2, <2>6, <3>1, <3>2
    <3>3. CASE i - 1 = j
      <4>1. x <= y /\ x # y
        BY <1>0, <2>1, <2>2, <2>6, <3>3
      <4>2. x \in Int /\ y \in Int
        BY <1>0, <2>2, <2>6, <3>1
      <4>. QED
        BY <4>1, <4>2
    <3>4. i - 1 > j \/ i - 1 = j
      BY <1>3
    <3>. QED
      BY <3>2, <3>3, <3>4
  <2>7. CASE x \in G[i - 1] /\ y \in G[j - 1]
    <3>1. x \in A[i - 1] /\ i - 1 > j - 1
      BY <1>0, <1>3, <2>2, <2>7
    <3>. QED
      BY <2>2, <2>4, <2>7, <3>1
  <2>. QED
    BY <2>1, <2>3, <2>5, <2>6, <2>7
<1>. QED
  BY <1>2, <1>3 DEF InRow

(* The measures of two slices that agree from n to k.                      *)
LEMMA TotalSame ==
  ASSUME NEW p \in Measures, NEW s \in Slices, NEW t \in Slices, NEW n \in Nat, NEW k \in Nat,
         n <= k, k <= Len(s), k <= Len(t), \A i \in n + 1 .. k : s[i] = t[i]
  PROVE  p[Total(s, k)] - p[Total(s, n)] = p[Total(t, k)] - p[Total(t, n)]
<1>. DEFINE m == k - n
            T == {i \in 0 .. m : p[Total(s, n + i)] - p[Total(s, n)] = p[Total(t, n + i)] - p[Total(t, n)]}
<1>1. m \in Nat /\ n + m = k /\ Len(s) \in Nat /\ Len(t) \in Nat
  BY DEF Slices
<1>. HIDE DEF m
<1>2. /\ \A i \in 0 .. Len(s) : p[Total(s, i)] \in Int
      /\ \A i \in 0 .. Len(t) : p[Total(t, i)] \in Int
      /\ \A i \in 1 .. Len(s) : Weight(p, s[i]) \in Int /\ p[Total(s, i)] = p[Total(s, i - 1)] + Weight(p, s[i])
      /\ \A i \in 1 .. Len(t) : Weight(p, t[i]) \in Int /\ p[Total(t, i)] = p[Total(t, i - 1)] + Weight(p, t[i])
  BY TotalWeight
<1>3. n \in 0 .. Len(s) /\ n \in 0 .. Len(t)
  BY <1>1
<1>4. p[Total(s, n)] \in Int /\ p[Total(t, n)] \in Int
  BY <1>2, <1>3
<1>5. 0 \in T
  BY <1>1, <1>4
<1>6. ASSUME NEW i \in 0 .. m - 1, i \in T PROVE i + 1 \in T
  <2>1. /\ i + 1 \in 0 .. m /\ n + (i + 1) \in n + 1 .. k /\ n + (i + 1) \in 1 .. Len(s) /\ n + (i + 1) \in 1 .. Len(t)
        /\ (n + (i + 1)) - 1 = n + i /\ n + i \in 0 .. Len(s) /\ n + i \in 0 .. Len(t)
    BY <1>1
  <2>. DEFINE a == p[Total(s, n + i)]  b == p[Total(t, n + i)]
              c == p[Total(s, n)]  d == p[Total(t, n)]  w == Weight(p, s[n + (i + 1)])
  <2>2. a \in Int /\ b \in Int /\ c \in Int /\ d \in Int /\ w \in Int /\ a - c = b - d
    BY <1>2, <1>4, <1>6, <2>1
  <2>3. p[Total(s, n + (i + 1))] = a + w
    BY <1>2, <2>1
  <2>4. p[Total(t, n + (i + 1))] = b + w
    <3>1. s[n + (i + 1)] = t[n + (i + 1)]
      BY <2>1
    <3>. QED
      BY <1>2, <2>1, <3>1
  <2>. HIDE DEF a, b, c, d, w
  <2>5. (a + w) - c = (b + w) - d
    BY <2>2
  <2>. QED
    BY <2>1, <2>3, <2>4, <2>5 DEF c, d
<1>7. m \in T
  <2>1. 0 .. m \subseteq T
    <3>. HIDE DEF T
    <3>. QED
      BY <1>1, <1>5, <1>6, InductionUpTo
  <2>. QED
    BY <1>1, <2>1
<1>. QED
  BY <1>1, <1>7

(* The vectors of a slice are in the order of their ticks, up to t.        *)
Ordered(s, t) ==
  /\ \A i \in 1 .. Len(s) : s[i] # Nil => Sorted(s[i].vectors)
  /\ \A i \in 1 .. Len(s) : \A x \in Ages(s[i]) : x \in Int /\ x <= t
  /\ \A i, j \in 1 .. Len(s) : i > j => \A x \in Ages(s[i]), y \in Ages(s[j]) : x < y

(* The matrices up to the length have moved on by g; those beyond are as   *)
(* before, or one was appended there.                                      *)
Shifted(N, g) ==
  /\ N \in GoodSlices /\ Len(N) >= Len(Pipe)
  /\ \A i \in 1 .. length : Moved(Pipe[i], N[i], g[i - 1], g[i])
  /\ \A i \in length + 1 .. Len(N) :
       \/ N[i] = Nil
       \/ i \in 1 .. Len(Pipe) /\ N[i] = Pipe[i]
       \/ i = length + 1 /\ g[length] # <<>> /\ N[i].vectors = <<g[length][1]>>

LEMMA SliceVectors ==
  ASSUME NEW s \in GoodSlices, NEW i \in 1 .. Len(s), s[i] # Nil
  PROVE  s[i].vectors \in Seq(Vectors) /\ Ages(s[i]) = TicksOf(s[i].vectors)
BY GoodSliceElement, GoodMatrixFacts DEF Ages

(* One matrix that moves on.                                               *)
InStep(s, t, x, y) ==
  /\ t # Nil => Sorted(t.vectors)
  /\ y # <<>> => /\ x # <<>> /\ y[1].ticks \in Ages(s) /\ y[1].ticks \notin Ages(t)
                 /\ \A a \in Ages(s) : y[1].ticks <= a
  /\ x = <<>> => Ages(t) \subseteq Ages(s)
  /\ x # <<>> => Ages(t) \subseteq Ages(s) \cup {x[1].ticks}

LEMMA MovedOrder ==
  ASSUME NEW s, NEW t, NEW x \in Gives, NEW y, Moved(s, t, x, y),
         s # Nil => s.vectors \in Seq(Vectors) /\ Sorted(s.vectors),
         x # <<>> => \A a \in Ages(s) : a < x[1].ticks
  PROVE  InStep(s, t, x, y)
<1>1. CASE x = <<>>
  BY <1>1 DEF Moved, InStep
<1>2. CASE x # <<>> /\ y = <<>>
  <2>1. s # Nil /\ t # Nil /\ t.vectors = Append(s.vectors, x[1])
    BY <1>2 DEF Moved
  <2>2. x[1] \in Vectors
    BY <1>2, GivenFacts DEF GoodVectors
  <2>3. s.vectors \in Seq(Vectors) /\ Sorted(s.vectors) /\ \A a \in TicksOf(s.vectors) : a < x[1].ticks
    BY <1>2, <2>1 DEF Ages
  <2>4. Sorted(t.vectors) /\ TicksOf(t.vectors) \subseteq TicksOf(s.vectors) \cup {x[1].ticks}
    BY <2>1, <2>2, <2>3, SortedAppend
  <2>. QED
    BY <1>2, <2>1, <2>4 DEF Ages, InStep
<1>3. CASE x # <<>> /\ y # <<>>
  <2>. DEFINE r == s.vectors
              w == x[1]
  <2>1. s # Nil /\ t # Nil /\ r # <<>> /\ y = <<r[1]>> /\ t.vectors = Append(Tail(r), w)
    BY <1>3 DEF Moved
  <2>2. w \in Vectors
    BY <1>3, GivenFacts DEF GoodVectors
  <2>3. r \in Seq(Vectors) /\ Sorted(r) /\ \A a \in TicksOf(r) : a < w.ticks
    BY <1>3, <2>1 DEF Ages
  <2>. HIDE DEF r, w
  <2>4. /\ Tail(r) \in Seq(Vectors) /\ Sorted(Tail(r)) /\ TicksOf(Tail(r)) \subseteq TicksOf(r)
        /\ r[1].ticks \in TicksOf(r)
        /\ \A a \in TicksOf(Tail(r)) : r[1].ticks < a
        /\ \A a \in TicksOf(r) : r[1].ticks <= a
    BY <2>1, <2>3, SortedTail
  <2>5. /\ Sorted(Append(Tail(r), w))
        /\ TicksOf(Append(Tail(r), w)) \subseteq TicksOf(Tail(r)) \cup {w.ticks}
    BY <2>2, <2>3, <2>4, SortedAppend
  <2>6. r[1] \in Vectors
    BY <2>1, <2>3
  <2>7. r[1].ticks \in Nat
    BY <2>6 DEF Vectors
  <2>8. r[1].ticks \notin TicksOf(Append(Tail(r), w))
    <3>1. r[1].ticks < w.ticks
      BY <2>3, <2>4
    <3>2. ~ (r[1].ticks < r[1].ticks)
      BY <2>7
    <3>3. r[1].ticks \notin TicksOf(Tail(r)) /\ r[1].ticks # w.ticks
      BY <2>4, <3>1, <3>2
    <3>. QED
      BY <2>5, <3>3
  <2>9. y[1] = r[1]
    BY <2>1
  <2>10. Ages(s) = TicksOf(r) /\ Ages(t) = TicksOf(Append(Tail(r), w))
    BY <2>1 DEF Ages, r
  <2>. QED
    BY <1>3, <2>1, <2>4, <2>5, <2>8, <2>9, <2>10 DEF w, InStep
<1>. QED
  BY <1>1, <1>2, <1>3

LEMMA ShiftedOrdered ==
  ASSUME Pipe \in GoodSlices, length \in 0 .. Len(Pipe), ticks \in Nat,
         Ordered(Pipe, ticks), NEW v \in GoodVectors, v.ticks = ticks + 1,
         NEW g, Passes(v, g), NEW N, Shifted(N, g)
  PROVE  Ordered(N, ticks + 1)
<1>. DEFINE n == Len(N)
            A == [i \in 1 .. n |-> IF i \in 1 .. Len(Pipe) THEN Ages(Pipe[i]) ELSE {}]
            B == [i \in 1 .. n |-> Ages(N[i])]
            G == [i \in 0 .. n |-> IF i <= length /\ g[i] # <<>> THEN {g[i][1].ticks} ELSE {}]
<1>1. /\ n \in Nat /\ Len(Pipe) \in Nat /\ length \in Nat /\ length <= Len(Pipe) /\ Len(Pipe) <= n
      /\ N \in GoodSlices
  BY DEF Shifted, GoodSlices
<1>2. \A i \in 0 .. length : g[i] \in Gives
  BY DEF Passes
<1>3. g[0] = <<v>> /\ g[0] # <<>> /\ g[0][1] = v
  BY DEF Passes
<1>4. /\ \A i \in 1 .. Len(Pipe) : Pipe[i] # Nil => Sorted(Pipe[i].vectors)
      /\ \A i \in 1 .. Len(Pipe) : \A x \in Ages(Pipe[i]) : x \in Int /\ x <= ticks
      /\ \A i, j \in 1 .. Len(Pipe) : i > j => \A x \in Ages(Pipe[i]), y \in Ages(Pipe[j]) : x < y
  BY DEF Ordered
<1>5. \A i \in 1 .. length : Moved(Pipe[i], N[i], g[i - 1], g[i])
  BY DEF Shifted
(* What the i-th gives up is one of its own, and older than what is before. *)
<1>6. ASSUME NEW i \in 1 .. length, g[i] # <<>> PROVE g[i][1].ticks \in Ages(Pipe[i])
  <2>1. Moved(Pipe[i], N[i], g[i - 1], g[i])
    BY <1>5
  <2>2. Pipe[i] # Nil /\ Pipe[i].vectors # <<>> /\ g[i] = <<Pipe[i].vectors[1]>>
    BY <1>6, <2>1 DEF Moved
  <2>3. i \in 1 .. Len(Pipe)
    BY <1>1
  <2>4. Pipe[i].vectors \in Seq(Vectors) /\ Ages(Pipe[i]) = TicksOf(Pipe[i].vectors)
    BY <2>2, <2>3, SliceVectors
  <2>5. Pipe[i].vectors[1].ticks \in TicksOf(Pipe[i].vectors)
    BY <2>2, <2>4 DEF TicksOf
  <2>6. g[i][1] = Pipe[i].vectors[1]
    BY <2>2
  <2>. QED
    BY <2>4, <2>5, <2>6
<1>7. ASSUME NEW i \in 0 .. length, g[i] # <<>>, NEW j \in 1 .. Len(Pipe), j > i, NEW x \in Ages(Pipe[j])
      PROVE  x < g[i][1].ticks
  <2>1. CASE i = 0
    <3>1. x \in Int /\ x <= ticks
      BY <1>4
    <3>2. x < ticks + 1
      BY <3>1
    <3>. QED
      BY <1>3, <2>1, <3>2
  <2>2. CASE i # 0
    <3>1. i \in 1 .. length /\ i \in 1 .. Len(Pipe)
      BY <1>1, <2>2
    <3>2. g[i][1].ticks \in Ages(Pipe[i])
      BY <1>6, <1>7, <3>1
    <3>. QED
      BY <1>4, <1>7, <3>1, <3>2
  <2>. QED
    BY <2>1, <2>2
<1>8. ASSUME NEW i \in 1 .. length PROVE InStep(Pipe[i], N[i], g[i - 1], g[i])
  <2>1. i \in 1 .. Len(Pipe) /\ i - 1 \in 0 .. length /\ i > i - 1
    BY <1>1
  <2>2. Moved(Pipe[i], N[i], g[i - 1], g[i]) /\ g[i - 1] \in Gives
    BY <1>2, <1>5, <2>1
  <2>3. Pipe[i] # Nil => Pipe[i].vectors \in Seq(Vectors) /\ Sorted(Pipe[i].vectors)
    BY <1>4, <2>1, SliceVectors
  <2>4. g[i - 1] # <<>> => \A a \in Ages(Pipe[i]) : a < g[i - 1][1].ticks
    BY <1>7, <2>1
  <2>. QED
    BY <2>2, <2>3, <2>4, MovedOrder, Zenon
<1>9. ASSUME NEW i \in length + 1 .. n
      PROVE  /\ N[i] # Nil => Sorted(N[i].vectors)
             /\ B[i] \subseteq (A[i] \cup G[i - 1]) \ G[i]
  <2>0. i \in 1 .. n /\ ~ (i <= length) /\ i \in 0 .. n /\ i - 1 \in 0 .. n
    BY <1>1
  <2>1. G[i] = {}
    BY <2>0
  <2>2. CASE N[i] = Nil
    BY <2>0, <2>1, <2>2 DEF Ages
  <2>3. CASE i \in 1 .. Len(Pipe) /\ N[i] = Pipe[i]
    BY <1>4, <2>0, <2>1, <2>3
  <2>4. CASE i = length + 1 /\ g[length] # <<>> /\ N[i].vectors = <<g[length][1]>>
    <3>1. DOMAIN <<g[length][1]>> = {1}
      OBVIOUS
    <3>2. Sorted(N[i].vectors) /\ TicksOf(N[i].vectors) = {g[length][1].ticks}
      BY <2>4, <3>1 DEF Sorted, TicksOf
    <3>3. i - 1 = length
      BY <1>1, <2>4
    <3>4. G[i - 1] = {g[length][1].ticks}
      BY <1>1, <2>0, <2>4, <3>3
    <3>5. B[i] \subseteq {g[length][1].ticks}
      BY <2>0, <3>2 DEF Ages
    <3>. HIDE DEF A, B, G
    <3>. QED
      BY <2>1, <3>2, <3>4, <3>5
  <2>5. \/ N[i] = Nil
        \/ i \in 1 .. Len(Pipe) /\ N[i] = Pipe[i]
        \/ i = length + 1 /\ g[length] # <<>> /\ N[i].vectors = <<g[length][1]>>
    BY Zenon DEF Shifted
  <2>. QED
    BY <2>2, <2>3, <2>4, <2>5
<1>10. ASSUME NEW i \in 1 .. length
       PROVE  /\ B[i] \subseteq (A[i] \cup G[i - 1]) \ G[i]
              /\ G[i] \subseteq A[i] /\ \A x \in G[i], y \in A[i] : x <= y
  <2>1. i \in 1 .. Len(Pipe) /\ i \in 1 .. n /\ i \in 0 .. n /\ i - 1 \in 0 .. n /\ i <= length /\ i - 1 <= length
    BY <1>1
  <2>2. /\ A[i] = Ages(Pipe[i]) /\ B[i] = Ages(N[i])
        /\ G[i] = IF g[i] # <<>> THEN {g[i][1].ticks} ELSE {}
        /\ G[i - 1] = IF g[i - 1] # <<>> THEN {g[i - 1][1].ticks} ELSE {}
    BY <2>1
  <2>3. /\ g[i] # <<>> => /\ g[i - 1] # <<>> /\ g[i][1].ticks \in Ages(Pipe[i])
                          /\ g[i][1].ticks \notin Ages(N[i])
                          /\ \A a \in Ages(Pipe[i]) : g[i][1].ticks <= a
        /\ g[i - 1] = <<>> => Ages(N[i]) \subseteq Ages(Pipe[i])
        /\ g[i - 1] # <<>> => Ages(N[i]) \subseteq Ages(Pipe[i]) \cup {g[i - 1][1].ticks}
    BY <1>8 DEF InStep
  <2>. HIDE DEF A, B, G
  <2>4. CASE g[i] = <<>>
    <3>1. G[i] = {}
      BY <2>2, <2>4
    <3>2. B[i] \subseteq A[i] \cup G[i - 1]
      BY <2>2, <2>3
    <3>. QED
      BY <3>1, <3>2
  <2>5. CASE g[i] # <<>>
    <3>1. g[i - 1] # <<>>
      BY <2>3, <2>5
    <3>2. G[i] = {g[i][1].ticks} /\ G[i - 1] = {g[i - 1][1].ticks}
      BY <2>2, <2>5, <3>1
    <3>3. B[i] \subseteq A[i] \cup G[i - 1] /\ g[i][1].ticks \notin B[i]
      BY <2>2, <2>3, <2>5, <3>1, <3>2
    <3>4. g[i][1].ticks \in A[i] /\ \A a \in A[i] : g[i][1].ticks <= a
      BY <2>2, <2>3, <2>5
    <3>. QED
      BY <3>2, <3>3, <3>4
  <2>. QED
    BY <2>4, <2>5
<1>11. \A i \in 1 .. n : i \in 1 .. length \/ i \in length + 1 .. n
  BY <1>1
<1>12. \A i \in 1 .. n : B[i] \subseteq (A[i] \cup G[i - 1]) \ G[i]
  BY <1>9, <1>10, <1>11
<1>13. \A i \in length + 1 .. n : G[i] = {}
  BY <1>1
<1>14. \A i \in 1 .. n : G[i] \subseteq A[i] /\ \A x \in G[i], y \in A[i] : x <= y
  BY <1>10, <1>11, <1>13
<1>15. G[0] \subseteq {ticks + 1}
  BY <1>1, <1>3
<1>16. \A i \in 1 .. n : \A x \in A[i] : x \in Int /\ x <= ticks
  BY <1>4
<1>17. \A i, j \in 1 .. n : i > j => \A x \in A[i], y \in A[j] : x < y
  BY <1>4
<1>18. InRow(B, n, ticks + 1)
  <2>. HIDE DEF A, B, G, n
  <2>1. InRow(A, n, ticks)
    BY <1>16, <1>17, Zenon DEF InRow
  <2>2. HandsOn(A, B, G, n, ticks)
    BY <1>12, <1>14, <1>15, Zenon DEF HandsOn
  <2>3. ticks \in Int
    OBVIOUS
  <2>. QED
    BY <1>1, <2>1, <2>2, <2>3, OrderKept
<1>19. \A i \in 1 .. n : N[i] # Nil => Sorted(N[i].vectors)
  BY <1>8, <1>9, <1>11 DEF InStep
<1>20. \A i \in 1 .. n : B[i] = Ages(N[i])
  OBVIOUS
<1>. QED
  BY <1>18, <1>19, <1>20 DEF Ordered, InRow

-----------------------------------------------------------------------------
LEMMA HitsGrow ==
  ASSUME NEW s \in GoodSlices
  PROVE  s \in Slices /\ Grows(HitsOf, s)
<1>1. s \in Slices
  <2>1. FilledMatrices \subseteq Matrices
    BY DEF FilledMatrices, GoodMatrices
  <2>2. FilledMatrices \cup {Nil} \subseteq Matrices \cup {Nil}
    BY <2>1
  <2>. HIDE DEF FilledMatrices
  <2>. QED
    BY <2>2 DEF GoodSlices, Slices
<1>2. ASSUME NEW i \in 1 .. Len(s) PROVE Weight(HitsOf, s[i]) >= 0
  <2>1. CASE s[i] = Nil
    BY <2>1 DEF Weight
  <2>2. CASE s[i] # Nil
    <3>1. s[i].vectors \in Seq(Vectors)
      BY <2>2, SliceVectors
    <3>2. SumOf(s[i].vectors) \in Counted /\ SumOf(s[i].vectors).hits >= 0
      BY <3>1, SumHits, SumCounted
    <3>3. Weight(HitsOf, s[i]) = SumOf(s[i].vectors).hits
      BY <2>2, <3>2 DEF Weight, HitsOf
    <3>. QED
      BY <3>2, <3>3
  <2>. QED
    BY <2>1, <2>2
<1>. QED
  BY <1>1, <1>2 DEF Grows

LEMMA ShiftedTotal ==
  ASSUME Pipe \in GoodSlices, length \in 0 .. Len(Pipe), NEW v \in GoodVectors,
         NEW g, Passes(v, g), NEW N, Shifted(N, g), NEW p \in Measures
  PROVE  /\ p[Total(N, length)] + Given(p, g[length]) = p[Total(Pipe, length)] + p[v]
         /\ p[Total(N, length)] \in Int /\ Given(p, g[length]) \in Int
         /\ p[Total(Pipe, length)] \in Int /\ p[v] \in Int
<1>. DEFINE h == [i \in 0 .. length |-> Given(p, g[i])]
<1>1. /\ Len(N) \in Nat /\ Len(Pipe) \in Nat /\ length \in Nat
      /\ length <= Len(Pipe) /\ length <= Len(N) /\ N \in GoodSlices
  BY DEF Shifted, GoodSlices
<1>2. N \in Slices /\ Pipe \in Slices
  BY <1>1, HitsGrow
<1>3. \A x \in Gives : Given(p, x) \in Int
  <2>. SUFFICES ASSUME NEW x \in Gives PROVE Given(p, x) \in Int
    OBVIOUS
  <2>1. CASE x = <<>>
    BY <2>1, GivenFacts
  <2>2. CASE x # <<>>
    <3>1. x = <<x[1]>> /\ x[1] \in Counted
      BY <2>2, GivenFacts, GoodVectorsSane
    <3>2. Given(p, x) = p[x[1]]
      BY <3>1, GivenFacts
    <3>. QED
      BY <3>1, <3>2, MeasureLaws
  <2>. QED
    BY <2>1, <2>2
<1>4. \A i \in 0 .. length : g[i] \in Gives
  BY DEF Passes
<1>5. h \in [0 .. length -> Int]
  BY <1>3, <1>4
<1>6. \A i \in 0 .. length : h[i] = Given(p, g[i])
  OBVIOUS
<1>7. h[0] = p[v]
  <2>1. g[0] = <<v>> /\ 0 \in 0 .. length
    BY <1>1 DEF Passes
  <2>2. <<v>> # <<>> /\ <<v>>[1] = v
    OBVIOUS
  <2>3. h[0] = Given(p, <<v>>)
    BY <1>6, <2>1
  <2>. QED
    BY <2>2, <2>3 DEF Given
<1>. HIDE DEF h
<1>8. Carries(p, Pipe, N, h, length)
  <2>. SUFFICES ASSUME NEW i \in 1 .. length
                PROVE  Weight(p, N[i]) + h[i] = Weight(p, Pipe[i]) + h[i - 1]
    BY DEF Carries
  <2>1. i \in 0 .. length /\ i - 1 \in 0 .. length
    BY <1>1
  <2>2. Moved(Pipe[i], N[i], g[i - 1], g[i])
    BY DEF Shifted
  <2>. QED
    BY <1>6, <2>1, <2>2 DEF Moved
<1>9. p[Total(N, length)] + h[length] = p[Total(Pipe, length)] + h[0]
  BY <1>1, <1>2, <1>5, <1>8, Transport
<1>10. length \in 0 .. length /\ length \in 0 .. Len(N) /\ length \in 0 .. Len(Pipe)
  BY <1>1
<1>11. p[Total(N, length)] \in Int /\ p[Total(Pipe, length)] \in Int
  BY <1>2, <1>10, TotalWeight
<1>12. p[v] \in Int
  BY GoodVectorsSane, MeasureLaws
<1>. QED
  BY <1>3, <1>4, <1>6, <1>7, <1>9, <1>10, <1>11, <1>12

(* The pipe after a tick that appends nothing.                             *)
LEMMA KeptShifted ==
  ASSUME Pipe \in GoodSlices, length \in 0 .. Len(Pipe), NEW v \in GoodVectors,
         NEW g, Passes(v, g), ~ PassThrough(v).crash
  PROVE  LET N == Kept(PassThrough(v).done) IN
         /\ Shifted(N, g) /\ Len(N) = Len(Pipe) /\ \A i \in length + 1 .. Len(Pipe) : N[i] = Pipe[i]
<1>. DEFINE done == PassThrough(v).done
            N == Kept(done)
<1>. HIDE DEF done
<1>1. Len(Pipe) \in Nat /\ DOMAIN Pipe = 1 .. Len(Pipe) /\ length \in Nat /\ length <= Len(Pipe)
  BY DEF GoodSlices
<1>2. N = [i \in 1 .. Len(Pipe) |-> IF i <= length THEN done[i] ELSE Pipe[i]]
  BY <1>1 DEF Kept
<1>. HIDE DEF N
<1>3. \A i \in 1 .. length : N[i] = done[i]
  BY <1>1, <1>2
<1>4. \A i \in length + 1 .. Len(Pipe) : N[i] = Pipe[i]
  BY <1>1, <1>2
<1>5. \A i \in 1 .. length : Moved(Pipe[i], N[i], g[i - 1], g[i])
  BY <1>3, PassThroughMoves DEF done
<1>6. \A i \in 1 .. Len(Pipe) : N[i] \in FilledMatrices \cup {Nil}
  <2>1. \A i \in 1 .. length : N[i] \in FilledMatrices \cup {Nil}
    BY <1>5 DEF Moved
  <2>2. \A i \in 1 .. Len(Pipe) : Pipe[i] \in FilledMatrices \cup {Nil}
    BY GoodSliceElement
  <2>3. \A i \in 1 .. Len(Pipe) : i \in 1 .. length \/ i \in length + 1 .. Len(Pipe)
    BY <1>1
  <2>. QED
    BY <1>4, <2>1, <2>2, <2>3
<1>7. N \in GoodSlices /\ Len(N) = Len(Pipe)
  <2>. HIDE DEF FilledMatrices
  <2>1. N = [i \in 1 .. Len(Pipe) |-> N[i]]
    BY <1>2
  <2>2. N \in [1 .. Len(Pipe) -> FilledMatrices \cup {Nil}]
    BY <1>6, <2>1
  <2>. QED
    BY <1>1, <2>2 DEF GoodSlices
<1>8. Len(N) >= Len(Pipe) /\ \A i \in length + 1 .. Len(N) : i \in 1 .. Len(Pipe) /\ N[i] = Pipe[i]
  BY <1>1, <1>4, <1>7
<1>9. Shifted(N, g)
  BY <1>5, <1>7, <1>8, Zenon DEF Shifted
<1>. QED
  BY <1>4, <1>7, <1>9 DEF N, done

(* A matrix of one vector. *)
LEMMA FreshMatrix ==
  ASSUME NEW w \in GoodVectors
  PROVE  LET m == MatrixEnqueue(Matrix(<<>>, Zero), w).matrix IN
         /\ m \in FilledMatrices /\ m # Nil /\ m.vectors = <<w>>
         /\ \A p \in Measures : Weight(p, m) = p[w]
<1>. DEFINE z == Matrix(<<>>, Zero)
            e == MatrixEnqueue(z, w)
<1>1. z.vectors = <<>> /\ z.cumulative = Zero /\ z = [vectors |-> <<>>, cumulative |-> Zero]
  BY DEF Matrix
<1>2. <<>> \in Seq(Vectors) /\ <<>> \in Seq(GoodVectors) /\ <<>> \in Seq(Counted) /\ Len(<<>>) = 0
  OBVIOUS
<1>3. SumOf(<<>>) = Zero
  BY <1>2, SumStep DEF SumOf
<1>4. z \in Matrices
  BY <1>1, <1>2, ZeroFields DEF Matrices
<1>5. Exact(z)
  BY <1>1, <1>3, ZeroFields DEF Exact, SameCounts, NoMore
<1>6. Len(z.vectors) <= MatrixLength
  BY <1>1, <1>2, EventPipeAssumption
<1>. HIDE DEF z
<1>7. z \in GoodMatrices
  BY <1>1, <1>2, <1>4, <1>5, <1>6 DEF GoodMatrices
<1>8. /\ e.matrix \in FilledMatrices /\ e.out \in Gives
      /\ \A p \in Measures :
           p[SumOf(e.matrix.vectors)] + Given(p, e.out) = p[SumOf(z.vectors)] + p[w]
      /\ e.out = <<>> => e.matrix.vectors = Append(z.vectors, w)
      /\ e.out # <<>> => z.vectors # <<>>
  BY <1>7, MatrixEnqueueEffect
<1>. HIDE DEF e
<1>9. e.out = <<>> /\ e.matrix.vectors = Append(<<>>, w)
  BY <1>1, <1>8
<1>10. e.matrix.vectors = <<w>>
  BY <1>9
<1>11. e.matrix # Nil
  BY <1>8, NilOutside DEF FilledMatrices, GoodMatrices
<1>12. ASSUME NEW p \in Measures PROVE Weight(p, e.matrix) = p[w]
  <2>1. p[SumOf(e.matrix.vectors)] + 0 = p[Zero] + p[w]
    BY <1>1, <1>3, <1>8, <1>9, GivenFacts
  <2>2. e.matrix.vectors \in Seq(Counted)
    BY <1>8, GoodMatrixFacts DEF FilledMatrices
  <2>3. p[SumOf(e.matrix.vectors)] \in Int /\ p[w] \in Int /\ p[Zero] = 0
    BY <2>2, SumCounted, GoodVectorsSane, MeasureLaws
  <2>. QED
    BY <1>11, <2>1, <2>3 DEF Weight
<1>. QED
  BY <1>8, <1>10, <1>11, <1>12 DEF e, z

(* The pipe after a tick that appends a matrix.                            *)
LEMMA AppendedShifted ==
  ASSUME Pipe \in GoodSlices, length \in 0 .. Len(Pipe), NEW v \in GoodVectors,
         NEW g, Passes(v, g), ~ PassThrough(v).crash, g[length] # <<>>
  PROVE  LET m == MatrixEnqueue(Matrix(<<>>, Zero), g[length][1]).matrix
             N == Appended(PassThrough(v).done, m)
         IN  /\ Shifted(N, g) /\ length + 1 <= Len(N) /\ N[length + 1] = m
             /\ length < Len(Pipe) => Len(N) = Len(Pipe)
             /\ \A i \in length + 2 .. Len(N) : N[i] = IF i <= Len(Pipe) THEN Pipe[i] ELSE Nil
<1>. DEFINE done == PassThrough(v).done
            K == Kept(done)
            m == MatrixEnqueue(Matrix(<<>>, Zero), g[length][1]).matrix
            n == IF length < Len(Pipe) THEN Len(Pipe) ELSE IF length = 0 THEN 1 ELSE 2 * length
            N == Appended(done, m)
<1>1. Len(Pipe) \in Nat /\ DOMAIN Pipe = 1 .. Len(Pipe) /\ length \in Nat /\ length <= Len(Pipe)
  BY DEF GoodSlices
<1>2. /\ Shifted(K, g) /\ Len(K) = Len(Pipe) /\ \A i \in length + 1 .. Len(Pipe) : K[i] = Pipe[i]
  BY KeptShifted
<1>3. m \in FilledMatrices /\ m # Nil /\ m.vectors = <<g[length][1]>>
  <2>1. g[length] \in Gives
    BY <1>1 DEF Passes
  <2>2. g[length][1] \in GoodVectors
    BY <2>1, GivenFacts
  <2>. QED
    BY <2>2, FreshMatrix
<1>0. Len(Pipe) \in Nat /\ length \in Nat /\ length <= Len(Pipe)
  BY <1>1
<1>4. n \in Nat /\ n >= length + 1 /\ n >= Len(Pipe) /\ (length < Len(Pipe) => n = Len(Pipe))
  <2>1. CASE length < Len(Pipe)
    BY <1>0, <2>1
  <2>2. CASE ~ (length < Len(Pipe)) /\ length = 0
    BY <1>0, <2>2
  <2>3. CASE ~ (length < Len(Pipe)) /\ length # 0
    BY <1>0, <2>3
  <2>. QED
    BY <2>1, <2>2, <2>3
<1>5. N = [i \in 1 .. n |-> IF i = length + 1 THEN m ELSE IF i \in 1 .. Len(Pipe) THEN K[i] ELSE Nil]
  BY <1>1 DEF Appended
<1>. HIDE DEF K, m, N, n
<1>6. \A i \in 1 .. Len(Pipe) : K[i] \in FilledMatrices \cup {Nil}
  BY <1>2, GoodSliceElement DEF Shifted
<1>7. N \in GoodSlices /\ Len(N) = n
  <2>. HIDE DEF FilledMatrices
  <2>1. N \in [1 .. n -> FilledMatrices \cup {Nil}]
    BY <1>3, <1>5, <1>6
  <2>. QED
    BY <1>4, <2>1 DEF GoodSlices
<1>8. N[length + 1] = m
  <2>1. length + 1 \in 1 .. n
    BY <1>0, <1>4
  <2>. QED
    BY <1>5, <2>1
<1>9. ASSUME NEW i \in length + 2 .. n PROVE N[i] = IF i <= Len(Pipe) THEN Pipe[i] ELSE Nil
  <2>1. i \in 1 .. n /\ i # length + 1
    BY <1>0, <1>4
  <2>2. CASE i <= Len(Pipe)
    <3>1. i \in 1 .. Len(Pipe) /\ i \in length + 1 .. Len(Pipe)
      BY <1>1, <2>2
    <3>. QED
      BY <1>2, <1>5, <2>1, <2>2, <3>1
  <2>3. CASE ~ (i <= Len(Pipe))
    <3>1. i \notin 1 .. Len(Pipe)
      BY <1>1, <2>3
    <3>. QED
      BY <1>5, <2>1, <2>3, <3>1
  <2>. QED
    BY <2>2, <2>3
<1>10. ASSUME NEW i \in 1 .. length PROVE Moved(Pipe[i], N[i], g[i - 1], g[i])
  <2>1. i \in 1 .. n /\ i # length + 1 /\ i \in 1 .. Len(Pipe)
    BY <1>0, <1>4
  <2>2. N[i] = K[i]
    BY <1>5, <2>1
  <2>3. Moved(Pipe[i], K[i], g[i - 1], g[i])
    BY <1>2 DEF Shifted
  <2>. QED
    BY <2>2, <2>3
<1>11. ASSUME NEW i \in length + 1 .. Len(N)
       PROVE  \/ N[i] = Nil
              \/ i \in 1 .. Len(Pipe) /\ N[i] = Pipe[i]
              \/ i = length + 1 /\ g[length] # <<>> /\ N[i].vectors = <<g[length][1]>>
  <2>1. i = length + 1 \/ i \in length + 2 .. n
    BY <1>1, <1>7
  <2>2. CASE i = length + 1
    BY <1>3, <1>8, <2>2
  <2>3. CASE i \in length + 2 .. n
    <3>1. i <= Len(Pipe) => i \in 1 .. Len(Pipe)
      BY <1>1, <2>3
    <3>. QED
      BY <1>9, <2>3, <3>1
  <2>. QED
    BY <2>1, <2>2, <2>3
<1>12. Shifted(N, g)
  BY <1>4, <1>7, <1>10, <1>11, Zenon DEF Shifted
<1>. QED
  BY <1>4, <1>7, <1>8, <1>9, <1>12 DEF N, m, done

LEMMA MeasureMinus ==
  ASSUME NEW p \in Measures, NEW a \in Counted, NEW b \in Counted
  PROVE  p[a] \in Int /\ p[b] \in Int /\ p[Combine(a, b, -1)] = p[a] - p[b]
BY DEF Measures

(* What a tick does to the counts of the pipe: v enters, x leaves; of what *)
(* lies beyond the length something may be overwritten.                    *)
Flows(N, n, x, v) ==
  /\ \A p \in Measures : p[Total(N, n)] + Given(p, x) = p[Total(Pipe, length)] + p[v]
  /\ HitsOf[Total(N, Len(N))] + Given(HitsOf, x) <= HitsOf[Total(Pipe, Len(Pipe))] + HitsOf[v]

LEMMA KeptFlows ==
  ASSUME Pipe \in GoodSlices, length \in 0 .. Len(Pipe), NEW v \in GoodVectors,
         NEW g, Passes(v, g), ~ PassThrough(v).crash
  PROVE  Flows(Kept(PassThrough(v).done), length, g[length], v)
<1>. DEFINE N == Kept(PassThrough(v).done)
            H == HitsOf
            k == Len(Pipe)
<1>1. Shifted(N, g) /\ Len(N) = k /\ \A i \in length + 1 .. k : N[i] = Pipe[i]
  BY KeptShifted
<1>. HIDE DEF N
<1>2. k \in Nat /\ length \in Nat /\ length <= k /\ k \in 0 .. k
  BY DEF GoodSlices
<1>3. N \in Slices /\ Pipe \in Slices /\ H \in Measures
  BY <1>1, HitsGrow, MeasuresKnown DEF Shifted
<1>4. \A p \in Measures : p[Total(N, length)] + Given(p, g[length]) = p[Total(Pipe, length)] + p[v]
  BY <1>1, ShiftedTotal
<1>5. H[Total(N, k)] - H[Total(N, length)] = H[Total(Pipe, k)] - H[Total(Pipe, length)]
  BY <1>1, <1>2, <1>3, TotalSame
<1>6. /\ H[Total(N, length)] + Given(H, g[length]) = H[Total(Pipe, length)] + H[v]
      /\ H[Total(N, length)] \in Int /\ Given(H, g[length]) \in Int
      /\ H[Total(Pipe, length)] \in Int /\ H[v] \in Int
  BY <1>1, <1>3, ShiftedTotal
<1>7. H[Total(N, k)] \in Int /\ H[Total(Pipe, k)] \in Int
  BY <1>1, <1>2, <1>3, TotalWeight
<1>8. H[Total(N, k)] + Given(H, g[length]) <= H[Total(Pipe, k)] + H[v]
  <2>. DEFINE a == H[Total(N, k)]  b == H[Total(N, length)]  c == H[Total(Pipe, k)]
              d == H[Total(Pipe, length)]  x == Given(H, g[length])  y == H[v]
  <2>1. a \in Int /\ b \in Int /\ c \in Int /\ d \in Int /\ x \in Int /\ y \in Int
        /\ a - b = c - d /\ b + x = d + y
    BY <1>5, <1>6, <1>7
  <2>. HIDE DEF a, b, c, d, x, y
  <2>2. a + x <= c + y
    BY <2>1
  <2>. QED
    BY <2>2 DEF a, c, x, y
<1>. QED
  BY <1>1, <1>4, <1>8 DEF Flows, N

LEMMA AppendedFlows ==
  ASSUME Pipe \in GoodSlices, length \in 0 .. Len(Pipe), NEW v \in GoodVectors,
         NEW g, Passes(v, g), ~ PassThrough(v).crash, g[length] # <<>>
  PROVE  LET m == MatrixEnqueue(Matrix(<<>>, Zero), g[length][1]).matrix
         IN  Flows(Appended(PassThrough(v).done, m), length + 1, <<>>, v)
<1>. DEFINE m == MatrixEnqueue(Matrix(<<>>, Zero), g[length][1]).matrix
            N == Appended(PassThrough(v).done, m)
            H == HitsOf
            k == Len(Pipe)
            w == g[length][1]
<1>1. /\ Shifted(N, g) /\ length + 1 <= Len(N) /\ N[length + 1] = m
      /\ length < k => Len(N) = k
      /\ \A i \in length + 2 .. Len(N) : N[i] = IF i <= k THEN Pipe[i] ELSE Nil
  BY AppendedShifted
<1>2. k \in Nat /\ length \in Nat /\ length <= k /\ Len(N) \in Nat /\ N \in GoodSlices
  BY <1>1 DEF GoodSlices, Shifted
<1>3. w \in GoodVectors /\ g[length] = <<w>>
  <2>1. g[length] \in Gives
    BY <1>2 DEF Passes
  <2>. QED
    BY <2>1, GivenFacts
<1>4. \A p \in Measures : Weight(p, m) = p[w]
  BY <1>3, FreshMatrix
<1>. HIDE DEF m, N, w, H
<1>5. N \in Slices /\ Pipe \in Slices /\ H \in Measures
  BY <1>2, HitsGrow, MeasuresKnown DEF H
<1>6. ASSUME NEW p \in Measures
      PROVE  /\ p[Total(N, length + 1)] = p[Total(Pipe, length)] + p[v]
             /\ p[Total(N, length + 1)] \in Int /\ p[Total(Pipe, length)] \in Int /\ p[v] \in Int
  <2>1. /\ p[Total(N, length)] + Given(p, g[length]) = p[Total(Pipe, length)] + p[v]
        /\ p[Total(N, length)] \in Int /\ p[Total(Pipe, length)] \in Int /\ p[v] \in Int
    BY <1>1, ShiftedTotal
  <2>2. Given(p, g[length]) = p[w]
    BY <1>3, GivenFacts
  <2>3. length + 1 \in 1 .. Len(N) /\ length + 1 \in 0 .. Len(N) /\ (length + 1) - 1 = length
    BY <1>1, <1>2
  <2>4. p[Total(N, length + 1)] = p[Total(N, length)] + Weight(p, N[length + 1])
    BY <1>5, <2>3, TotalWeight
  <2>5. p[Total(N, length + 1)] \in Int
    BY <1>5, <2>3, TotalWeight
  <2>. QED
    BY <1>1, <1>4, <2>1, <2>2, <2>4, <2>5
<1>7. /\ H[Total(N, length + 1)] = H[Total(Pipe, length)] + H[v]
      /\ H[Total(N, length + 1)] \in Int /\ H[Total(Pipe, length)] \in Int /\ H[v] \in Int
  BY <1>5, <1>6
<1>8. H[Total(Pipe, k)] \in Int /\ H[Total(N, Len(N))] \in Int
  <2>1. k \in 0 .. k /\ Len(N) \in 0 .. Len(N)
    BY <1>2
  <2>. QED
    BY <1>5, <2>1, TotalWeight
<1>9. H[Total(N, Len(N))] <= H[Total(Pipe, k)] + H[v]
  <2>1. CASE length < k
    <3>1. length + 1 \in Nat /\ length + 1 <= k /\ Len(N) = k /\ length + 1 \in 1 .. k
          /\ length + 1 \in 0 .. k /\ (length + 1) - 1 = length
      BY <1>1, <1>2, <2>1
    <3>2. ASSUME NEW i \in (length + 1) + 1 .. k PROVE N[i] = Pipe[i]
      <4>1. i \in length + 2 .. Len(N) /\ i <= k
        BY <1>2, <3>1
      <4>. QED
        BY <1>1, <4>1
    <3>3. H[Total(N, k)] - H[Total(N, length + 1)] = H[Total(Pipe, k)] - H[Total(Pipe, length + 1)]
      <4>. DEFINE q == length + 1
      <4>1. q \in Nat /\ q <= k /\ k <= Len(N) /\ k <= Len(Pipe)
        BY <1>2, <3>1
      <4>2. \A i \in q + 1 .. k : N[i] = Pipe[i]
        BY <3>2
      <4>. HIDE DEF q, k
      <4>3. H[Total(N, k)] - H[Total(N, q)] = H[Total(Pipe, k)] - H[Total(Pipe, q)]
        BY <1>2, <1>5, <4>1, <4>2, TotalSame
      <4>. QED
        BY <4>3 DEF q
    <3>4. /\ H[Total(Pipe, length + 1)] = H[Total(Pipe, length)] + Weight(H, Pipe[length + 1])
          /\ Weight(H, Pipe[length + 1]) \in Int /\ H[Total(Pipe, length + 1)] \in Int
      BY <1>5, <3>1, TotalWeight
    <3>5. Weight(H, Pipe[length + 1]) >= 0
      BY <3>1, HitsGrow DEF Grows, H
    <3>. DEFINE a == H[Total(N, k)]  b == H[Total(N, length + 1)]  c == H[Total(Pipe, k)]
                d == H[Total(Pipe, length)]  x == Weight(H, Pipe[length + 1])  y == H[v]
    <3>6. /\ a \in Int /\ b \in Int /\ c \in Int /\ d \in Int /\ x \in Int /\ y \in Int
          /\ a - b = c - (d + x) /\ b = d + y /\ x >= 0
      BY <1>7, <1>8, <3>1, <3>3, <3>4, <3>5
    <3>. HIDE DEF a, b, c, d, x, y
    <3>7. a <= c + y
      BY <3>6
    <3>. QED
      BY <3>1, <3>7 DEF a, c, y
  <2>2. CASE ~ (length < k)
    <3>1. length = k /\ length + 1 \in Nat
      BY <1>2, <2>2
    <3>2. ASSUME NEW i \in (length + 1) + 1 .. Len(N) PROVE N[i] = Nil
      <4>1. i \in length + 2 .. Len(N) /\ ~ (i <= k)
        BY <1>2, <3>1
      <4>. QED
        BY <1>1, <4>1
    <3>3. H[Total(N, Len(N))] = H[Total(N, length + 1)]
      BY <1>1, <1>5, <3>1, <3>2, TotalFlat
    <3>4. H[Total(N, Len(N))] = H[Total(Pipe, k)] + H[v]
      BY <1>7, <3>1, <3>3
    <3>. QED
      BY <1>8, <3>4
  <2>. QED
    BY <2>1, <2>2
<1>10. ASSUME NEW p \in Measures
       PROVE  p[Total(N, length + 1)] + Given(p, <<>>) = p[Total(Pipe, length)] + p[v]
  <2>1. Given(p, <<>>) = 0
    BY GivenFacts
  <2>. QED
    BY <1>6, <2>1
<1>11. H[Total(N, Len(N))] + Given(H, <<>>) <= H[Total(Pipe, k)] + H[v]
  <2>1. Given(H, <<>>) = 0
    BY <1>5, GivenFacts
  <2>. QED
    BY <1>8, <1>9, <2>1
<1>. QED
  BY <1>10, <1>11, Zenon DEF Flows, N, m, H

(* What the pipe carries as its sum is that of the matrices up to the      *)
(* length and of what reslicing took out; but for what Add lost.           *)
Carried(c) == IF c = Nil THEN Zero ELSE c
Balanced(c, s, n, d) ==
  /\ \A p \in CountMeasures : p[Carried(c)] = p[Total(s, n)] + p[d]
  /\ \A p \in LowMeasures : p[Carried(c)] <= p[Total(s, n)] + p[d]
  /\ HitsOf[Total(s, Len(s))] <= HitsOf[Total(s, n)] + HitsOf[d]

(* The daemon's new sum. *)
NewSum(x, v) ==
  LET added == IF CumulativeVector = Nil THEN v ELSE Add(CumulativeVector, v)
  IN  IF x = <<>> \/ CumulativeVector = Nil THEN added ELSE Minus(added, x[1])

LEMMA SumBalanced ==
  ASSUME Pipe \in GoodSlices, length \in 0 .. Len(Pipe), NEW v \in GoodVectors,
         CumulativeVector \in Counted \cup {Nil}, dropped \in Counts,
         Balanced(CumulativeVector, Pipe, length, dropped),
         NEW N \in GoodSlices, NEW n \in 0 .. Len(N), NEW x \in Gives, Flows(N, n, x, v),
         CumulativeVector = Nil => x = <<>>
  PROVE  /\ NewSum(x, v) \in Counts \cup Vectors /\ NewSum(x, v) # Nil
         /\ Balanced(NewSum(x, v), N, n, dropped)
<1>. DEFINE c == Carried(CumulativeVector)
            added == IF CumulativeVector = Nil THEN v ELSE Add(CumulativeVector, v)
            new == NewSum(x, v)
            d == dropped
            P == Total(Pipe, length)
            Q == Total(N, n)
            H == HitsOf
<1>1. /\ Nil \notin Counted /\ v \in Counted /\ Sane(v) /\ v \in Vectors /\ d \in Counted
      /\ Zero \in Counted /\ Counted = Counts \cup Vectors
  BY NilOutside, GoodVectorsSane, ZeroFields DEF Counted
<1>2. /\ H \in Measures /\ H \in CountMeasures
      /\ LowMeasures \subseteq Measures /\ CountMeasures \subseteq Measures
  BY MeasuresKnown
<1>3. c \in Counted
  BY <1>1 DEF Carried
<1>4. Len(Pipe) \in Nat /\ Len(N) \in Nat /\ Pipe \in Slices /\ N \in Slices
      /\ Len(Pipe) \in 0 .. Len(Pipe) /\ Len(N) \in 0 .. Len(N)
  BY HitsGrow DEF GoodSlices
<1>5. \A p \in Measures : /\ p[c] \in Int /\ p[d] \in Int /\ p[v] \in Int /\ p[P] \in Int /\ p[Q] \in Int
                          /\ p[Zero] = 0
  BY <1>1, <1>3, <1>4, TotalWeight, MeasureLaws
<1>6. /\ \A p \in CountMeasures : p[c] = p[P] + p[d]
      /\ \A p \in LowMeasures : p[c] <= p[P] + p[d]
      /\ H[Total(Pipe, Len(Pipe))] <= H[P] + H[d]
  BY DEF Balanced
<1>7. /\ \A p \in Measures : p[Q] + Given(p, x) = p[P] + p[v]
      /\ H[Total(N, Len(N))] + Given(H, x) <= H[Total(Pipe, Len(Pipe))] + H[v]
  BY DEF Flows
<1>8. H[Total(Pipe, Len(Pipe))] \in Int /\ H[Total(N, Len(N))] \in Int /\ H[Total(Pipe, Len(Pipe))] >= 0
  <2>1. Grows(H, Pipe) /\ Len(Pipe) <= Len(Pipe)
    BY <1>4, HitsGrow
  <2>. QED
    BY <1>2, <1>4, <2>1, TotalWeight, TotalGrows
<1>. HIDE DEF c, P, Q, H
<1>9. H[c] >= 0
  BY <1>2, <1>5, <1>6, <1>8
<1>10. /\ added \in Counted
       /\ \A p \in CountMeasures : p[added] = p[c] + p[v]
       /\ \A p \in LowMeasures : p[added] <= p[c] + p[v]
  <2>1. CASE CumulativeVector = Nil
    <3>1. c = Zero /\ added = v
      BY <2>1 DEF c, Carried
    <3>2. \A p \in Measures : p[added] = p[c] + p[v]
      BY <1>5, <3>1
    <3>3. \A p \in LowMeasures : p[added] <= p[c] + p[v]
      <4>1. \A p \in LowMeasures : p[added] = p[c] + p[v] /\ p[c] \in Int /\ p[v] \in Int
        BY <1>2, <1>5, <3>2
      <4>. QED
        BY <4>1
    <3>. QED
      BY <1>1, <1>2, <3>1, <3>2, <3>3
  <2>2. CASE CumulativeVector # Nil
    <3>1. c = CumulativeVector /\ added = Add(c, v)
      BY <2>2 DEF c, Carried
    <3>2. c.hits >= 0
      BY <1>3, <1>9, MeasuresKnown DEF H
    <3>. QED
      BY <1>1, <1>3, <3>1, <3>2, AddMeasured
  <2>. QED
    BY <2>1, <2>2
<1>. HIDE DEF added
<1>11. /\ new \in Counted /\ \A p \in Measures : p[new] = p[added] - Given(p, x)
       /\ \A p \in Measures : p[added] \in Int /\ Given(p, x) \in Int
  <2>0. \A p \in Measures : p[added] \in Int
    BY <1>10, MeasureLaws
  <2>1. CASE x = <<>>
    <3>1. new = added
      BY <2>1 DEF NewSum, added
    <3>2. \A p \in Measures : Given(p, x) = 0
      BY <2>1, GivenFacts
    <3>. QED
      BY <1>10, <2>0, <3>1, <3>2
  <2>2. CASE x # <<>>
    <3>1. x = <<x[1]>> /\ x[1] \in Counted
      BY <2>2, GivenFacts, GoodVectorsSane
    <3>2. new = Combine(added, x[1], -1)
      BY <2>2 DEF NewSum, added, Minus
    <3>3. \A p \in Measures : Given(p, x) = p[x[1]]
      BY <2>2 DEF Given
    <3>4. new \in Counted
      <4>. DEFINE b == x[1]
      <4>1. b \in Counted /\ new = Combine(added, b, -1)
        BY <3>1, <3>2
      <4>. HIDE DEF b
      <4>. QED
        BY <1>1, <1>10, <4>1, MinusFields
    <3>5. ASSUME NEW p \in Measures PROVE p[new] = p[added] - p[x[1]] /\ p[x[1]] \in Int
      <4>. DEFINE b == x[1]
      <4>1. b \in Counted /\ new = Combine(added, b, -1)
        BY <3>1, <3>2
      <4>. HIDE DEF b
      <4>2. p[new] = p[added] - p[b] /\ p[b] \in Int
        BY <1>10, <4>1, MeasureMinus
      <4>. QED
        BY <4>2 DEF b
    <3>. QED
      BY <2>0, <3>3, <3>4, <3>5
  <2>. QED
    BY <2>1, <2>2
<1>. HIDE DEF new
<1>12. Carried(new) = new /\ new # Nil
  BY <1>1, <1>11 DEF Carried
<1>13. ASSUME NEW p \in CountMeasures PROVE p[new] = p[Q] + p[d]
  <2>. DEFINE a == p[added]  e == p[c]  f == p[P]  h == p[Q]  y == Given(p, x)  z == p[v]  u == p[d]
  <2>1. p \in Measures
    BY <1>2
  <2>2. /\ a \in Int /\ e \in Int /\ f \in Int /\ h \in Int /\ y \in Int /\ z \in Int /\ u \in Int
        /\ a = e + z /\ e = f + u /\ h + y = f + z /\ p[new] = a - y
    BY <1>5, <1>6, <1>7, <1>10, <1>11, <2>1
  <2>. HIDE DEF a, e, f, h, y, z, u
  <2>3. p[new] = h + u
    BY <2>2
  <2>. QED
    BY <2>3 DEF h, u
<1>14. ASSUME NEW p \in LowMeasures PROVE p[new] <= p[Q] + p[d]
  <2>. DEFINE a == p[added]  e == p[c]  f == p[P]  h == p[Q]  y == Given(p, x)  z == p[v]  u == p[d]
  <2>1. p \in Measures
    BY <1>2
  <2>2. /\ a \in Int /\ e \in Int /\ f \in Int /\ h \in Int /\ y \in Int /\ z \in Int /\ u \in Int
        /\ a <= e + z /\ e <= f + u /\ h + y = f + z /\ p[new] = a - y
    BY <1>5, <1>6, <1>7, <1>10, <1>11, <2>1
  <2>. HIDE DEF a, e, f, h, y, z, u
  <2>3. a - y <= h + u
    BY <2>2
  <2>. QED
    BY <2>2, <2>3 DEF h, u
<1>15. H[Total(N, Len(N))] <= H[Q] + H[d]
  <2>. DEFINE a == H[Total(N, Len(N))]  b == H[Total(Pipe, Len(Pipe))]
              f == H[P]  h == H[Q]  y == Given(H, x)  z == H[v]  u == H[d]
  <2>2. /\ a \in Int /\ b \in Int /\ f \in Int /\ h \in Int /\ y \in Int /\ z \in Int /\ u \in Int
        /\ a + y <= b + z /\ b <= f + u /\ h + y = f + z
    BY <1>2, <1>5, <1>6, <1>7, <1>8, <1>11
  <2>. HIDE DEF a, b, f, h, y, z, u
  <2>3. a <= h + u
    BY <2>2
  <2>. QED
    BY <2>3 DEF a, h, u
<1>16. Balanced(new, N, n, dropped)
  BY <1>12, <1>13, <1>14, <1>15, Zenon DEF Balanced, Q, H
<1>. QED
  BY <1>1, <1>11, <1>12, <1>16 DEF new

-----------------------------------------------------------------------------
(* The inductive invariant.  The pipe: every matrix of the slice, those    *)
(* beyond the length too, is good, and they are in order together; what is *)
(* carried along balances.  The buffer: sane events.                       *)
PipeInv ==
  /\ Pipe \in GoodSlices /\ length \in 0 .. Len(Pipe)
  /\ CumulativeVector \in Counts \cup Vectors \cup {Nil} /\ dropped \in Counts
  /\ ticks \in 0 .. MaxTicks
  /\ CumulativeVector = Nil => Pipe = <<>>
  /\ Ordered(Pipe, ticks)
  /\ Balanced(CumulativeVector, Pipe, length, dropped)
BufferInv ==
  /\ EventBuffer \in Seq(Counts)
  /\ \A i \in 1 .. Len(EventBuffer) : Sane(EventBuffer[i])
  /\ Len(EventBuffer) <= 2 * events /\ events \in 0 .. MaxEvents
SettingsInv == ListenerStarted \in BOOLEAN /\ crashed \in BOOLEAN /\ PipeLength \in Nat
IInv == PipeInv /\ BufferInv /\ SettingsInv

LEMMA PipeInvNumbers ==
  ASSUME PipeInv
  PROVE  /\ Len(Pipe) \in Nat /\ length \in Nat /\ length <= Len(Pipe) /\ ticks \in Nat
         /\ CumulativeVector \in Counted \cup {Nil} /\ dropped \in Counted
BY EventPipeAssumption DEF PipeInv, GoodSlices, Counted

LEMMA EventsSane ==
  /\ \A s : \A h, b \in {0, 1} :
       b <= h => QueueEvent(h, b, s) \in Counts /\ Sane(QueueEvent(h, b, s))
  /\ \A c \in Classes, e \in BOOLEAN : TaskEvent(c, e) \in Counts /\ Sane(TaskEvent(c, e))
<1>. DEFINE f == [d \in Classes |-> 0]
<1>1. f \in [Classes -> Nat] /\ f \in [Classes -> Int]
  OBVIOUS
<1>2. Zero = [known |-> FALSE, hits |-> 0, violations |-> 0, extra |-> [k \in Extras |-> 0],
              tasks |-> f, exceeding |-> f]
  BY DEF Zero
<1>3. ASSUME NEW c \in Classes, NEW n \in {0, 1}
      PROVE  [f EXCEPT ![c] = n] \in [Classes -> Nat] /\ [f EXCEPT ![c] = n] \in [Classes -> Int]
  OBVIOUS
<1>. HIDE DEF f
<1>4. ASSUME NEW h \in {0, 1}, NEW b \in {0, 1}, NEW s, b <= h
      PROVE  QueueEvent(h, b, s) \in Counts /\ Sane(QueueEvent(h, b, s))
  <2>. DEFINE q == QueueEvent(h, b, s)
              x == [k \in Extras |-> IF k \in s THEN 1 ELSE 0]
  <2>0. Zero \in Counts /\ Zero.tasks = f /\ Zero.exceeding = f
    BY <1>2, ZeroFields
  <2>4. h \in Int /\ b \in Int /\ x \in [Extras -> Nat] /\ x \in [Extras -> Int]
    OBVIOUS
  <2>5. q = [Zero EXCEPT !.known = TRUE, !.hits = h, !.violations = b, !.extra = x]
    BY DEF QueueEvent
  <2>. HIDE DEF q, x
  <2>1. /\ q.hits = h /\ q.violations = b /\ q.extra = x
        /\ q.tasks = f /\ q.exceeding = f
    BY <2>0, <2>5 DEF Counts
  <2>2. q \in Counts
    BY <2>0, <2>4, <2>5 DEF Counts
  <2>3. q.hits \in Nat /\ q.violations \in 0 .. q.hits /\ q.extra \in [Extras -> Nat]
    BY <1>4, <2>1, <2>4
  <2>. QED
    BY <1>1, <2>1, <2>2, <2>3 DEF Sane, Counted, q
<1>5. ASSUME NEW c \in Classes, NEW e \in BOOLEAN
      PROVE  TaskEvent(c, e) \in Counts /\ Sane(TaskEvent(c, e))
  <2>. DEFINE q == TaskEvent(c, e)
              n == IF e THEN 1 ELSE 0
              g == [f EXCEPT ![c] = 1]
              h == [f EXCEPT ![c] = n]
  <2>0. /\ g \in [Classes -> Nat] /\ g \in [Classes -> Int]
        /\ h \in [Classes -> Nat] /\ h \in [Classes -> Int]
    BY <1>3
  <2>. DEFINE z == [k \in Extras |-> 0]
  <2>6. z \in [Extras -> Nat]
    OBVIOUS
  <2>1. /\ Zero \in Counts /\ Zero.tasks = f /\ Zero.exceeding = f
        /\ Zero.hits = 0 /\ Zero.violations = 0 /\ Zero.extra = z
    BY <1>2, ZeroFields
  <2>4. q = [Zero EXCEPT !.tasks = [Zero.tasks EXCEPT ![c] = 1], !.exceeding = [Zero.exceeding EXCEPT ![c] = n]]
    BY DEF TaskEvent
  <2>5. q = [Zero EXCEPT !.tasks = g, !.exceeding = h]
    BY <2>1, <2>4
  <2>. HIDE DEF q, g, h, z
  <2>2. /\ q \in Counts /\ q.tasks = g /\ q.exceeding = h
        /\ q.hits = 0 /\ q.violations = 0 /\ q.extra = z
    BY <2>0, <2>1, <2>5 DEF Counts
  <2>3. q.hits \in Nat /\ q.violations \in 0 .. q.hits /\ q.extra \in [Extras -> Nat]
    BY <2>2, <2>6
  <2>. QED
    BY <2>0, <2>2, <2>3 DEF Sane, Counted, q
<1>. QED
  BY <1>4, <1>5

LEMMA InitIInv == Init => IInv
<1>. SUFFICES ASSUME Init PROVE IInv
  OBVIOUS
<1>1. /\ Pipe = <<>> /\ length = 0 /\ CumulativeVector = Nil /\ dropped = Zero /\ ticks = 0
      /\ EventBuffer = <<>> /\ events = 0 /\ ListenerStarted = FALSE /\ crashed = FALSE /\ PipeLength = 0
  BY DEF Init
<1>2. <<>> \in GoodSlices /\ Len(<<>>) = 0 /\ 1 .. 0 = {} /\ <<>> \in Slices /\ <<>> \in Seq(Counts)
  BY DEF GoodSlices, Slices
<1>3. Ordered(Pipe, ticks)
  BY <1>1, <1>2 DEF Ordered
<1>4. Balanced(CumulativeVector, Pipe, length, dropped)
  <2>1. Total(<<>>, 0) = Zero
    BY <1>2, TotalStep
  <2>2. \A p \in Measures : p[Zero] = 0
    BY MeasureLaws
  <2>3. Carried(Nil) = Zero
    BY DEF Carried
  <2>. QED
    BY <1>1, <1>2, <2>1, <2>2, <2>3, MeasuresKnown DEF Balanced
<1>5. PipeInv
  BY <1>1, <1>2, <1>3, <1>4, ZeroFields, EventPipeAssumption DEF PipeInv
<1>6. BufferInv
  BY <1>1, <1>2, EventPipeAssumption DEF BufferInv
<1>. QED
  BY <1>1, <1>5, <1>6 DEF IInv, SettingsInv

(* Events are appended; the pipe is not touched. *)
LEMMA AppendEventsIInv ==
  ASSUME IInv, NEW new \in Seq(Counts), Len(new) <= 2, \A i \in 1 .. Len(new) : Sane(new[i]),
         AppendEvents(new)
  PROVE  IInv'
<1>1. /\ events < MaxEvents /\ events' = events + 1 /\ EventBuffer' = EventBuffer \o new
      /\ UNCHANGED <<ListenerStarted, Pipe, length, PipeLength, CumulativeVector, ticks, dropped, crashed>>
  BY DEF AppendEvents
<1>2. PipeInv'
  BY <1>1 DEF IInv, PipeInv
<1>3. SettingsInv'
  BY <1>1 DEF IInv, SettingsInv
<1>4. BufferInv'
  <2>1. /\ EventBuffer \in Seq(Counts) /\ \A i \in 1 .. Len(EventBuffer) : Sane(EventBuffer[i])
        /\ Len(EventBuffer) <= 2 * events /\ events \in 0 .. MaxEvents /\ MaxEvents \in Nat
    BY EventPipeAssumption DEF IInv, BufferInv
  <2>. DEFINE b == EventBuffer \o new
  <2>2. /\ b \in Seq(Counts) /\ Len(b) = Len(EventBuffer) + Len(new)
        /\ \A i \in 1 .. Len(b) : b[i] = IF i <= Len(EventBuffer) THEN EventBuffer[i]
                                         ELSE new[i - Len(EventBuffer)]
        /\ Len(EventBuffer) \in Nat /\ Len(new) \in Nat
    BY <2>1
  <2>. HIDE DEF b
  <2>3. ASSUME NEW i \in 1 .. Len(b) PROVE Sane(b[i])
    <3>1. CASE i <= Len(EventBuffer)
      BY <2>1, <2>2, <3>1
    <3>2. CASE ~ (i <= Len(EventBuffer))
      <4>1. i - Len(EventBuffer) \in 1 .. Len(new)
        BY <2>2, <3>2
      <4>. QED
        BY <2>2, <3>2, <4>1
    <3>. QED
      BY <3>1, <3>2
  <2>4. Len(b) <= 2 * (events + 1) /\ events + 1 \in 0 .. MaxEvents
    BY <1>1, <2>1, <2>2
  <2>5. EventBuffer' = b /\ events' = events + 1
    BY <1>1 DEF b
  <2>. QED
    BY <2>2, <2>3, <2>4, <2>5 DEF BufferInv
<1>. QED
  BY <1>2, <1>3, <1>4 DEF IInv

(* A new size of the window: what reslicing takes out is counted apart.    *)
LEMMA SetHistoryTimeWindowSizeIInv ==
  ASSUME IInv, NEW size \in WindowSizes, SetHistoryTimeWindowSize(size)
  PROVE  IInv'
<1>. DEFINE new == size \div MatrixLength
            d == Combine(Combine(dropped, Total(Pipe, length), 1), Total(Pipe, new), -1)
<1>1. /\ new < PipeLength => new <= Len(Pipe)
      /\ PipeLength' = new
      /\ length' = IF new < PipeLength THEN new ELSE length
      /\ dropped' = IF ~ (new < PipeLength) THEN dropped ELSE d
      /\ UNCHANGED <<ListenerStarted, EventBuffer, Pipe, CumulativeVector, ticks, events, crashed>>
  BY DEF SetHistoryTimeWindowSize
<1>2. new \in Nat
  BY EventPipeAssumption
<1>. HIDE DEF new, d
<1>3. BufferInv'
  BY <1>1 DEF IInv, BufferInv
<1>4. SettingsInv'
  BY <1>1, <1>2 DEF IInv, SettingsInv
<1>5. PipeInv
  BY DEF IInv
<1>6. CASE ~ (new < PipeLength)
  <2>1. PipeInv'
    BY <1>1, <1>5, <1>6 DEF PipeInv
  <2>. QED
    BY <1>3, <1>4, <2>1 DEF IInv
<1>7. CASE new < PipeLength
  <2>1. length' = new /\ dropped' = d /\ new <= Len(Pipe) /\ Pipe' = Pipe
        /\ CumulativeVector' = CumulativeVector /\ ticks' = ticks
    BY <1>1, <1>7
  <2>2. /\ Len(Pipe) \in Nat /\ length \in Nat /\ length <= Len(Pipe) /\ dropped \in Counted
        /\ Pipe \in Slices /\ new \in 0 .. Len(Pipe) /\ length \in 0 .. Len(Pipe)
    BY <1>2, <1>5, <2>1, PipeInvNumbers, HitsGrow DEF PipeInv
  <2>. DEFINE P == Total(Pipe, length)
              Q == Total(Pipe, new)
  <2>3. P \in Counted /\ Q \in Counted
    BY <2>2, TotalStep DEF Counted
  <2>. DEFINE e == Combine(dropped, P, 1)
  <2>4. e \in Counted /\ d = Combine(e, Q, -1)
    BY <2>2, <2>3, PlusFields DEF Counted, d
  <2>5. d \in Counts
    BY <2>3, <2>4, MinusFields
  <2>. HIDE DEF P, Q
  <2>6. ASSUME NEW p \in Measures
        PROVE  p[Q] + p[d] = p[P] + p[dropped]
    <3>1. p[e] = p[dropped] + p[P] /\ p[dropped] \in Int /\ p[P] \in Int
      BY <2>2, <2>3, MeasurePlus
    <3>. HIDE DEF e
    <3>2. p[d] = p[e] - p[Q] /\ p[e] \in Int /\ p[Q] \in Int
      BY <2>3, <2>4, MeasureMinus
    <3>. QED
      BY <3>1, <3>2
  <2>7. Balanced(CumulativeVector, Pipe, new, d)
    <3>1. Balanced(CumulativeVector, Pipe, length, dropped)
      BY <1>5 DEF PipeInv
    <3>2. /\ \A p \in CountMeasures : p[Carried(CumulativeVector)] = p[P] + p[dropped]
          /\ \A p \in LowMeasures : p[Carried(CumulativeVector)] <= p[P] + p[dropped]
          /\ HitsOf[Total(Pipe, Len(Pipe))] <= HitsOf[P] + HitsOf[dropped]
      BY <3>1 DEF Balanced, P
    <3>3. /\ \A p \in CountMeasures : p[Carried(CumulativeVector)] = p[Q] + p[d]
          /\ \A p \in LowMeasures : p[Carried(CumulativeVector)] <= p[Q] + p[d]
          /\ HitsOf[Total(Pipe, Len(Pipe))] <= HitsOf[Q] + HitsOf[d]
      BY <2>6, <3>2, MeasuresKnown
    <3>. QED
      BY <3>3, Zenon DEF Balanced, Q
  <2>8. PipeInv'
    BY <1>5, <2>1, <2>2, <2>5, <2>7 DEF PipeInv
  <2>. QED
    BY <1>3, <1>4, <2>8 DEF IInv
<1>. QED
  BY <1>6, <1>7

LEMMA OrderedLater ==
  ASSUME NEW s, NEW t \in Nat, Ordered(s, t)
  PROVE  Ordered(s, t + 1)
<1>1. ASSUME NEW i \in 1 .. Len(s), NEW x \in Ages(s[i]) PROVE x \in Int /\ x <= t + 1
  <2>1. x \in Int /\ x <= t
    BY DEF Ordered
  <2>. QED
    BY <2>1
<1>. QED
  BY <1>1 DEF Ordered

(* A tick: what leaves at the end, and where, says whether one is appended. *)
LEMMA DaemonIInv ==
  ASSUME IInv, Daemon
  PROVE  IInv'
<1>. DEFINE v == Vector(EventBuffer)
            P == PassThrough(v)
            appends == P.out # <<>> /\ (PipeLength = 0 \/ length < PipeLength)
            x == IF appends THEN <<>> ELSE P.out
            m == MatrixEnqueue(Matrix(<<>>, Zero), P.out[1]).matrix
<1>1. /\ ticks < MaxTicks /\ ticks' = ticks + 1 /\ crashed' = P.crash
      /\ UNCHANGED <<ListenerStarted, PipeLength, events, dropped>>
      /\ P.crash => UNCHANGED <<EventBuffer, Pipe, length, CumulativeVector>>
      /\ ~ P.crash =>
           /\ EventBuffer' = <<>>
           /\ appends => Pipe' = Appended(P.done, m) /\ length' = length + 1
           /\ ~ appends => Pipe' = Kept(P.done) /\ length' = length
           /\ CumulativeVector' = NewSum(x, v)
  BY DEF Daemon, NewSum
<1>2. PipeInv /\ BufferInv /\ SettingsInv
  BY DEF IInv
<1>3. /\ Len(Pipe) \in Nat /\ length \in Nat /\ length <= Len(Pipe) /\ ticks \in Nat
      /\ CumulativeVector \in Counted \cup {Nil} /\ dropped \in Counted
  BY <1>2, PipeInvNumbers
<1>4. v \in GoodVectors /\ v.ticks = ticks + 1
  BY <1>2, <1>3, VectorGood DEF BufferInv
<1>5. Pipe \in GoodSlices /\ length \in 0 .. Len(Pipe)
  BY <1>2 DEF PipeInv
<1>6. PICK g : Passes(v, g)
  BY <1>4, <1>5, PassThroughGiven
<1>7. P.out = g[length] /\ g[length] \in Gives /\ g[0] = <<v>> /\ P.crash \in BOOLEAN
  BY <1>3, <1>6 DEF Passes
<1>8. ticks + 1 \in 0 .. MaxTicks
  BY <1>1, <1>3, EventPipeAssumption
<1>9. SettingsInv'
  BY <1>1, <1>2, <1>7 DEF SettingsInv
<1>. HIDE DEF v, P
<1>10. CASE P.crash
  <2>1. UNCHANGED <<EventBuffer, Pipe, length, CumulativeVector, dropped, events>> /\ ticks' = ticks + 1
    BY <1>1, <1>10
  <2>2. Ordered(Pipe, ticks + 1)
    BY <1>2, <1>3, OrderedLater DEF PipeInv
  <2>3. PipeInv'
    BY <1>2, <1>8, <2>1, <2>2 DEF PipeInv
  <2>4. BufferInv'
    BY <1>2, <2>1 DEF BufferInv
  <2>. QED
    BY <1>9, <2>3, <2>4 DEF IInv
<1>11. CASE ~ P.crash
  <2>1. BufferInv'
    <3>1. EventBuffer' = <<>> /\ events' = events
      BY <1>1, <1>11
    <3>2. <<>> \in Seq(Counts) /\ Len(<<>>) = 0 /\ 1 .. 0 = {}
      OBVIOUS
    <3>3. 0 <= 2 * events /\ events \in 0 .. MaxEvents
      BY <1>2, EventPipeAssumption DEF BufferInv
    <3>. QED
      BY <3>1, <3>2, <3>3 DEF BufferInv
  <2>2. /\ Pipe' \in GoodSlices /\ length' \in 0 .. Len(Pipe')
        /\ Ordered(Pipe', ticks + 1) /\ Flows(Pipe', length', x, v)
    <3>1. CASE appends
      <4>1. /\ Pipe' = Appended(P.done, m) /\ length' = length + 1
            /\ m = MatrixEnqueue(Matrix(<<>>, Zero), g[length][1]).matrix
            /\ x = <<>> /\ g[length] # <<>>
        BY <1>1, <1>7, <1>11, <3>1
      <4>. HIDE DEF m, x
      <4>2. Shifted(Pipe', g) /\ length + 1 <= Len(Pipe')
        BY <1>4, <1>5, <1>6, <1>11, <4>1, AppendedShifted DEF P
      <4>3. Flows(Pipe', length', x, v)
        BY <1>4, <1>5, <1>6, <1>11, <4>1, AppendedFlows DEF P
      <4>4. Ordered(Pipe', ticks + 1)
        BY <1>2, <1>3, <1>4, <1>5, <1>6, <4>2, ShiftedOrdered DEF PipeInv
      <4>5. Pipe' \in GoodSlices
        BY <4>2 DEF Shifted
      <4>6. Len(Pipe') \in Nat
        BY <4>5 DEF GoodSlices
      <4>. QED
        BY <1>3, <4>1, <4>2, <4>3, <4>4, <4>5, <4>6
    <3>2. CASE ~ appends
      <4>1. Pipe' = Kept(P.done) /\ length' = length /\ x = g[length]
        BY <1>1, <1>7, <1>11, <3>2
      <4>. HIDE DEF x, appends
      <4>2. Shifted(Pipe', g) /\ Len(Pipe') = Len(Pipe)
        BY <1>4, <1>5, <1>6, <1>11, <4>1, KeptShifted DEF P
      <4>3. Flows(Pipe', length', x, v)
        BY <1>4, <1>5, <1>6, <1>11, <4>1, KeptFlows DEF P
      <4>4. Ordered(Pipe', ticks + 1)
        BY <1>2, <1>3, <1>4, <1>5, <1>6, <4>2, ShiftedOrdered DEF PipeInv
      <4>5. Pipe' \in GoodSlices
        BY <4>2 DEF Shifted
      <4>. QED
        BY <1>5, <4>1, <4>2, <4>3, <4>4, <4>5
    <3>. QED
      BY <3>1, <3>2
  <2>3. x \in Gives
    BY <1>7, GivenFacts
  <2>4. CumulativeVector = Nil => x = <<>>
    <3>. SUFFICES ASSUME CumulativeVector = Nil PROVE x = <<>>
      OBVIOUS
    <3>1. Pipe = <<>>
      BY <1>2 DEF PipeInv
    <3>2. length = 0
      BY <1>3, <3>1
    <3>3. P.out # <<>>
      <4>1. P.out = <<v>>
        BY <1>7, <3>2
      <4>. QED
        BY <4>1
    <3>4. PipeLength = 0 \/ length < PipeLength
      BY <1>2, <3>2 DEF SettingsInv
    <3>. QED
      BY <3>3, <3>4
  <2>. HIDE DEF x, appends, m
  <2>5. Balanced(CumulativeVector, Pipe, length, dropped) /\ dropped \in Counts
    BY <1>2 DEF PipeInv
  <2>6. /\ NewSum(x, v) \in Counts \cup Vectors /\ NewSum(x, v) # Nil
        /\ Balanced(NewSum(x, v), Pipe', length', dropped)
    BY <1>3, <1>4, <1>5, <2>2, <2>3, <2>4, <2>5, SumBalanced
  <2>7. CumulativeVector' = NewSum(x, v) /\ dropped' = dropped /\ ticks' = ticks + 1
    BY <1>1, <1>11
  <2>8. PipeInv'
    BY <1>8, <2>2, <2>5, <2>6, <2>7 DEF PipeInv
  <2>. QED
    BY <1>9, <2>1, <2>8 DEF IInv
<1>. QED
  BY <1>10, <1>11

LEMMA NextIInv == IInv /\ [Next]_vars => IInv'
<1>. SUFFICES ASSUME IInv, [Next]_vars PROVE IInv'
  OBVIOUS
<1>1. CASE UNCHANGED vars
  BY <1>1 DEF vars, IInv, PipeInv, BufferInv, SettingsInv
<1>2. CASE AppendQueueServiceResponseTimeEvent
  <2>. DEFINE e == QueueEvent(0, 0, {"success"})
  <2>1. e \in Counts /\ Sane(e)
    BY EventsSane
  <2>. HIDE DEF e
  <2>2. <<e>> \in Seq(Counts) /\ Len(<<e>>) <= 2 /\ \A i \in 1 .. Len(<<e>>) : Sane(<<e>>[i])
    BY <2>1
  <2>3. AppendEvents(<<e>>)
    BY <1>2 DEF AppendQueueServiceResponseTimeEvent, e
  <2>. QED
    BY <2>2, <2>3, AppendEventsIInv
<1>3. ASSUME NEW b \in BOOLEAN, AppendQueueDeadlineViolationEvent(b) PROVE IInv'
  <2>. DEFINE k == IF b THEN 1 ELSE 0
              e == QueueEvent(1, k, {})
  <2>1. e \in Counts /\ Sane(e)
    <3>1. k \in {0, 1} /\ k <= 1 /\ 1 \in {0, 1}
      OBVIOUS
    <3>. HIDE DEF k
    <3>. QED
      BY <3>1, EventsSane
  <2>2. AppendEvents(<<e>>)
    BY <1>3 DEF AppendQueueDeadlineViolationEvent
  <2>. HIDE DEF e
  <2>3. <<e>> \in Seq(Counts) /\ Len(<<e>>) <= 2 /\ \A i \in 1 .. Len(<<e>>) : Sane(<<e>>[i])
    BY <2>1
  <2>. QED
    BY <2>2, <2>3, AppendEventsIInv
<1>4. ASSUME NEW c \in Classes, NEW exceeds \in BOOLEAN,
             NEW slow \in BOOLEAN, NEW slowest \in BOOLEAN,
             AppendTaskPerfEvent(c, exceeds, slow, slowest)
      PROVE  IInv'
  <2>. DEFINE e == TaskEvent(c, exceeds)
              struggles == Struggles(slow, slowest)
              q == QueueEvent(0, 0, struggles)
              new == <<e>> \o IF struggles = {} THEN <<>> ELSE <<q>>
  <2>1. e \in Counts /\ Sane(e) /\ q \in Counts /\ Sane(q)
    BY EventsSane
  <2>2. AppendEvents(new)
    BY <1>4 DEF AppendTaskPerfEvent
  <2>. HIDE DEF e, q, struggles
  <2>3. new \in Seq(Counts) /\ Len(new) <= 2 /\ \A i \in 1 .. Len(new) : Sane(new[i])
    <3>1. CASE struggles # {}
      <4>1. /\ <<e>> \o <<q>> \in Seq(Counts) /\ Len(<<e>> \o <<q>>) = 2
            /\ (<<e>> \o <<q>>)[1] = e /\ (<<e>> \o <<q>>)[2] = q
        BY <2>1
      <4>2. new = <<e>> \o <<q>>
        BY <3>1
      <4>. HIDE DEF new
      <4>. QED
        BY <2>1, <4>1, <4>2
    <3>2. CASE struggles = {}
      <4>1. /\ <<e>> \o <<>> \in Seq(Counts) /\ Len(<<e>> \o <<>>) = 1
            /\ (<<e>> \o <<>>)[1] = e
        BY <2>1
      <4>2. new = <<e>> \o <<>>
        BY <3>2
      <4>. HIDE DEF new
      <4>. QED
        BY <2>1, <4>1, <4>2
    <3>. QED
      BY <3>1, <3>2
  <2>. HIDE DEF new
  <2>. QED
    BY <2>2, <2>3, AppendEventsIInv
<1>5. ASSUME NEW on \in BOOLEAN, SwitchListener(on) PROVE IInv'
  BY <1>5 DEF SwitchListener, IInv, PipeInv, BufferInv, SettingsInv
<1>6. CASE Daemon
  BY <1>6, DaemonIInv
<1>7. ASSUME NEW size \in WindowSizes, SetHistoryTimeWindowSize(size) PROVE IInv'
  BY <1>7, SetHistoryTimeWindowSizeIInv
<1>. QED
  BY <1>1, <1>2, <1>3, <1>4, <1>5, <1>6, <1>7 DEF Next

LEMMA IInvTypeOK == IInv => TypeOK
<1>. SUFFICES ASSUME IInv PROVE TypeOK
  OBVIOUS
<1>1. PipeInv /\ BufferInv /\ SettingsInv
  BY DEF IInv
<1>2. Pipe \in Seq(Matrices \cup {Nil})
  BY <1>1, HitsGrow DEF PipeInv, Slices
<1>3. ASSUME NEW i \in DOMAIN Pipe, Pipe[i] # Nil PROVE Len(Pipe[i].vectors) \in 1 .. MatrixLength
  <2>1. Pipe \in GoodSlices /\ i \in 1 .. Len(Pipe)
    BY <1>1, <1>2 DEF PipeInv
  <2>2. Pipe[i] \in FilledMatrices
    BY <1>3, <2>1, GoodSliceElement
  <2>3. /\ Len(Pipe[i].vectors) >= 1 /\ Len(Pipe[i].vectors) <= MatrixLength
        /\ Pipe[i].vectors \in Seq(GoodVectors)
    BY <2>2 DEF FilledMatrices, GoodMatrices
  <2>4. Len(Pipe[i].vectors) \in Nat
    BY <2>3
  <2>. QED
    BY <2>3, <2>4, EventPipeAssumption
<1>. QED
  BY <1>1, <1>2, <1>3 DEF TypeOK, PipeInv, BufferInv, SettingsInv

LEMMA IInvCumulativeExact == IInv => CumulativeExact
<1>. SUFFICES ASSUME IInv PROVE CumulativeExact
  OBVIOUS
<1>1. PipeInv
  BY DEF IInv
<1>2. /\ Len(Pipe) \in Nat /\ length \in Nat /\ length <= Len(Pipe)
      /\ CumulativeVector \in Counted \cup {Nil} /\ dropped \in Counted
      /\ Pipe \in GoodSlices /\ Pipe \in Slices /\ length \in 0 .. Len(Pipe)
  BY <1>1, PipeInvNumbers, HitsGrow DEF PipeInv
<1>3. ASSUME NEW i \in 1 .. length, Pipe[i] # Nil
      PROVE  LET all == SumOf(Pipe[i].vectors)
             IN SameCounts(Pipe[i].cumulative, all) /\ NoMore(Pipe[i].cumulative, all)
  <2>1. i \in 1 .. Len(Pipe)
    BY <1>2
  <2>2. Pipe[i] \in GoodMatrices
    BY <1>2, <1>3, <2>1, GoodSliceElement
  <2>. QED
    BY <2>2 DEF GoodMatrices, Exact
<1>4. ASSUME CumulativeVector # Nil
      PROVE  LET all == Combine(Total(Pipe, length), dropped, 1)
             IN SameCounts(CumulativeVector, all) /\ NoMore(CumulativeVector, all)
  <2>. DEFINE T == Total(Pipe, length)
              all == Combine(T, dropped, 1)
              c == CumulativeVector
  <2>1. T \in Counted /\ c \in Counted
    BY <1>2, <1>4, TotalStep DEF Counted
  <2>2. Carried(c) = c
    BY <1>4 DEF Carried
  <2>3. /\ \A p \in CountMeasures : p[c] = p[T] + p[dropped]
        /\ \A p \in LowMeasures : p[c] <= p[T] + p[dropped]
    BY <1>1, <2>2 DEF PipeInv, Balanced
  <2>. HIDE DEF T
  <2>4. all \in Counted
    BY <1>2, <2>1, PlusFields DEF Counted
  <2>5. \A p \in Measures : p[all] = p[T] + p[dropped]
    BY <1>2, <2>1, MeasurePlus
  <2>. HIDE DEF all, c
  <2>6. \A p \in CountMeasures : p[c] = p[all]
    BY <2>3, <2>5, MeasuresKnown
  <2>7. \A p \in LowMeasures : p[c] <= p[all]
    BY <2>3, <2>5, MeasuresKnown
  <2>8. SameCounts(c, all) /\ NoMore(c, all)
    BY <2>1, <2>4, <2>6, <2>7, SameMeasured, LessMeasured
  <2>. QED
    BY <2>8 DEF c, all, T
<1>. QED
  BY <1>3, <1>4 DEF CumulativeExact

LEMMA IInvPipeInOrder == IInv => PipeInOrder
<1>. SUFFICES ASSUME IInv,
                     NEW i \in 1 .. length, Pipe[i] # Nil, NEW j \in 1 .. length, Pipe[j] # Nil,
                     NEW a \in DOMAIN Pipe[i].vectors, NEW b \in DOMAIN Pipe[j].vectors,
                     i > j \/ (i = j /\ a < b)
              PROVE  Pipe[i].vectors[a].ticks < Pipe[j].vectors[b].ticks
  BY DEF PipeInOrder
<1>1. PipeInv
  BY DEF IInv
<1>2. i \in 1 .. Len(Pipe) /\ j \in 1 .. Len(Pipe)
  BY <1>1, PipeInvNumbers
<1>3. /\ \A k \in 1 .. Len(Pipe) : Pipe[k] # Nil => Sorted(Pipe[k].vectors)
      /\ \A k, l \in 1 .. Len(Pipe) : k > l => \A x \in Ages(Pipe[k]), y \in Ages(Pipe[l]) : x < y
  BY <1>1 DEF PipeInv, Ordered
<1>4. Pipe[i].vectors[a].ticks \in Ages(Pipe[i]) /\ Pipe[j].vectors[b].ticks \in Ages(Pipe[j])
  BY DEF Ages, TicksOf
<1>5. CASE i > j
  BY <1>2, <1>3, <1>4, <1>5
<1>6. CASE i = j /\ a < b
  <2>1. Sorted(Pipe[j].vectors)
    BY <1>2, <1>3
  <2>. QED
    BY <1>6, <2>1 DEF Sorted
<1>. QED
  BY <1>5, <1>6
-----------------------------------------------------------------------------
THEOREM IInvCorrect == Spec => []IInv
<1>. QED
  BY InitIInv, NextIInv, PTL DEF Spec

(* The state is of its types, and no matrix has more than its length.      *)
THEOREM TypeCorrect == Spec => []TypeOK
BY IInvCorrect, IInvTypeOK, PTL

(* The sums that the daemon carries along, of each matrix and of the pipe, *)
(* are those of the vectors that are there and of those that a change of   *)
(* the window took out; what events without a hit count may only be less.  *)
THEOREM CumulativeExactCorrect == Spec => []CumulativeExact
BY IInvCorrect, IInvCumulativeExact, PTL

(* The vectors in the pipe are in the order of their ticks, whatever       *)
(* changes of the window took out and brought back.                        *)
THEOREM PipeInOrderCorrect == Spec => []PipeInOrder
BY IInvCorrect, IInvPipeInOrder, PTL
-----------------------------------------------------------------------------
(***************************************************************************)
(* The three structures as one run explores them.                          *)
(***************************************************************************)
(* Each part keeps the inductive invariant of its structure.               *)
StatisticsInv ==
  /\ part = "histogram" => HistogramInv
  /\ InWindow => Inv /\ SettledInv
  /\ InEvents => IInv

LEMMA InitStatistics == StatisticsInit => StatisticsInv
<1>. SUFFICES ASSUME StatisticsInit PROVE StatisticsInv
  OBVIOUS
<1>1. HistogramInit /\ WindowInit /\ Init
  BY DEF StatisticsInit
<1>2. HistogramInv
  BY <1>1, Zenon DEF HistogramInit, HistogramInv, EmptyWindow
<1>3. Inv /\ SettledInv
  <2>1. Inv
    BY <1>1, InitKeeps
  <2>2. DOMAIN TaskCategories = {} /\ MaximumTaskAmount = 0 /\ HistoryTimeWindowSize = 0
    BY <1>1 DEF WindowInit
  <2>. QED
    BY <2>1, <2>2 DEF SettledInv
<1>4. IInv
  BY <1>1, InitIInv
<1>. QED
  BY <1>2, <1>3, <1>4 DEF StatisticsInv

LEMMA NextStatistics == StatisticsInv /\ [StatisticsNext]_<<part, hist, windowVars, vars>> => StatisticsInv'
<1>. SUFFICES ASSUME StatisticsInv, [StatisticsNext]_<<part, hist, windowVars, vars>> PROVE StatisticsInv'
  OBVIOUS
<1>1. /\ part' = part
      /\ part = "histogram" => [HistogramNext]_hist
      /\ InWindow => [WindowNext]_windowVars
      /\ InEvents => [Next]_vars
  BY DEF StatisticsNext, InWindow, InEvents
<1>2. ASSUME part = "histogram" PROVE HistogramInv'
  BY <1>1, <1>2, HistogramStep DEF StatisticsInv
<1>3. ASSUME InWindow PROVE Inv' /\ SettledInv'
  <2>1. Inv /\ SettledInv /\ [WindowNext]_windowVars
    BY <1>1, <1>3 DEF StatisticsInv
  <2>. QED
    BY <2>1, NextKeeps, NextSettles
<1>4. ASSUME InEvents PROVE IInv'
  BY <1>1, <1>4, NextIInv DEF StatisticsInv
<1>. QED
  BY <1>1, <1>2, <1>3, <1>4 DEF StatisticsInv, InWindow, InEvents

(* Every part keeps its invariant, which is that of its own specification. *)
THEOREM StatisticsInvariance == StatisticsSpec => []StatisticsInv
  BY InitStatistics, NextStatistics, PTL DEF StatisticsSpec

(* Pointers, counts, lists and the pipe's elements have their types, no    *)
(* window is over its size, and the task count of a category is never      *)
(* negative, however often a request was repeated.                         *)
THEOREM TypesCorrect == StatisticsSpec => []TypesOK
<1>1. StatisticsInv => TypesOK
  BY InvHistogramTypeOK, WindowTypes, IInvTypeOK DEF StatisticsInv, TypesOK
<1>. QED
  BY <1>1, StatisticsInvariance, PTL
=============================================================================
