-------------------------- MODULE ForgeSockets_proofs --------------------------
(***************************************************************************)
(* Proofs about ForgeSockets, for any units, services, processes, clients   *)
(* and descriptor limit.                                                    *)
(***************************************************************************)
EXTENDS ForgeSockets, SequenceTheorems, WellFoundedInduction, TLAPS

-----------------------------------------------------------------------------
(***************************************************************************)
(* Induction over numbers, for a set instead of a predicate: what the       *)
(* provers can instantiate.                                                 *)
(***************************************************************************)
LEMMA SetInduction ==
  ASSUME NEW N \in Nat, NEW T, 0 \in T,
         \A n \in 0..(N - 1) : n \in T => n + 1 \in T
  PROVE  0..N \subseteq T
<1> DEFINE R == OpToRel(<, Nat)
           Missing == (0..N) \ T
<1>1. IsWellFoundedOn(R, Nat)
  BY NatLessThanWellFounded
<1>2. \A i, j \in Nat : <<i, j>> \in R <=> i < j
  BY DEF OpToRel
<1>3. SUFFICES ASSUME Missing # {} PROVE FALSE
  OBVIOUS
<1>4. PICK x \in Missing : \A y \in Missing : ~ (<<y, x>> \in R)
  <2>1. Missing \subseteq Nat
    OBVIOUS
  <2> HIDE DEF R, Missing
  <2> QED
    BY <1>1, <1>3, <2>1, WFMin
<1> HIDE DEF R
<1>5. x \in 1..N
  OBVIOUS
<1>6. x - 1 \in Missing /\ <<x - 1, x>> \in R
  <2>1. x - 1 \in 0..(N - 1) /\ x - 1 \notin T
    BY <1>5
  <2> QED
    BY <2>1, <1>2, <1>5
<1> QED
  BY <1>4, <1>6

\* A function that is defined from its value at the next lower number: step[i] makes of the value at
\* i - 1 the one at i.
Recursive(g, N, base, step) == g[0] = base /\ \A i \in 1..N : g[i] = step[i][g[i - 1]]

\* There is one.
LEMMA RecursionExists ==
  ASSUME NEW N \in Nat, NEW S, NEW base \in S, NEW step \in [1..N -> [S -> S]]
  PROVE  \E g \in [0..N -> S] : Recursive(g, N, base, step)
<1> DEFINE Upto(n, g) == Recursive(g, n, base, step)
           T == {n \in 0..N : \E g \in [0..n -> S] : Upto(n, g)}
<1>1. 0 \in T
  <2>1. [i \in 0..0 |-> base] \in [0..0 -> S] /\ Upto(0, [i \in 0..0 |-> base])
    BY DEF Recursive
  <2>2. 0 \in 0..N
    OBVIOUS
  <2> HIDE DEF Upto
  <2> QED
    BY <2>1, <2>2
<1>2. ASSUME NEW n \in 0..(N - 1), n \in T PROVE n + 1 \in T
  <2>1. PICK g \in [0..n -> S] : Upto(n, g)
    BY <1>2
  <2> DEFINE h == [i \in 0..(n + 1) |-> IF i <= n THEN g[i] ELSE step[n + 1][g[n]]]
  <2>2. n \in Nat /\ n + 1 \in 1..N /\ n \in 0..n
    OBVIOUS
  <2>3. g[n] \in S /\ step[n + 1] \in [S -> S]
    BY <2>2
  <2>4. h \in [0..(n + 1) -> S]
    BY <2>2, <2>3
  <2>5. h[0] = base
    BY <2>1, <2>2 DEF Recursive
  <2>6. ASSUME NEW i \in 1..(n + 1) PROVE h[i] = step[i][h[i - 1]]
    <3>1. CASE i <= n
      BY <3>1, <2>1, <2>2 DEF Recursive
    <3>2. CASE i = n + 1
      BY <3>2, <2>2
    <3> QED
      BY <3>1, <3>2, <2>2
  <2>7. Upto(n + 1, h)
    BY <2>5, <2>6 DEF Recursive
  <2>8. n + 1 \in 0..N
    BY <2>2
  <2> HIDE DEF Upto, h
  <2> QED
    BY <2>4, <2>7, <2>8
<1>3. N \in T
  <2>1. 0..N \subseteq T
    <3> HIDE DEF T
    <3> QED
      BY <1>1, <1>2, SetInduction
  <2> QED
    BY <2>1
<1> QED
  BY <1>3

StepsIn(f, N, S, step) == \A i \in 1..N : f[i - 1] \in S => f[i] = step[i][f[i - 1]]

\* What is defined that way never leaves the set of values.
LEMMA RecursionValues ==
  ASSUME NEW N \in Nat, NEW S, NEW base \in S, NEW step \in [1..N -> [S -> S]],
         NEW f, f[0] = base, StepsIn(f, N, S, step)
  PROVE  (\A i \in 0..N : f[i] \in S) /\ Recursive(f, N, base, step)
<1> DEFINE T == {i \in 0..N : f[i] \in S}
<1>1. 0 \in T
  OBVIOUS
<1>2. ASSUME NEW n \in 0..(N - 1), n \in T PROVE n + 1 \in T
  <2>1. n + 1 \in 1..N /\ (n + 1) - 1 = n
    OBVIOUS
  <2>2. step[n + 1] \in [S -> S]
    BY <2>1
  <2>3. f[n + 1] = step[n + 1][f[n]]
    BY <1>2, <2>1 DEF StepsIn
  <2> QED
    BY <1>2, <2>1, <2>2, <2>3
<1>3. 0..N \subseteq T
  <2> HIDE DEF T
  <2> QED
    BY <1>1, <1>2, SetInduction
<1>4. \A i \in 1..N : i - 1 \in 0..N
  OBVIOUS
<1> QED
  BY <1>3, <1>4 DEF Recursive, StepsIn

-----------------------------------------------------------------------------
(***************************************************************************)
(* The lines of a service.                                                  *)
(***************************************************************************)
Lines == SocketUnits \X Nat

LEMMA LinesOfType ==
  ASSUME NEW u \in SocketUnits
  PROVE  /\ LinesOf(u) \in Seq(Lines) /\ Len(LinesOf(u)) = Len(Listen[u])
         /\ \A i \in DOMAIN Listen[u] : LinesOf(u)[i] = <<u, i>>
<1>1. Listen[u] \in Seq(Paths)
  BY SocketAssumption
<1>2. Len(Listen[u]) \in Nat /\ DOMAIN Listen[u] = 1..Len(Listen[u])
  BY <1>1, LenProperties
<1>3. LinesOf(u) \in [1..Len(Listen[u]) -> Lines]
  BY <1>2 DEF LinesOf, Lines
<1>4. LinesOf(u) \in Seq(Lines)
  BY <1>2, <1>3, SeqDef
<1> QED
  BY <1>2, <1>3, <1>4, LenProperties DEF LinesOf

\* LinesUpTo is the function that its recursive definition describes.
LEMMA LinesUpToDef ==
  ASSUME NEW s \in Services
  PROVE  LET units == SocketsOf[s]
             upTo == LinesUpTo(s)
         IN /\ Len(units) \in Nat
            /\ \A m \in 1..Len(units) : units[m] \in SocketUnits
            /\ upTo \in [0..Len(units) -> Seq(Lines)] /\ upTo[0] = <<>>
            /\ \A m \in 1..Len(units) : upTo[m] = upTo[m - 1] \o LinesOf(units[m])
<1> DEFINE units == SocketsOf[s]
           N == Len(units)
<1>1. units \in Seq(SocketUnits)
  BY SocketAssumption
<1>2. N \in Nat /\ \A m \in 1..N : units[m] \in SocketUnits
  BY <1>1, LenProperties
<1> DEFINE step == [m \in 1..N |-> [x \in Seq(Lines) |-> x \o LinesOf(units[m])]]
<1>3. step \in [1..N -> [Seq(Lines) -> Seq(Lines)]]
  BY <1>2, LinesOfType, ConcatProperties
<1>4. <<>> \in Seq(Lines)
  BY EmptySeq
<1>5. PICK g \in [0..N -> Seq(Lines)] :
        g[0] = <<>> /\ \A m \in 1..N : g[m] = step[m][g[m - 1]]
  <2> DEFINE S == Seq(Lines)
             empty == <<>>
  <2>1. N \in Nat /\ empty \in S /\ step \in [1..N -> [S -> S]]
    BY <1>2, <1>3, <1>4
  <2>2. \E g \in [0..N -> S] : Recursive(g, N, empty, step)
    <3> HIDE DEF step, N, units, S, empty
    <3> QED
      BY <2>1, RecursionExists
  <2> QED
    BY <2>2, Zenon DEF Recursive
<1> DEFINE Def(f) == [m \in 0..N |-> IF m = 0 THEN <<>> ELSE f[m - 1] \o LinesOf(units[m])]
<1>6. ASSUME NEW m \in 1..N PROVE g[m] = g[m - 1] \o LinesOf(units[m])
  <2>1. m - 1 \in 0..N
    BY <1>2
  <2> QED
    BY <1>5, <2>1
<1>7. g = Def(g)
  <2>1. ASSUME NEW m \in 0..N PROVE g[m] = Def(g)[m]
    <3>1. CASE m = 0
      BY <3>1, <1>5
    <3>2. CASE m # 0
      <4>1. m \in 1..N
        BY <3>2, <1>2
      <4> QED
        BY <4>1, <3>2, <1>6
    <3> QED
      BY <3>1, <3>2
  <2> QED
    BY <1>5, <2>1
<1>8. LinesUpTo(s) = CHOOSE f : f = Def(f)
  BY DEF LinesUpTo
<1>9. LinesUpTo(s) = Def(LinesUpTo(s))
  <2> HIDE DEF Def
  <2> QED
    BY <1>7, <1>8
<1> DEFINE f == LinesUpTo(s)
<1>10. f = [m \in 0..N |-> IF m = 0 THEN <<>> ELSE f[m - 1] \o LinesOf(units[m])]
  BY <1>9
<1> HIDE DEF f, Def
<1>11. \A m \in 1..N : m \in 0..N /\ m - 1 \in 0..N /\ m # 0
  BY <1>2
<1>12. f[0] = <<>> /\ \A m \in 1..N : f[m] = f[m - 1] \o LinesOf(units[m])
  <2>1. 0 \in 0..N
    BY <1>2
  <2>2. f[0] = <<>>
    <3> HIDE DEF N, units
    <3> QED
      BY <2>1, <1>10
  <2>3. ASSUME NEW m \in 1..N PROVE f[m] = f[m - 1] \o LinesOf(units[m])
    <3> HIDE DEF N, units
    <3> QED
      BY <1>10, <1>11
  <2> QED
    BY <2>2, <2>3
<1>13. \A m \in 0..N : f[m] \in Seq(Lines)
  <2> DEFINE S == Seq(Lines)
             empty == <<>>
  <2>1. StepsIn(f, N, S, step)
    BY <1>12 DEF StepsIn
  <2>2. N \in Nat /\ empty \in S /\ step \in [1..N -> [S -> S]] /\ f[0] = empty
    BY <1>2, <1>3, <1>4, <1>12
  <2>3. \A m \in 0..N : f[m] \in S
    <3> HIDE DEF step, N, units, S, empty
    <3> QED
      BY <2>1, <2>2, RecursionValues
  <2> QED
    BY <2>3
<1>14. f \in [0..N -> Seq(Lines)]
  BY <1>10, <1>13
<1> QED
  BY <1>2, <1>12, <1>14 DEF f

\* Flattening a sequence of sequences appends one after the other.
Appends(upTo, N, seqs) ==
  upTo[0] = <<>> /\ \A i \in 1..N : upTo[i] = upTo[i - 1] \o seqs[i]

LEMMA FlattenIsUpTo ==
  ASSUME NEW A, NEW N \in Nat, NEW seqs \in [1..N -> Seq(A)], NEW upTo, Appends(upTo, N, seqs)
  PROVE  FlattenSeq(seqs) = upTo[N]
<1>1. seqs \in Seq(Seq(A)) /\ Len(seqs) = N
  BY SeqDef
<1>2. CASE N = 0
  <2>1. seqs = <<>>
    BY <1>1, <1>2, EmptySeq
  <2> QED
    BY <1>1, <1>2, <2>1 DEF FlattenSeq, Appends
<1>3. CASE N # 0
  <2> DEFINE Def(f) == [i \in 1..N |-> IF i = 1 THEN seqs[i] ELSE f[i - 1] \o seqs[i]]
             g == [i \in 1..N |-> upTo[i]]
             f == CHOOSE x : x = Def(x)
  <2>1. 1 \in 1..N /\ \A i \in 1..N : i # 1 => i - 1 \in 1..N
    BY <1>3
  <2>2. upTo[1] = seqs[1]
    <3>1. seqs[1] \in Seq(A) /\ upTo[1] = upTo[1 - 1] \o seqs[1] /\ upTo[0] = <<>>
      BY <2>1 DEF Appends
    <3>2. 1 - 1 = 0
      OBVIOUS
    <3>3. <<>> \o seqs[1] = seqs[1]
      BY <3>1, ConcatEmptySeq
    <3> QED
      BY <3>1, <3>2, <3>3
  <2>3. g = Def(g)
    BY <2>1, <2>2 DEF Appends
  <2>4. f = Def(f)
    <3> HIDE DEF Def
    <3> QED
      BY <2>3
  <2>5. FlattenSeq(seqs) = f[N]
    BY <1>1, <1>3 DEF FlattenSeq
  <2> HIDE DEF f
  <2>6. f[1] = seqs[1] /\ \A i \in 1..N : i # 1 => f[i] = f[i - 1] \o seqs[i]
    BY <2>1, <2>4
  <2> DEFINE T == {n \in 0..N : n = 0 \/ f[n] = upTo[n]}
  <2>7. 0..N \subseteq T
    <3>1. 0 \in T
      OBVIOUS
    <3>2. ASSUME NEW n \in 0..(N - 1), n \in T PROVE n + 1 \in T
      <4>1. n + 1 \in 1..N /\ (n + 1) - 1 = n /\ n + 1 \in 0..N
        OBVIOUS
      <4>2. CASE n = 0
        BY <4>1, <4>2, <2>2, <2>6
      <4>3. CASE n # 0
        <5>1. n + 1 # 1 /\ f[n] = upTo[n]
          BY <3>2, <4>3
        <5>2. f[n + 1] = f[(n + 1) - 1] \o seqs[n + 1]
          BY <2>6, <4>1, <5>1
        <5>3. upTo[n + 1] = upTo[(n + 1) - 1] \o seqs[n + 1]
          BY <4>1 DEF Appends
        <5> QED
          BY <4>1, <5>1, <5>2, <5>3
      <4> QED
        BY <4>2, <4>3
    <3> HIDE DEF T
    <3> QED
      BY <3>1, <3>2, SetInduction
  <2>8. N \in 0..N
    OBVIOUS
  <2> QED
    BY <1>3, <2>5, <2>7, <2>8
<1> QED
  BY <1>2, <1>3

\* LinesUpTo goes up to the lines of the whole service.
LEMMA LinesOfServiceDef ==
  ASSUME NEW s \in Services
  PROVE  FlattenSeq(LinesOfService(s)) = LinesUpTo(s)[Len(SocketsOf[s])]
<1> DEFINE N == Len(SocketsOf[s])
           upTo == LinesUpTo(s)
           seqs == LinesOfService(s)
<1>1. SocketsOf[s] \in Seq(SocketUnits) /\ DOMAIN SocketsOf[s] = 1..N
  BY SocketAssumption, LenProperties
<1>2. N \in Nat /\ upTo[0] = <<>>
      /\ \A m \in 1..N : /\ SocketsOf[s][m] \in SocketUnits
                         /\ upTo[m] = upTo[m - 1] \o LinesOf(SocketsOf[s][m])
  BY LinesUpToDef
<1>3. seqs \in [1..N -> Seq(Lines)] /\ \A m \in 1..N : seqs[m] = LinesOf(SocketsOf[s][m])
  BY <1>1, <1>2, LinesOfType DEF LinesOfService
<1>4. Appends(upTo, N, seqs)
  BY <1>2, <1>3 DEF Appends
<1> HIDE DEF N, upTo, seqs
<1>5. FlattenSeq(seqs) = upTo[N]
  BY <1>2, <1>3, <1>4, FlattenIsUpTo
<1> QED
  BY <1>5 DEF N, upTo, seqs

\* Each of these lines is a line of one of the units.
LineOf(l, s, m) ==
  \E i \in 1..m : l[1] = SocketsOf[s][i] /\ l[1] \in SocketUnits /\ l[2] \in DOMAIN Listen[l[1]]

LEMMA LinesAreOfUnits ==
  ASSUME NEW s \in Services, NEW m \in 0..Len(SocketsOf[s])
  PROVE  \A n \in 1..Len(LinesUpTo(s)[m]) : LineOf(LinesUpTo(s)[m][n], s, m)
<1> DEFINE N == Len(SocketsOf[s])
           upTo == LinesUpTo(s)
           T == {k \in 0..N : \A n \in 1..Len(upTo[k]) : LineOf(upTo[k][n], s, k)}
<1>1. /\ N \in Nat
      /\ \A k \in 1..N : SocketsOf[s][k] \in SocketUnits
      /\ upTo \in [0..N -> Seq(Lines)] /\ upTo[0] = <<>>
      /\ \A k \in 1..N : upTo[k] = upTo[k - 1] \o LinesOf(SocketsOf[s][k])
  BY LinesUpToDef
<1>2. 0 \in T
  BY <1>1, EmptySeq
<1>3. ASSUME NEW k \in 0..(N - 1), k \in T PROVE k + 1 \in T
  <2> DEFINE u == SocketsOf[s][k + 1]
             a == upTo[k]
             b == LinesOf(u)
  <2>1. k + 1 \in 1..N /\ (k + 1) - 1 = k /\ k \in 0..N /\ k + 1 \in 0..N
    BY <1>1
  <2>2. upTo[k + 1] = a \o b /\ a \in Seq(Lines) /\ u \in SocketUnits
    BY <1>1, <2>1
  <2>3. b \in Seq(Lines) /\ Len(b) = Len(Listen[u]) /\ \A i \in DOMAIN Listen[u] : b[i] = <<u, i>>
    BY <2>2, LinesOfType
  <2>4. DOMAIN Listen[u] = 1..Len(b)
    BY <2>2, <2>3, SocketAssumption, LenProperties
  <2> HIDE DEF u, a, b
  <2>5. /\ Len(a) \in Nat /\ Len(b) \in Nat /\ Len(a \o b) = Len(a) + Len(b)
        /\ \A n \in 1..(Len(a) + Len(b)) : (a \o b)[n] = IF n <= Len(a) THEN a[n] ELSE b[n - Len(a)]
    BY <2>2, <2>3, ConcatProperties, LenProperties
  <2>6. ASSUME NEW n \in 1..(Len(a) + Len(b)) PROVE LineOf((a \o b)[n], s, k + 1)
    <3>1. CASE n <= Len(a)
      <4>1. n \in 1..Len(a) /\ (a \o b)[n] = a[n]
        BY <2>5, <3>1
      <4>2. LineOf(a[n], s, k)
        BY <4>1, <1>3 DEF a
      <4>3. 1..k \subseteq 1..(k + 1)
        OBVIOUS
      <4> QED
        BY <4>1, <4>2, <4>3 DEF LineOf
    <3>2. CASE ~ (n <= Len(a))
      <4>1. n - Len(a) \in DOMAIN Listen[u] /\ (a \o b)[n] = b[n - Len(a)]
        BY <2>4, <2>5, <3>2
      <4>2. (a \o b)[n] = <<u, n - Len(a)>>
        BY <2>3, <4>1
      <4>3. k + 1 \in 1..(k + 1)
        OBVIOUS
      <4> QED
        BY <2>2, <4>1, <4>2, <4>3 DEF LineOf, u
    <3> QED
      BY <3>1, <3>2
  <2> QED
    BY <2>1, <2>2, <2>5, <2>6
<1>4. 0..N \subseteq T
  <2> HIDE DEF T, N
  <2> QED
    BY <1>1, <1>2, <1>3, SetInduction
<1> QED
  BY <1>4

-----------------------------------------------------------------------------
(***************************************************************************)
(* What pre_exec does to the descriptors of a child.                        *)
(***************************************************************************)
Values == Sockets \cup {NoSocket, Other}
Child(n) == [fds : [Fds -> Values], src : [1..n -> Fds], ok : BOOLEAN]

\* Unless it fails, the first loop loses none of the wanted sockets; what it has visited is out of the
\* range that is about to be filled.
MoveInv(c, n, i, want) ==
  c.ok =>
    /\ \A j, k \in 1..n : c.src[j] = c.src[k] => j = k
    /\ \A j \in 1..n : c.fds[c.src[j]] = want[j]
    /\ \A j \in 1..n : j <= i => c.src[j] >= FirstFd + n

\* The second one puts them in place, one after the other.
PlaceInv(c, n, i, want) ==
  c.ok =>
    /\ \A j, k \in 1..n : c.src[j] = c.src[k] => j = k
    /\ \A j \in 1..n : c.src[j] >= FirstFd + n
    /\ \A j \in 1..n : c.fds[IF j <= i THEN FirstFd + j - 1 ELSE c.src[j]] = want[j]

LEMMA FdType == Fds \subseteq Nat /\ FirstFd \in Nat /\ MaxFd \in Nat
BY SocketAssumption DEF Fds, FirstFd

LEMMA MoveAwayStep ==
  ASSUME NEW n \in Nat, NEW i \in 1..n, NEW c \in Child(n)
  PROVE  /\ MoveAway(n, c, i) \in Child(n)
         /\ \A want \in [1..n -> Sockets] :
              MoveInv(c, n, i - 1, want) => MoveInv(MoveAway(n, c, i), n, i, want)
<1> DEFINE free == {f \in Fds : LowestFree(c.fds, FirstFd + n, f)}
           f == CHOOSE f \in free : TRUE
<1>1. c.fds \in [Fds -> Values] /\ c.src \in [1..n -> Fds] /\ c.ok \in BOOLEAN
  BY DEF Child
<1>2. CASE c.src[i] >= FirstFd + n
  <2>1. MoveAway(n, c, i) = c
    BY <1>2 DEF MoveAway
  <2>2. \A j \in 1..n : j <= i => j <= i - 1 \/ j = i
    OBVIOUS
  <2> QED
    BY <1>2, <2>1, <2>2 DEF MoveInv
<1>3. CASE ~ (c.src[i] >= FirstFd + n) /\ free = {}
  <2>1. MoveAway(n, c, i) = [c EXCEPT !.ok = FALSE]
    BY <1>3 DEF MoveAway
  <2>2. [c EXCEPT !.ok = FALSE] \in Child(n) /\ [c EXCEPT !.ok = FALSE].ok = FALSE
    BY DEF Child
  <2> QED
    BY <2>1, <2>2 DEF MoveInv
<1>4. CASE ~ (c.src[i] >= FirstFd + n) /\ free # {}
  <2> DEFINE d == [fds |-> [c.fds EXCEPT ![f] = c.fds[c.src[i]], ![c.src[i]] = NoSocket],
                   src |-> [c.src EXCEPT ![i] = f], ok |-> c.ok]
  <2>1. MoveAway(n, c, i) = d
    BY <1>4 DEF MoveAway
  <2>2. f \in Fds /\ f >= FirstFd + n /\ c.fds[f] = NoSocket
    BY <1>4 DEF LowestFree
  <2> HIDE DEF f
  <2>3. NoSocket \in Values /\ c.src[i] \in Fds /\ c.fds[c.src[i]] \in Values
    BY <1>1 DEF Values
  <2>4. d \in Child(n)
    BY <1>1, <2>2, <2>3 DEF Child
  <2>5. ASSUME NEW want \in [1..n -> Sockets], MoveInv(c, n, i - 1, want) PROVE MoveInv(d, n, i, want)
    <3>1. SUFFICES ASSUME c.ok
                   PROVE  /\ \A j, k \in 1..n : d.src[j] = d.src[k] => j = k
                          /\ \A j \in 1..n : d.fds[d.src[j]] = want[j]
                          /\ \A j \in 1..n : j <= i => d.src[j] >= FirstFd + n
      BY DEF MoveInv
    <3>2. /\ \A j, k \in 1..n : c.src[j] = c.src[k] => j = k
          /\ \A j \in 1..n : c.fds[c.src[j]] = want[j]
          /\ \A j \in 1..n : j <= i - 1 => c.src[j] >= FirstFd + n
      BY <2>5, <3>1 DEF MoveInv
    <3>3. \A j \in 1..n : c.src[j] # f
      BY <2>2, <3>2, SocketAssumption
    <3>4. d.src[i] = f /\ \A j \in 1..n : j # i => d.src[j] = c.src[j] /\ c.src[j] # c.src[i]
      BY <1>1, <3>2
    <3>5. d.fds[f] = c.fds[c.src[i]]
          /\ \A g \in Fds : g # f /\ g # c.src[i] => d.fds[g] = c.fds[g]
      BY <1>1, <2>2, <2>3, <3>3
    <3>6. \A j, k \in 1..n : d.src[j] = d.src[k] => j = k
      BY <3>2, <3>3, <3>4
    <3>7. \A j \in 1..n : d.fds[d.src[j]] = want[j]
      BY <1>1, <3>2, <3>3, <3>4, <3>5
    <3>8. \A j \in 1..n : j <= i => d.src[j] >= FirstFd + n
      BY <2>2, <3>2, <3>4
    <3> QED
      BY <3>6, <3>7, <3>8
  <2> QED
    BY <2>1, <2>4, <2>5
<1> QED
  BY <1>2, <1>3, <1>4

LEMMA PutInPlaceStep ==
  ASSUME NEW n \in Nat, NEW i \in 1..n, NEW c \in Child(n)
  PROVE  /\ PutInPlace(c, i) \in Child(n)
         /\ \A want \in [1..n -> Sockets] :
              PlaceInv(c, n, i - 1, want) => PlaceInv(PutInPlace(c, i), n, i, want)
<1> DEFINE target == FirstFd + i - 1
           fds == [f \in Fds |-> IF f = target THEN c.fds[c.src[i]]
                                 ELSE IF f = c.src[i] THEN NoSocket ELSE c.fds[f]]
           d == PutInPlace(c, i)
<1>1. c.fds \in [Fds -> Values] /\ c.src \in [1..n -> Fds] /\ c.ok \in BOOLEAN
  BY DEF Child
<1>2. d.fds = fds /\ d.src = c.src /\ d.ok = c.ok /\ d \in Child(n)
  <2>1. fds \in [Fds -> Values]
    BY <1>1 DEF Values
  <2> QED
    BY <2>1 DEF PutInPlace, Child
<1> HIDE DEF d
<1>3. ASSUME NEW want \in [1..n -> Sockets], PlaceInv(c, n, i - 1, want) PROVE PlaceInv(d, n, i, want)
  <2>1. SUFFICES ASSUME c.ok
                 PROVE  \A j \in 1..n : d.fds[IF j <= i THEN FirstFd + j - 1 ELSE c.src[j]] = want[j]
    BY <1>2, <1>3 DEF PlaceInv
  <2>2. /\ \A j, k \in 1..n : c.src[j] = c.src[k] => j = k
        /\ \A j \in 1..n : c.src[j] >= FirstFd + n
        /\ \A j \in 1..n : c.fds[IF j <= i - 1 THEN FirstFd + j - 1 ELSE c.src[j]] = want[j]
    BY <1>3, <2>1 DEF PlaceInv
  <2> TAKE j \in 1..n
  <2>3. FirstFd + j - 1 \in Fds /\ c.src[j] \in Fds /\ c.src[i] \in Fds
    BY <1>1, <2>2, FdType DEF Fds
  <2>4. CASE j < i
    <3>1. FirstFd + j - 1 # target /\ FirstFd + j - 1 # c.src[i]
      BY <2>2, <2>3, <2>4, FdType
    <3>2. c.fds[FirstFd + j - 1] = want[j]
      BY <2>2, <2>4
    <3> QED
      BY <1>2, <2>3, <2>4, <3>1, <3>2
  <2>5. CASE j = i
    <3>1. c.fds[c.src[i]] = want[i]
      BY <2>2
    <3> QED
      BY <1>2, <2>3, <2>5, <3>1
  <2>6. CASE j > i
    <3>1. c.src[j] # target /\ c.src[j] # c.src[i]
      BY <2>2, <2>3, <2>6, FdType
    <3>2. c.fds[c.src[j]] = want[j]
      BY <2>2, <2>6
    <3> QED
      BY <1>2, <2>3, <2>6, <3>1, <3>2
  <2> QED
    BY <2>4, <2>5, <2>6
<1> QED
  BY <1>2, <1>3 DEF d

\* Moved and Placed are the functions that their recursive definitions describe, and keep the above.
LEMMA MovedDef ==
  ASSUME NEW n \in Nat, NEW copies \in [1..n -> Fds], Len(copies) = n,
         Forked(copies) \in Child(n)
  PROVE  LET moved == Moved(copies) IN
         /\ moved[0] = Forked(copies) /\ \A i \in 0..n : moved[i] \in Child(n)
         /\ \A i \in 1..n : moved[i] = MoveAway(n, moved[i - 1], i)
<1> DEFINE S == Child(n)
           base == Forked(copies)
           step == [i \in 1..n |-> [c \in S |-> MoveAway(n, c, i)]]
           Def(x) == [i \in 0..n |-> IF i = 0 THEN base ELSE MoveAway(n, x[i - 1], i)]
           f == Moved(copies)
<1>1. step \in [1..n -> [S -> S]]
  BY MoveAwayStep
<1>2. PICK g \in [0..n -> S] : Recursive(g, n, base, step)
  <2> HIDE DEF S, base, step
  <2> QED
    BY <1>1, RecursionExists DEF S, base
<1>3. \A i \in 1..n : i # 0 /\ i - 1 \in 0..n /\ i \in 0..n
  OBVIOUS
<1>4. g = Def(g)
  <2>1. \A i \in 1..n : g[i] = MoveAway(n, g[i - 1], i)
    BY <1>2, <1>3 DEF Recursive
  <2>2. \A i \in 0..n : i # 0 => i \in 1..n
    OBVIOUS
  <2> HIDE DEF S
  <2> QED
    BY <1>2, <2>1, <2>2 DEF Recursive
<1>5. f = Def(f)
  <2>1. f = CHOOSE x : x = Def(x)
    BY DEF Moved
  <2> HIDE DEF Def, f
  <2> QED
    BY <1>4, <2>1
<1> HIDE DEF f, S, base
<1>6. f[0] = base /\ \A i \in 1..n : f[i] = MoveAway(n, f[i - 1], i)
  BY <1>3, <1>5
<1>7. StepsIn(f, n, S, step)
  BY <1>6 DEF StepsIn
<1>8. \A i \in 0..n : f[i] \in S
  <2> HIDE DEF step
  <2> QED
    BY <1>1, <1>6, <1>7, RecursionValues DEF S, base
<1> QED
  BY <1>6, <1>8 DEF f, S, base

LEMMA PlacedDef ==
  ASSUME NEW n \in Nat, NEW copies \in [1..n -> Fds], Len(copies) = n,
         Forked(copies) \in Child(n)
  PROVE  LET placed == Placed(copies) IN
         /\ placed[0] = Moved(copies)[n] /\ \A i \in 0..n : placed[i] \in Child(n)
         /\ \A i \in 1..n : placed[i] = PutInPlace(placed[i - 1], i)
<1> DEFINE S == Child(n)
           base == Moved(copies)[n]
           step == [i \in 1..n |-> [c \in S |-> PutInPlace(c, i)]]
           Def(x) == [i \in 0..n |-> IF i = 0 THEN base ELSE PutInPlace(x[i - 1], i)]
           f == Placed(copies)
<1>1. step \in [1..n -> [S -> S]]
  BY PutInPlaceStep
<1>2. base \in S
  <2>1. n \in 0..n
    OBVIOUS
  <2> QED
    BY <2>1, MovedDef
<1>3. PICK g \in [0..n -> S] : Recursive(g, n, base, step)
  <2> HIDE DEF S, base, step
  <2> QED
    BY <1>1, <1>2, RecursionExists
<1>4. \A i \in 1..n : i # 0 /\ i - 1 \in 0..n /\ i \in 0..n
  OBVIOUS
<1>5. g = Def(g)
  <2>1. \A i \in 1..n : g[i] = PutInPlace(g[i - 1], i)
    BY <1>3, <1>4 DEF Recursive
  <2>2. \A i \in 0..n : i # 0 => i \in 1..n
    OBVIOUS
  <2> HIDE DEF S, base
  <2> QED
    BY <1>3, <2>1, <2>2 DEF Recursive
<1>6. f = Def(f)
  <2>1. f = CHOOSE x : x = Def(x)
    BY DEF Placed
  <2> HIDE DEF Def, f
  <2> QED
    BY <1>5, <2>1
<1> HIDE DEF f, S, base
<1>7. f[0] = base /\ \A i \in 1..n : f[i] = PutInPlace(f[i - 1], i)
  BY <1>4, <1>6
<1>8. StepsIn(f, n, S, step)
  BY <1>7 DEF StepsIn
<1>9. \A i \in 0..n : f[i] \in S
  <2> HIDE DEF step
  <2> QED
    BY <1>1, <1>2, <1>7, <1>8, RecursionValues
<1> QED
  BY <1>7, <1>9 DEF f, S, base

\* What pre_exec promises: if it succeeds, the i-th copy's socket is at FirstFd + i - 1, wherever the
\* copies were.
LEMMA PassInOrder ==
  ASSUME NEW n \in Nat, NEW copies \in [1..n -> Fds], Len(copies) = n,
         table \in [Fds -> Values],
         \A i, j \in 1..n : copies[i] = copies[j] => i = j,
         \A i \in 1..n : table[copies[i]] \in Sockets
  PROVE  LET child == Pass(copies) IN
         /\ child \in Child(n)
         /\ child.ok => \A i \in 1..n : FirstFd + i - 1 \in Fds
                                        /\ child.fds[FirstFd + i - 1] = table[copies[i]]
<1> DEFINE want == [i \in 1..n |-> table[copies[i]]]
           moved == Moved(copies)
           placed == Placed(copies)
<1>1. want \in [1..n -> Sockets] /\ n \in 0..n
  OBVIOUS
<1>2. Forked(copies) \in Child(n) /\ MoveInv(Forked(copies), n, 0, want)
  BY DEF Forked, Child, MoveInv
<1>3. /\ moved[0] = Forked(copies) /\ \A i \in 0..n : moved[i] \in Child(n)
      /\ \A i \in 1..n : moved[i] = MoveAway(n, moved[i - 1], i)
  BY <1>2, MovedDef
<1>4. /\ placed[0] = moved[n] /\ \A i \in 0..n : placed[i] \in Child(n)
      /\ \A i \in 1..n : placed[i] = PutInPlace(placed[i - 1], i)
  BY <1>2, PlacedDef
<1> HIDE DEF want, moved, placed
<1> DEFINE T == {i \in 0..n : MoveInv(moved[i], n, i, want)}
           U == {i \in 0..n : PlaceInv(placed[i], n, i, want)}
<1>5. ASSUME NEW k \in 0..(n - 1) PROVE k + 1 \in 1..n /\ (k + 1) - 1 = k /\ k \in 0..n /\ k + 1 \in 0..n
  OBVIOUS
<1>6. 0..n \subseteq T
  <2>1. 0 \in T
    BY <1>2, <1>3
  <2>2. ASSUME NEW k \in 0..(n - 1), k \in T PROVE k + 1 \in T
    <3>1. MoveInv(moved[k], n, (k + 1) - 1, want) /\ moved[k] \in Child(n)
      BY <2>2, <1>3, <1>5
    <3>2. MoveInv(MoveAway(n, moved[k], k + 1), n, k + 1, want)
      BY <3>1, <1>1, <1>5, MoveAwayStep
    <3>3. moved[k + 1] = MoveAway(n, moved[k], k + 1)
      BY <1>3, <1>5
    <3> QED
      BY <3>2, <3>3, <1>5
  <2> HIDE DEF T
  <2> QED
    BY <2>1, <2>2, SetInduction
<1>7. PlaceInv(placed[0], n, 0, want)
  BY <1>1, <1>4, <1>6 DEF MoveInv, PlaceInv
<1>8. 0..n \subseteq U
  <2>1. 0 \in U
    BY <1>7
  <2>2. ASSUME NEW k \in 0..(n - 1), k \in U PROVE k + 1 \in U
    <3>1. PlaceInv(placed[k], n, (k + 1) - 1, want) /\ placed[k] \in Child(n)
      BY <2>2, <1>4, <1>5
    <3>2. PlaceInv(PutInPlace(placed[k], k + 1), n, k + 1, want)
      BY <3>1, <1>1, <1>5, PutInPlaceStep
    <3>3. placed[k + 1] = PutInPlace(placed[k], k + 1)
      BY <1>4, <1>5
    <3> QED
      BY <3>2, <3>3, <1>5
  <2> HIDE DEF U
  <2> QED
    BY <2>1, <2>2, SetInduction
<1>9. Pass(copies) = placed[n] /\ placed[n] \in Child(n) /\ PlaceInv(placed[n], n, n, want)
  BY <1>1, <1>4, <1>8 DEF Pass, placed
<1> DEFINE child == placed[n]
<1>10. ASSUME child.ok, NEW i \in 1..n
       PROVE  FirstFd + i - 1 \in Fds /\ child.fds[FirstFd + i - 1] = table[copies[i]]
  <2>1. child.src[i] >= FirstFd + n /\ child.fds[FirstFd + i - 1] = want[i]
    BY <1>9, <1>10 DEF PlaceInv
  <2>2. child.src[i] \in Fds
    BY <1>9 DEF Child
  <2> QED
    BY <2>1, <2>2, FdType DEF Fds, want
<1> QED
  BY <1>9, <1>10

-----------------------------------------------------------------------------
(***************************************************************************)
(* Type correctness.                                                        *)
(***************************************************************************)
LEMMA OpFields ==
  ASSUME TypeOK
  PROVE  /\ op.step \in {"idle", "bind", "collect", "copy", "wait", "panic"}
         /\ op.svc \in Services \cup {NoService}
         /\ op.units \in Seq(SocketUnits) /\ op.lines \in Seq(Paths)
         /\ op.new \in Seq(Fds) /\ op.copies \in Seq(Fds) /\ op.sources \in Seq(Fds)
BY DEF TypeOK, Ops

LEMMA IdleType == Idle \in Ops
BY DEF Idle, Ops

LEMMA InitTypeOK == Init => TypeOK
<1>1. Down \in Processes
  BY DEF Down, Processes
<1> QED
  BY <1>1, IdleType, SocketAssumption DEF Init, TypeOK, NotWaiting

\* A socket unit is bound with the fields that the operation keeps.
LEMMA BindingType ==
  ASSUME NEW u \in SocketUnits, NEW o \in Ops
  PROVE  Binding(u, o) \in Ops
<1>1. Listen[u] \in Seq(Paths) /\ <<>> \in Seq(Fds)
  BY SocketAssumption, EmptySeq
<1> QED
  BY <1>1 DEF Binding, Ops

LEMMA AbandonType ==
  ASSUME TypeOK, Abandon
  PROVE  op' \in Ops /\ table' \in [Fds -> Sockets \cup {NoSocket, Other}]
BY IdleType DEF TypeOK, Abandon, Close

LEMMA ResetsType ==
  ASSUME TypeOK, Resets
  PROVE  waiting' \in [Clients -> Sockets \cup NotWaiting]
BY DEF TypeOK, Resets, NotWaiting

LEMMA KernelTypeOK ==
  ASSUME TypeOK,
         \/ \E c \in Clients : (\E path \in Paths : Connect(c, path)) \/ (\E p \in Procs : Accept(c, p))
         \/ \E p \in Procs : Exit(p)
         \/ OtherOpens \/ OtherCloses
  PROVE  TypeOK'
<1>1. ASSUME NEW c \in Clients, NEW path \in Paths, Connect(c, path) PROVE TypeOK'
  BY <1>1 DEF Connect, TypeOK
<1>2. ASSUME NEW c \in Clients, NEW p \in Procs, Accept(c, p) PROVE TypeOK'
  BY <1>2 DEF Accept, TypeOK, NotWaiting
<1>3. ASSUME NEW p \in Procs, Exit(p) PROVE TypeOK'
  <2>1. Down \in Processes
    BY DEF Down, Processes
  <2> QED
    BY <1>3, <2>1, ResetsType DEF Exit, TypeOK
<1>4. CASE OtherOpens
  BY <1>4 DEF OtherOpens, TypeOK
<1>5. CASE OtherCloses
  BY <1>5 DEF OtherCloses, Close, TypeOK
<1> QED
  BY <1>1, <1>2, <1>3, <1>4, <1>5

LEMMA BeginTypeOK ==
  ASSUME TypeOK, (\E u \in SocketUnits : BeginWave(u)) \/ (\E s \in Services : BeginStart(s))
  PROVE  TypeOK'
<1>1. ASSUME Begin PROVE ops' \in 0..MaxOps
  BY <1>1, SocketAssumption DEF Begin, TypeOK
<1>2. ASSUME NEW u \in SocketUnits, BeginWave(u) PROVE TypeOK'
  <2>1. [Idle EXCEPT !.units = <<u>>] \in Ops
    <3>1. <<u>> \in Seq(SocketUnits)
      BY SeqDef
    <3> QED
      BY <3>1, IdleType DEF Ops
  <2> QED
    BY <1>1, <1>2, <2>1, BindingType DEF BeginWave, TypeOK
<1>3. ASSUME NEW s \in Services, BeginStart(s) PROVE TypeOK'
  <2>1. [Idle EXCEPT !.step = "collect", !.svc = s, !.units = SocketsOf[s]] \in Ops
    <3>1. SocketsOf[s] \in Seq(SocketUnits)
      BY SocketAssumption
    <3> QED
      BY <3>1, IdleType DEF Ops
  <2> QED
    BY <1>1, <1>3, <2>1 DEF BeginStart, TypeOK
<1> QED
  BY <1>2, <1>3

LEMMA BindTypeOK ==
  ASSUME TypeOK, BindInv, BindLine \/ BindFails \/ Listening
  PROVE  TypeOK'
<1>1. op.step = "bind" /\ op.units # <<>> /\ Head(op.units) \in SocketUnits
  BY OpFields, HeadTailProperties DEF BindInv, BindLine, BindFails, Listening
<1>2. CASE BindLine
  <2>1. PICK f \in Fds, k \in Sockets :
          /\ table' = [table EXCEPT ![f] = k]
          /\ address' = IF Head(op.lines) \in Netlink THEN address
                        ELSE [address EXCEPT ![Head(op.lines)] = k]
          /\ op' = [op EXCEPT !.lines = Tail(@), !.new = Append(@, f)]
    BY <1>2 DEF BindLine
  <2>2. Tail(op.lines) \in Seq(Paths) /\ Append(op.new, f) \in Seq(Fds)
    BY <1>2, OpFields, HeadTailProperties, AppendProperties DEF BindLine
  <2>3. op' \in Ops
    BY <2>1, <2>2 DEF TypeOK, Ops
  <2> QED
    BY <1>2, <2>1, <2>3 DEF BindLine, TypeOK
<1>3. CASE BindFails
  BY <1>1, <1>3, AbandonType, ResetsType DEF BindFails, TypeOK
<1>4. CASE Listening
  <2>1. op' \in Ops
    <3>1. [op EXCEPT !.step = "collect", !.new = <<>>] \in Ops
      BY EmptySeq DEF TypeOK, Ops
    <3> QED
      BY <1>4, <3>1, IdleType DEF Listening
  <2>2. op.new \in Seq(Fds)
    BY OpFields
  <2> QED
    BY <1>1, <1>4, <2>1, <2>2, ResetsType DEF Listening, Close, TypeOK
<1> QED
  BY <1>2, <1>3, <1>4

LEMMA StartTypeOK ==
  ASSUME TypeOK,
         \/ CollectUnit \/ CollectFails \/ CopyFd \/ CopyPanics \/ UnitCollected
         \/ LaunchFails \/ StartReturns,
         op.step = "copy" => op.units # <<>>
  PROVE  TypeOK'
<1>1. CASE CollectUnit
  <2> DEFINE u == Head(op.units)
  <2>1. u \in SocketUnits
    BY <1>1, OpFields, HeadTailProperties DEF CollectUnit
  <2>2. op \in Ops /\ activation[u] \in Seq(Fds)
    BY <2>1 DEF TypeOK
  <2>3. [op EXCEPT !.step = "copy", !.sources = activation[u]] \in Ops
    BY <2>2 DEF Ops
  <2>4. op' \in Ops
    BY <1>1, <2>1, <2>2, <2>3, BindingType DEF CollectUnit
  <2> QED
    BY <1>1, <2>1, <2>4 DEF CollectUnit, TypeOK
<1>2. CASE CopyFd
  <2>1. PICK f \in Fds :
          /\ table' = [table EXCEPT ![f] = table[Head(op.sources)]]
          /\ op' = [op EXCEPT !.sources = Tail(@), !.copies = Append(@, f)]
    BY <1>2 DEF CopyFd
  <2>2. /\ Head(op.sources) \in Fds /\ Tail(op.sources) \in Seq(Fds)
        /\ Append(op.copies, f) \in Seq(Fds)
    BY <1>2, OpFields, HeadTailProperties, AppendProperties DEF CopyFd
  <2>3. op' \in Ops
    BY <2>1, <2>2 DEF TypeOK, Ops
  <2> QED
    BY <1>2, <2>1, <2>2, <2>3 DEF CopyFd, TypeOK
<1>3. CASE CopyPanics
  <2>1. op' \in Ops
    BY <1>3 DEF CopyPanics, TypeOK, Ops
  <2> QED
    BY <1>3, <2>1 DEF CopyPanics, TypeOK
<1>4. CASE UnitCollected
  <2>1. Tail(op.units) \in Seq(SocketUnits)
    BY <1>4, OpFields, HeadTailProperties DEF UnitCollected
  <2>2. op' \in Ops
    BY <1>4, <2>1 DEF UnitCollected, TypeOK, Ops
  <2> QED
    BY <1>4, <2>2 DEF UnitCollected, TypeOK
<1>5. CASE CollectFails \/ LaunchFails \/ StartReturns
  BY <1>5, AbandonType, ResetsType DEF CollectFails, LaunchFails, StartReturns, TypeOK
<1> QED
  BY <1>1, <1>2, <1>3, <1>4, <1>5

-----------------------------------------------------------------------------
(***************************************************************************)
(* What does not disturb the invariant.                                     *)
(***************************************************************************)
\* The descriptors that somebody owns are those of sockets.
LEMMA OwnedAreSockets ==
  ASSUME TypeOK, OwnerInv
  PROVE  /\ \A u \in SocketUnits : \A i \in DOMAIN activation[u] :
              /\ activation[u][i] \in Fds /\ activation[u][i] \in UnitFds
              /\ table[activation[u][i]] \in Sockets
         /\ \A i \in DOMAIN op.new : op.new[i] \in Fds /\ table[op.new[i]] \in Sockets
         /\ \A i \in DOMAIN op.copies : op.copies[i] \in Fds /\ table[op.copies[i]] \in Sockets
<1>1. \A f \in Owned : f \in Fds /\ table[f] \in Sockets
  BY DEF OwnerInv
<1>2. \A u \in SocketUnits : \A i \in DOMAIN activation[u] : activation[u][i] \in UnitFds
  BY DEF UnitFds, Range
<1> QED
  BY <1>1, <1>2 DEF Owned, Range

LEMMA KeepsOwners ==
  ASSUME OwnerInv, activation' = activation, op'.new = op.new, op'.copies = op.copies,
         \A f \in Fds : table'[f] \in Sockets <=> table[f] \in Sockets
  PROVE  OwnerInv'
<1>1. UnitFds' = UnitFds
  BY DEF UnitFds
<1>2. Owned' = Owned
  BY <1>1 DEF Owned
<1>3. {f \in Fds : table'[f] \in Sockets} = {f \in Fds : table[f] \in Sockets}
  OBVIOUS
<1> QED
  BY <1>1, <1>2, <1>3 DEF OwnerInv

LEMMA KeepsReachable ==
  ASSUME NEW u \in SocketUnits, Reachable(u), activation'[u] = activation[u],
         \A i \in DOMAIN activation[u] : table'[activation[u][i]] = table[activation[u][i]],
         \A i \in DOMAIN Listen[u] :
           Sole(u, i) => address'[Listen[u][i]] = address[Listen[u][i]],
         activation[u] \in Seq(Fds)
  PROVE  Reachable(u)'
<1>1. DOMAIN activation[u] = DOMAIN Listen[u]
  <2>1. Listen[u] \in Seq(Paths)
    BY SocketAssumption
  <2> QED
    BY <2>1, LenProperties DEF Reachable
<1> QED
  BY <1>1 DEF Reachable

\* The lines of the units that are done: their descriptors are among those that units own.
LEMMA DoneLines ==
  ASSUME TypeOK, ListeningIsReachable, NEW s \in Services, NEW m \in 0..Len(SocketsOf[s]),
         \A i \in 1..m : unitState[SocketsOf[s][i]] = "listening"
  PROVE  /\ LinesUpTo(s)[m] \in Seq(Lines)
         /\ \A n \in 1..Len(LinesUpTo(s)[m]) :
              LET l == LinesUpTo(s)[m][n] IN
              /\ LineOf(l, s, m) /\ l[1] \in SocketUnits /\ unitState[l[1]] = "listening"
              /\ l[2] \in DOMAIN activation[l[1]] /\ l[2] \in DOMAIN Listen[l[1]]
<1>1. LinesUpTo(s)[m] \in Seq(Lines)
  BY LinesUpToDef
<1> DEFINE lines == LinesUpTo(s)[m]
<1>2. ASSUME NEW n \in 1..Len(lines)
      PROVE  /\ LineOf(lines[n], s, m) /\ lines[n][1] \in SocketUnits
             /\ unitState[lines[n][1]] = "listening"
             /\ lines[n][2] \in DOMAIN activation[lines[n][1]]
             /\ lines[n][2] \in DOMAIN Listen[lines[n][1]]
  <2>1. LineOf(lines[n], s, m)
    BY LinesAreOfUnits
  <2> DEFINE u == lines[n][1]
  <2>2. u \in SocketUnits /\ unitState[u] = "listening" /\ lines[n][2] \in DOMAIN Listen[u]
    BY <2>1 DEF LineOf
  <2>3. Len(activation[u]) = Len(Listen[u])
    BY <2>2 DEF ListeningIsReachable, Reachable
  <2>4. DOMAIN activation[u] = DOMAIN Listen[u]
    <3>1. activation[u] \in Seq(Fds) /\ Listen[u] \in Seq(Paths)
      BY <2>2, SocketAssumption DEF TypeOK
    <3> QED
      BY <2>3, <3>1, LenProperties
  <2> QED
    BY <2>1, <2>2, <2>4
<1> QED
  BY <1>1, <1>2

\* The parts of CollectInv.
Done == Len(SocketsOf[op.svc]) - Len(op.units)
DoneLinesOf == LinesUpTo(op.svc)[Done]
Extra == IF op.step = "copy" THEN Len(activation[Head(op.units)]) - Len(op.sources) ELSE 0

Progress ==
  /\ Done \in Nat /\ \A i \in DOMAIN op.units : op.units[i] = SocketsOf[op.svc][Done + i]
  /\ \A i \in 1..Done : unitState[SocketsOf[op.svc][i]] = "listening"

CopyProgress ==
  op.step = "copy" =>
    /\ op.units # <<>> /\ unitState[Head(op.units)] = "listening" /\ Extra \in Nat
    /\ \A i \in DOMAIN op.sources : op.sources[i] = activation[Head(op.units)][Extra + i]

Copied ==
  /\ Len(op.copies) = Len(DoneLinesOf) + Extra
  /\ \A n \in 1..Len(DoneLinesOf) :
       table[op.copies[n]] = table[activation[DoneLinesOf[n][1]][DoneLinesOf[n][2]]]
  /\ \A i \in 1..Extra :
       table[op.copies[Len(DoneLinesOf) + i]] = table[activation[Head(op.units)][i]]

Collecting == op.svc # NoService /\ op.step \notin {"wait", "panic"}

LEMMA CollectParts == CollectInv <=> (Collecting => Progress /\ CopyProgress /\ Copied)
BY DEF CollectInv, Collecting, Progress, CopyProgress, Copied, Done, DoneLinesOf, Extra

LEMMA CollectPartsPrimed ==
  CollectInv' <=> (Collecting' => Progress' /\ CopyProgress' /\ Copied')
BY DEF CollectInv, Collecting, Progress, CopyProgress, Copied, Done, DoneLinesOf, Extra

LEMMA Difference == \A a, b \in Nat : a - b \in Nat => a - b \in 0..a /\ b = a - (a - b)
OBVIOUS

\* What is known of a start that is on its way.
LEMMA CollectFacts ==
  ASSUME TypeOK, ListeningIsReachable, CollectInv, Collecting
  PROVE  /\ op.svc \in Services /\ Progress /\ CopyProgress /\ Copied
         /\ SocketsOf[op.svc] \in Seq(SocketUnits) /\ Len(op.units) \in Nat
         /\ Done \in 0..Len(SocketsOf[op.svc])
         /\ DoneLinesOf \in Seq(Lines) /\ Len(DoneLinesOf) \in Nat
         /\ \A n \in 1..Len(DoneLinesOf) :
              LET l == DoneLinesOf[n] IN
              /\ l[1] \in SocketUnits /\ unitState[l[1]] = "listening"
              /\ l[2] \in DOMAIN activation[l[1]] /\ l[2] \in DOMAIN Listen[l[1]]
         /\ op.step = "copy" =>
              /\ Head(op.units) \in SocketUnits /\ Extra \in Nat
              /\ Extra <= Len(activation[Head(op.units)])
              /\ Len(op.sources) = Len(activation[Head(op.units)]) - Extra
<1>1. op.svc \in Services /\ Progress /\ CopyProgress /\ Copied
  BY CollectParts, OpFields DEF Collecting
<1>2. SocketsOf[op.svc] \in Seq(SocketUnits) /\ Len(op.units) \in Nat
  BY <1>1, OpFields, SocketAssumption, LenProperties
<1>3. Done \in 0..Len(SocketsOf[op.svc])
  <2>1. Len(SocketsOf[op.svc]) \in Nat
    BY <1>2, LenProperties
  <2>2. Done \in Nat
    BY <1>1 DEF Progress
  <2> QED
    BY <1>2, <2>1, <2>2, Difference, Zenon DEF Done
<1>4. \A i \in 1..Done : unitState[SocketsOf[op.svc][i]] = "listening"
  BY <1>1 DEF Progress
<1>5. /\ DoneLinesOf \in Seq(Lines)
      /\ \A n \in 1..Len(DoneLinesOf) :
           LET l == DoneLinesOf[n] IN
           /\ l[1] \in SocketUnits /\ unitState[l[1]] = "listening"
           /\ l[2] \in DOMAIN activation[l[1]] /\ l[2] \in DOMAIN Listen[l[1]]
  BY <1>1, <1>3, <1>4, DoneLines DEF DoneLinesOf
<1>6. Len(DoneLinesOf) \in Nat
  BY <1>5, LenProperties
<1>7. ASSUME op.step = "copy"
      PROVE  /\ Head(op.units) \in SocketUnits /\ Extra \in Nat
             /\ Extra <= Len(activation[Head(op.units)])
             /\ Len(op.sources) = Len(activation[Head(op.units)]) - Extra
  <2>1. op.units # <<>> /\ Extra \in Nat
    BY <1>1, <1>7 DEF CopyProgress
  <2>2. Head(op.units) \in SocketUnits
    BY <2>1, OpFields, HeadTailProperties
  <2>3. Len(activation[Head(op.units)]) \in Nat /\ Len(op.sources) \in Nat
    BY <2>2, OpFields, LenProperties DEF TypeOK
  <2>4. Extra = Len(activation[Head(op.units)]) - Len(op.sources)
    BY <1>7 DEF Extra
  <2>5. Extra \in 0..Len(activation[Head(op.units)])
        /\ Len(op.sources) = Len(activation[Head(op.units)]) - Extra
    BY <2>1, <2>3, <2>4, Difference, Zenon
  <2> QED
    BY <2>1, <2>2, <2>3, <2>5
<1> QED
  BY <1>1, <1>2, <1>3, <1>5, <1>6, <1>7

\* A step leaves a start where it is if it leaves alone what has been copied and what is to be copied.
LEMMA KeepsCollect ==
  ASSUME TypeOK, ListeningIsReachable, CollectInv, Collecting,
         op'.svc = op.svc, op'.units = op.units, op'.copies = op.copies,
         op'.step = op.step, op'.sources = op.sources,
         \A u \in SocketUnits : unitState[u] = "listening" =>
           unitState'[u] = "listening" /\ activation'[u] = activation[u],
         \A u \in SocketUnits : \A i \in DOMAIN activation[u] : unitState[u] = "listening" =>
           table'[activation[u][i]] = table[activation[u][i]],
         \A i \in DOMAIN op.copies : table'[op.copies[i]] = table[op.copies[i]]
  PROVE  Progress' /\ CopyProgress' /\ Copied'
<1> USE CollectFacts
<1>1. Done' = Done /\ DoneLinesOf' = DoneLinesOf
  BY DEF Done, DoneLinesOf
<1>2. \A i \in 1..Done : SocketsOf[op.svc][i] \in SocketUnits
  <2>1. Len(SocketsOf[op.svc]) \in Nat
    BY LenProperties
  <2>2. \A i \in 1..Done : i \in 1..Len(SocketsOf[op.svc])
    BY <2>1
  <2> QED
    BY <2>2, ElementOfSeq
<1>3. Progress'
  BY <1>1, <1>2 DEF Progress
<1>4. Extra' = Extra
  BY DEF Extra, CopyProgress
<1>5. CopyProgress'
  BY <1>4 DEF CopyProgress
<1>6. /\ Len(op.copies) = Len(DoneLinesOf) + Extra /\ DOMAIN op.copies = 1..Len(op.copies)
      /\ Len(DoneLinesOf) \in Nat /\ Extra \in Nat
  <2>1. op.step # "copy" => Extra = 0
    BY DEF Extra
  <2> QED
    BY <2>1, OpFields, LenProperties DEF Copied
<1>7. \A i \in 1..Extra : op.step = "copy"
  BY DEF Extra
<1>8. ASSUME NEW n \in 1..Len(DoneLinesOf)
      PROVE  table'[op'.copies[n]] = table'[activation'[DoneLinesOf[n][1]][DoneLinesOf[n][2]]]
  <2> DEFINE u == DoneLinesOf[n][1]
             i == DoneLinesOf[n][2]
  <2>1. u \in SocketUnits /\ unitState[u] = "listening" /\ i \in DOMAIN activation[u]
    OBVIOUS
  <2>2. n \in DOMAIN op.copies
    BY <1>6
  <2>3. table[op.copies[n]] = table[activation[u][i]]
    BY DEF Copied
  <2> HIDE DEF u, i
  <2>4. activation'[u] = activation[u] /\ table'[activation[u][i]] = table[activation[u][i]]
    BY <2>1
  <2>5. table'[op.copies[n]] = table[op.copies[n]]
    BY <2>2
  <2> QED
    BY <2>3, <2>4, <2>5 DEF u, i
<1>9. ASSUME NEW i \in 1..Extra
      PROVE  table'[op'.copies[Len(DoneLinesOf) + i]] = table'[activation'[Head(op.units)][i]]
  <2>1. op.step = "copy" /\ Len(DoneLinesOf) + i \in DOMAIN op.copies
    BY <1>6, <1>7
  <2>2. unitState[Head(op.units)] = "listening" /\ Head(op.units) \in SocketUnits
    BY <2>1 DEF CopyProgress
  <2>3. i \in DOMAIN activation[Head(op.units)]
    <3>1. activation[Head(op.units)] \in Seq(Fds)
      BY <2>2 DEF TypeOK
    <3>2. Extra <= Len(activation[Head(op.units)])
      BY <2>1
    <3>3. DOMAIN activation[Head(op.units)] = 1..Len(activation[Head(op.units)])
          /\ Len(activation[Head(op.units)]) \in Nat
      BY <3>1, LenProperties
    <3> QED
      BY <1>6, <3>2, <3>3
  <2> DEFINE u == Head(op.units)
             c == op.copies[Len(DoneLinesOf) + i]
  <2>4. table[c] = table[activation[u][i]]
    BY DEF Copied
  <2>5. activation'[u] = activation[u] /\ table'[activation[u][i]] = table[activation[u][i]]
    BY <2>2, <2>3
  <2>6. table'[c] = table[c]
    BY <2>1
  <2> QED
    BY <2>4, <2>5, <2>6
<1>10. Copied'
  BY <1>1, <1>4, <1>6, <1>8, <1>9 DEF Copied
<1> QED
  BY <1>3, <1>5, <1>10

Parts == OwnerInv /\ WaveInv /\ BindInv /\ CollectInv /\ ListeningIsReachable

\* A step that leaves PID 1's sockets and bookkeeping alone.
LEMMA Quiet ==
  ASSUME IInv, UNCHANGED <<unitState, activation, address, op>>,
         \A f \in Fds : table'[f] \in Sockets <=> table[f] \in Sockets,
         \A f \in Fds : table[f] \in Sockets => table'[f] = table[f]
  PROVE  Parts'
<1>1. OwnerInv'
  BY KeepsOwners DEF IInv
<1>2. WaveInv'
  BY DEF IInv, WaveInv
<1>3. /\ \A u \in SocketUnits : \A i \in DOMAIN activation[u] :
           table'[activation[u][i]] = table[activation[u][i]]
      /\ \A i \in DOMAIN op.new : table'[op.new[i]] = table[op.new[i]]
      /\ \A i \in DOMAIN op.copies : table'[op.copies[i]] = table[op.copies[i]]
  BY OwnedAreSockets DEF IInv
<1>4. BindInv'
  BY <1>3 DEF IInv, BindInv
<1>5. ListeningIsReachable'
  <2>1. ASSUME NEW u \in SocketUnits, unitState[u] = "listening" PROVE Reachable(u)'
    <3>1. activation[u] \in Seq(Fds) /\ Reachable(u)
      BY <2>1 DEF IInv, TypeOK, ListeningIsReachable
    <3> QED
      BY <1>3, <3>1, KeepsReachable
  <2> QED
    BY <2>1 DEF ListeningIsReachable
<1>6. CollectInv'
  <2>1. Collecting' = Collecting
    BY DEF Collecting
  <2>2. ASSUME Collecting PROVE Progress' /\ CopyProgress' /\ Copied'
    BY <1>3, <2>2, KeepsCollect DEF IInv
  <2> QED
    BY <2>1, <2>2, CollectPartsPrimed
<1> QED
  BY <1>1, <1>2, <1>4, <1>5, <1>6 DEF Parts

LEMMA KernelParts ==
  ASSUME IInv,
         \/ \E c \in Clients : (\E path \in Paths : Connect(c, path)) \/ (\E p \in Procs : Accept(c, p))
         \/ \E p \in Procs : Exit(p)
         \/ OtherOpens \/ OtherCloses \/ UNCHANGED vars
  PROVE  Parts'
<1>1. CASE \E c \in Clients : \/ \E path \in Paths : Connect(c, path)
                              \/ \E p \in Procs : Accept(c, p)
  BY <1>1, Quiet DEF Connect, Accept
<1>2. CASE \E p \in Procs : Exit(p)
  BY <1>2, Quiet DEF Exit
<1>3. CASE OtherOpens
  <2>1. PICK f \in Fds : table[f] = NoSocket /\ table' = [table EXCEPT ![f] = Other]
    BY <1>3 DEF OtherOpens, LowestFree
  <2>2. table \in [Fds -> Sockets \cup {NoSocket, Other}]
    BY DEF IInv, TypeOK
  <2>3. \A g \in Fds : table'[g] = IF g = f THEN Other ELSE table[g]
    BY <2>1, <2>2
  <2>4. UNCHANGED <<unitState, activation, address, op>>
    BY <1>3 DEF OtherOpens
  <2> QED
    BY <2>1, <2>3, <2>4, Quiet, SocketAssumption
<1>4. CASE OtherCloses
  <2>1. PICK f \in Fds : table[f] = Other /\ table' = Close({f})
    BY <1>4 DEF OtherCloses
  <2>2. \A g \in Fds : table'[g] = IF g = f THEN NoSocket ELSE table[g]
    BY <2>1 DEF Close
  <2>3. UNCHANGED <<unitState, activation, address, op>>
    BY <1>4 DEF OtherCloses
  <2> QED
    BY <2>1, <2>2, <2>3, Quiet, SocketAssumption
<1>5. CASE UNCHANGED vars
  BY <1>5, Quiet DEF vars
<1> QED
  BY <1>1, <1>2, <1>3, <1>4, <1>5

\* An operation begins with nothing in its hands.
LEMMA BeginParts ==
  ASSUME IInv, (\E u \in SocketUnits : BeginWave(u)) \/ (\E s \in Services : BeginStart(s))
  PROVE  Parts'
<1>1. op = Idle /\ UNCHANGED <<activation, table, address>>
  BY DEF BeginWave, BeginStart, Begin
<1>2. op.new = <<>> /\ op.copies = <<>>
  BY <1>1 DEF Idle
<1>3. CASE \E u \in SocketUnits : BeginWave(u)
  <2>1. PICK u \in SocketUnits : BeginWave(u)
    BY <1>3
  <2>2. /\ op'.step = "bind" /\ op'.svc = NoService /\ op'.units = <<u>>
        /\ op'.lines = Listen[u] /\ op'.new = <<>> /\ op'.copies = <<>>
        /\ unitState' = [unitState EXCEPT ![u] = "starting"]
    BY <2>1 DEF BeginWave, Binding, Idle
  <2>3. OwnerInv'
    BY <1>1, <1>2, <2>2, KeepsOwners DEF IInv
  <2>4. BindInv'
    <3>1. unitState'[u] = "starting"
      BY <2>2 DEF IInv, TypeOK
    <3>2. Len(Listen[u]) \in Nat /\ Len(op'.new) = 0 /\ Head(op'.units) = u /\ op'.units # <<>>
          /\ DOMAIN Listen[u] = 1..Len(Listen[u]) /\ DOMAIN op'.new = {}
      BY <2>2, SocketAssumption, LenProperties
    <3>3. \A i \in DOMAIN Listen[u] : 0 + i = i
      BY <3>2
    <3> QED
      BY <2>2, <3>1, <3>2, <3>3 DEF BindInv
  <2>5. WaveInv' /\ CollectInv'
    BY <2>2, CollectPartsPrimed DEF WaveInv, Collecting
  <2>6. ListeningIsReachable'
    <3>1. ASSUME NEW v \in SocketUnits, unitState'[v] = "listening" PROVE Reachable(v)'
      <4>1. unitState[v] = "listening"
        BY <2>2, <3>1 DEF IInv, TypeOK
      <4>2. Reachable(v)
        BY <4>1 DEF IInv, ListeningIsReachable
      <4> QED
        BY <1>1, <4>2 DEF Reachable
    <3> QED
      BY <3>1 DEF ListeningIsReachable
  <2> QED
    BY <2>3, <2>4, <2>5, <2>6 DEF Parts
<1>4. CASE \E s \in Services : BeginStart(s)
  <2>1. PICK s \in Services : BeginStart(s)
    BY <1>4
  <2>2. /\ op'.step = "collect" /\ op'.svc = s /\ op'.units = SocketsOf[s]
        /\ op'.new = <<>> /\ op'.copies = <<>> /\ unitState' = unitState
    BY <2>1 DEF BeginStart, Idle
  <2>3. OwnerInv'
    BY <1>1, <1>2, <2>2, KeepsOwners DEF IInv
  <2>4. BindInv' /\ WaveInv'
    BY <2>2, SocketAssumption DEF BindInv, WaveInv
  <2>5. ListeningIsReachable'
    BY <1>1, <2>2 DEF IInv, ListeningIsReachable, Reachable
  <2>6. CollectInv'
    <3>1. SocketsOf[s] \in Seq(SocketUnits) /\ Len(SocketsOf[s]) \in Nat
          /\ DOMAIN SocketsOf[s] = 1..Len(SocketsOf[s])
      BY SocketAssumption, LenProperties
    <3>2. Done' = 0
      BY <2>2, <3>1 DEF Done
    <3>3. LinesUpTo(s)[0] = <<>>
      BY LinesUpToDef
    <3>4. DoneLinesOf' = <<>>
      BY <2>2, <3>2, <3>3 DEF DoneLinesOf
    <3>5. Extra' = 0
      BY <2>2 DEF Extra
    <3>6. Progress'
      <4>1. \A i \in DOMAIN SocketsOf[s] : 0 + i = i
        BY <3>1
      <4> QED
        BY <2>2, <3>2, <4>1 DEF Progress
    <3>7. CopyProgress'
      BY <2>2 DEF CopyProgress
    <3>8. Copied'
      BY <2>2, <3>4, <3>5 DEF Copied
    <3> QED
      BY <3>6, <3>7, <3>8, CollectPartsPrimed
  <2> QED
    BY <2>3, <2>4, <2>5, <2>6 DEF Parts
<1> QED
  BY <1>3, <1>4

\* What is given up goes with its vectors: the units keep theirs.
LEMMA AbandonParts ==
  ASSUME IInv, Abandon, activation' = activation,
         \A u \in SocketUnits : unitState'[u] = "listening" =>
           /\ unitState[u] = "listening"
           /\ \A i \in DOMAIN Listen[u] :
                Sole(u, i) => address'[Listen[u][i]] = address[Listen[u][i]]
  PROVE  Parts'
<1> DEFINE closed == Range(op.new) \cup Range(op.copies)
<1>1. op'.step = "idle" /\ op'.svc = NoService /\ op'.new = <<>> /\ op'.copies = <<>>
  BY DEF Abandon, Idle
<1>2. \A f \in Fds : table'[f] = IF f \in closed THEN NoSocket ELSE table[f]
  BY DEF Abandon, Close
<1>3. WaveInv' /\ BindInv' /\ CollectInv'
  BY <1>1, CollectPartsPrimed DEF WaveInv, BindInv, Collecting
<1>4. UnitFds' = UnitFds /\ Owned' = UnitFds
  BY <1>1 DEF UnitFds, Owned, Range
<1>5. {f \in Fds : table[f] \in Sockets} = UnitFds \cup closed /\ UnitFds \cap closed = {}
  BY DEF IInv, OwnerInv, Owned
<1>6. OwnerInv'
  <2>1. {f \in Fds : table'[f] \in Sockets} = UnitFds
    <3> HIDE DEF closed
    <3>1. \A f \in Fds : table'[f] \in Sockets <=> table[f] \in Sockets /\ f \notin closed
      BY <1>2, SocketAssumption
    <3> QED
      BY <1>5, <3>1
  <2>2. \A u, v \in SocketUnits : u # v => Range(activation'[u]) \cap Range(activation'[v]) = {}
    BY DEF IInv, OwnerInv
  <2>3. Range(op'.new) = {} /\ Range(op'.copies) = {} /\ DOMAIN op'.copies = {}
    BY <1>1 DEF Range
  <2> QED
    BY <1>4, <2>1, <2>2, <2>3 DEF OwnerInv
<1>7. ListeningIsReachable'
  <2>1. ASSUME NEW u \in SocketUnits, unitState'[u] = "listening" PROVE Reachable(u)'
    <3>1. Reachable(u) /\ activation[u] \in Seq(Fds)
      BY <2>1 DEF IInv, TypeOK, ListeningIsReachable
    <3>2. ASSUME NEW i \in DOMAIN activation[u]
          PROVE  table'[activation[u][i]] = table[activation[u][i]]
      <4>1. activation[u][i] \in Fds /\ activation[u][i] \in UnitFds
        BY OwnedAreSockets DEF IInv
      <4> HIDE DEF closed
      <4> QED
        BY <1>2, <1>5, <4>1
    <3> QED
      BY <2>1, <3>1, <3>2, KeepsReachable
  <2> QED
    BY <2>1 DEF ListeningIsReachable
<1> QED
  BY <1>3, <1>6, <1>7 DEF Parts

\* A line that is bound or unbound is of a unit that is not listening: no line of a listening one that
\* is the only one of its path is concerned.
LEMMA OtherLines ==
  ASSUME IInv, op.step = "bind", op.lines # <<>>,
         NEW u \in SocketUnits, NEW i \in DOMAIN Listen[u], Sole(u, i),
         unitState[u] = "listening" \/ (u = Head(op.units) /\ i \in DOMAIN op.new)
  PROVE  Listen[u][i] # Head(op.lines)
<1> DEFINE v == Head(op.units)
           j == Len(op.new) + 1
<1>1. v \in SocketUnits /\ unitState[v] = "starting"
  BY OpFields, HeadTailProperties DEF IInv, BindInv
<1>2. /\ Len(op.new) \in Nat /\ Len(op.lines) \in Nat /\ Len(op.lines) > 0
      /\ DOMAIN op.lines = 1..Len(op.lines) /\ DOMAIN op.new = 1..Len(op.new)
      /\ Head(op.lines) = op.lines[1]
  BY OpFields, LenProperties, EmptySeq DEF IInv
<1>3. Head(op.lines) = Listen[v][j]
  BY <1>2 DEF IInv, BindInv
<1>4. j \in DOMAIN Listen[v]
  <2>1. DOMAIN Listen[v] = 1..Len(Listen[v])
    BY <1>1, SocketAssumption, LenProperties
  <2>2. Len(op.new) + Len(op.lines) = Len(Listen[v])
    BY DEF IInv, BindInv
  <2>3. \A a, b \in Nat : b > 0 => a + 1 \in 1..(a + b)
    OBVIOUS
  <2>4. j \in 1..(Len(op.new) + Len(op.lines))
    BY <1>2, <2>3, Zenon
  <2> QED
    BY <2>1, <2>2, <2>4, Zenon
<1>5. u = v => i # j
  BY <1>1, <1>2
<1> QED
  BY <1>1, <1>3, <1>4, <1>5 DEF Sole

LEMMA BindFailsParts == ASSUME IInv, BindFails PROVE Parts'
<1>1. Abandon /\ activation' = activation
  BY DEF BindFails
<1>2. Head(op.units) \in SocketUnits
  BY OpFields, HeadTailProperties DEF BindFails, IInv, BindInv
<1>3. ASSUME NEW u \in SocketUnits, unitState'[u] = "listening"
      PROVE  /\ unitState[u] = "listening"
             /\ \A i \in DOMAIN Listen[u] :
                  Sole(u, i) => address'[Listen[u][i]] = address[Listen[u][i]]
  <2>1. unitState[u] = "listening"
    BY <1>2, <1>3 DEF BindFails, IInv, TypeOK
  <2>2. ASSUME NEW i \in DOMAIN Listen[u], Sole(u, i)
        PROVE  address'[Listen[u][i]] = address[Listen[u][i]]
    <3>1. CASE op.lines # <<>> /\ address' = [address EXCEPT ![Head(op.lines)] = NoSocket]
      <4>1. Listen[u][i] # Head(op.lines)
        BY <2>1, <2>2, <3>1, OtherLines DEF BindFails
      <4>2. Listen[u][i] \in Paths
        BY SocketAssumption
      <4> QED
        BY <3>1, <4>1, <4>2 DEF IInv, TypeOK
    <3>2. CASE UNCHANGED address
      BY <3>2
    <3> QED
      BY <3>1, <3>2 DEF BindFails
  <2> QED
    BY <2>1, <2>2
<1> QED
  BY <1>1, <1>3, AbandonParts

LEMMA AppendRange ==
  ASSUME NEW A, NEW q \in Seq(A), NEW x \in A
  PROVE  Range(Append(q, x)) = Range(q) \cup {x}
<1>1. DOMAIN Append(q, x) = 1..(Len(q) + 1) /\ DOMAIN q = 1..Len(q) /\ Len(q) \in Nat
  BY AppendProperties, LenProperties
<1>2. (\A i \in 1..Len(q) : Append(q, x)[i] = q[i]) /\ Append(q, x)[Len(q) + 1] = x
  BY AppendProperties
<1>3. ASSUME NEW i \in 1..(Len(q) + 1) PROVE i \in 1..Len(q) \/ i = Len(q) + 1
  BY <1>1
<1>4. 1..Len(q) \subseteq 1..(Len(q) + 1) /\ Len(q) + 1 \in 1..(Len(q) + 1)
  BY <1>1
<1> QED
  BY <1>1, <1>2, <1>3, <1>4 DEF Range

\* A descriptor that PID 1 opens for a socket is nobody's yet.
LEMMA FreshOwner ==
  ASSUME IInv, NEW f \in Fds, table[f] = NoSocket, NEW k \in Sockets,
         table' = [table EXCEPT ![f] = k], activation' = activation,
         \/ op'.new = Append(op.new, f) /\ op'.copies = op.copies
         \/ op'.copies = Append(op.copies, f) /\ op'.new = op.new
  PROVE  OwnerInv'
<1>1. f \notin Owned /\ {g \in Fds : table[g] \in Sockets} = Owned
  BY SocketAssumption DEF IInv, OwnerInv
<1>2. op.new \in Seq(Fds) /\ op.copies \in Seq(Fds)
  BY OpFields DEF IInv
<1>3. UnitFds' = UnitFds
  BY DEF UnitFds
<1>4. {g \in Fds : table'[g] \in Sockets} = Owned \cup {f}
  <2>1. \A g \in Fds : table'[g] = IF g = f THEN k ELSE table[g]
    BY DEF IInv, TypeOK
  <2> QED
    BY <1>1, <2>1
<1>5. \A u, v \in SocketUnits : u # v => Range(activation'[u]) \cap Range(activation'[v]) = {}
  BY DEF IInv, OwnerInv
<1>6. /\ UnitFds \cap (Range(op.new) \cup Range(op.copies)) = {}
      /\ Range(op.new) \cap Range(op.copies) = {}
      /\ \A i, j \in DOMAIN op.copies : op.copies[i] = op.copies[j] => i = j
  BY DEF IInv, OwnerInv
<1>7. f \notin UnitFds /\ f \notin Range(op.new) /\ f \notin Range(op.copies)
  BY <1>1 DEF Owned
<1>8. CASE op'.new = Append(op.new, f) /\ op'.copies = op.copies
  <2>1. Range(op'.new) = Range(op.new) \cup {f}
    BY <1>2, <1>8, AppendRange
  <2> QED
    BY <1>3, <1>4, <1>5, <1>6, <1>7, <1>8, <2>1 DEF OwnerInv, Owned
<1>9. CASE op'.copies = Append(op.copies, f) /\ op'.new = op.new
  <2>1. Range(op'.copies) = Range(op.copies) \cup {f}
    BY <1>2, <1>9, AppendRange
  <2>2. ASSUME NEW i \in DOMAIN op'.copies, NEW j \in DOMAIN op'.copies,
               op'.copies[i] = op'.copies[j]
        PROVE  i = j
    <3>1. /\ DOMAIN op'.copies = 1..(Len(op.copies) + 1) /\ DOMAIN op.copies = 1..Len(op.copies)
          /\ Len(op.copies) \in Nat
      BY <1>2, <1>9, AppendProperties, LenProperties
    <3>2. (\A n \in 1..Len(op.copies) : op'.copies[n] = op.copies[n] /\ op.copies[n] # f)
          /\ op'.copies[Len(op.copies) + 1] = f
      BY <1>2, <1>7, <1>9, <3>1, AppendProperties DEF Range
    <3>3. \A n \in DOMAIN op'.copies : n \in 1..Len(op.copies) \/ n = Len(op.copies) + 1
      BY <3>1
    <3> QED
      BY <1>6, <2>2, <3>1, <3>2, <3>3
  <2>3. Range(op'.new) = Range(op.new)
    BY <1>9
  <2>4. Owned' = Owned \cup {f}
    BY <1>3, <2>1, <2>3 DEF Owned
  <2>5. /\ UnitFds' \cap (Range(op'.new) \cup Range(op'.copies)) = {}
        /\ Range(op'.new) \cap Range(op'.copies) = {}
    BY <1>3, <1>6, <1>7, <2>1, <2>3
  <2> QED
    BY <1>4, <1>5, <2>2, <2>4, <2>5 DEF OwnerInv
<1> QED
  BY <1>8, <1>9

LEMMA BindLineParts == ASSUME IInv, BindLine PROVE Parts'
<1>1. PICK f \in Fds, k \in Sockets :
        /\ table[f] = NoSocket
        /\ table' = [table EXCEPT ![f] = k]
        /\ address' = IF Head(op.lines) \in Netlink THEN address
                       ELSE [address EXCEPT ![Head(op.lines)] = k]
        /\ op' = [op EXCEPT !.lines = Tail(@), !.new = Append(@, f)]
  BY DEF BindLine, LowestFree
<1>2. op.step = "bind" /\ op.lines # <<>> /\ UNCHANGED <<unitState, activation>>
  BY DEF BindLine
<1>3. /\ op'.lines = Tail(op.lines) /\ op'.new = Append(op.new, f) /\ op'.step = op.step
      /\ op'.svc = op.svc /\ op'.units = op.units /\ op'.copies = op.copies
      /\ op'.sources = op.sources
  BY <1>1 DEF IInv, TypeOK, Ops
<1>4. OwnerInv'
  BY <1>1, <1>2, <1>3, FreshOwner
<1>5. WaveInv'
  BY <1>3 DEF IInv, WaveInv
<1>6. \A g \in Fds : table[g] \in Sockets => table'[g] = table[g]
  BY <1>1, SocketAssumption DEF IInv, TypeOK
<1>7. /\ \A u \in SocketUnits : \A i \in DOMAIN activation[u] :
           table'[activation[u][i]] = table[activation[u][i]]
      /\ \A i \in DOMAIN op.new : table'[op.new[i]] = table[op.new[i]]
      /\ \A i \in DOMAIN op.copies : table'[op.copies[i]] = table[op.copies[i]]
  BY <1>6, OwnedAreSockets DEF IInv
<1>8. ASSUME NEW u \in SocketUnits, NEW i \in DOMAIN Listen[u], Sole(u, i),
             unitState[u] = "listening" \/ (u = Head(op.units) /\ i \in DOMAIN op.new)
      PROVE  address'[Listen[u][i]] = address[Listen[u][i]]
  <2>1. Listen[u][i] # Head(op.lines)
    BY <1>2, <1>8, OtherLines
  <2>2. Listen[u][i] \in Paths
    BY SocketAssumption
  <2> QED
    BY <1>1, <2>1, <2>2 DEF IInv, TypeOK
<1>9. ListeningIsReachable'
  <2>1. ASSUME NEW u \in SocketUnits, unitState[u] = "listening" PROVE Reachable(u)'
    <3>1. activation[u] \in Seq(Fds) /\ Reachable(u)
      BY <2>1 DEF IInv, TypeOK, ListeningIsReachable
    <3> QED
      BY <1>2, <1>7, <1>8, <2>1, <3>1, KeepsReachable
  <2> QED
    BY <1>2, <2>1 DEF ListeningIsReachable
<1>10. CollectInv'
  <2>1. Collecting' = Collecting
    BY <1>3 DEF Collecting
  <2>2. ASSUME Collecting PROVE Progress' /\ CopyProgress' /\ Copied'
    BY <1>2, <1>3, <1>7, <2>2, KeepsCollect DEF IInv
  <2> QED
    BY <2>1, <2>2, CollectPartsPrimed
<1>11. BindInv'
  <2> DEFINE u == Head(op.units)
  <2>1. /\ op.units # <<>> /\ unitState[u] = "starting" /\ u \in SocketUnits
        /\ Len(op.new) + Len(op.lines) = Len(Listen[u])
        /\ \A i \in DOMAIN op.lines : op.lines[i] = Listen[u][Len(op.new) + i]
        /\ \A i \in DOMAIN op.new : Sole(u, i) => table[op.new[i]] = address[Listen[u][i]]
    BY <1>2, OpFields, HeadTailProperties DEF IInv, BindInv
  <2>2. /\ op.new \in Seq(Fds) /\ Len(op'.new) = Len(op.new) + 1 /\ Len(op.new) \in Nat
        /\ DOMAIN op'.new = 1..(Len(op.new) + 1) /\ DOMAIN op.new = 1..Len(op.new)
        /\ \A i \in 1..Len(op.new) : op'.new[i] = op.new[i]
        /\ op'.new[Len(op.new) + 1] = f
    BY <1>3, OpFields, AppendProperties, LenProperties DEF IInv
  <2>3. /\ op.lines \in Seq(Paths) /\ Len(op'.lines) = Len(op.lines) - 1 /\ Len(op.lines) \in Nat
        /\ DOMAIN op'.lines = 1..(Len(op.lines) - 1) /\ DOMAIN op.lines = 1..Len(op.lines)
        /\ \A i \in 1..(Len(op.lines) - 1) : op'.lines[i] = op.lines[i + 1]
        /\ Head(op.lines) = op.lines[1] /\ Len(op.lines) # 0
    BY <1>2, <1>3, OpFields, HeadTailProperties, LenProperties, EmptySeq DEF IInv
  <2> HIDE DEF u
  <2>4. Len(op'.new) + Len(op'.lines) = Len(Listen[u])
    <3>1. \A a, b \in Nat : (a + 1) + (b - 1) = a + b
      OBVIOUS
    <3> QED
      BY <2>1, <2>2, <2>3, <3>1, Zenon
  <2>5. ASSUME NEW i \in DOMAIN op'.lines PROVE op'.lines[i] = Listen[u][Len(op'.new) + i]
    <3>1. i + 1 \in DOMAIN op.lines /\ op'.lines[i] = op.lines[i + 1]
      BY <2>3
    <3>2. op.lines[i + 1] = Listen[u][Len(op.new) + (i + 1)]
      BY <2>1, <3>1
    <3>3. Len(op'.new) + i = Len(op.new) + (i + 1)
      <4>1. \A a \in Nat, b \in Int : (a + 1) + b = a + (b + 1)
        OBVIOUS
      <4>2. i \in Int
        BY <2>3
      <4> QED
        BY <2>2, <4>1, <4>2, Zenon
    <3> QED
      BY <3>1, <3>2, <3>3
  <2>6. DOMAIN Listen[u] = 1..Len(Listen[u])
    BY <2>1, SocketAssumption, LenProperties
  <2>7. ASSUME NEW i \in DOMAIN op'.new, Sole(u, i) PROVE table'[op'.new[i]] = address'[Listen[u][i]]
    <3>1. CASE i \in DOMAIN op.new
      <4>1. table'[op.new[i]] = table[op.new[i]] /\ op'.new[i] = op.new[i]
        BY <1>7, <2>2, <3>1
      <4>2. i \in DOMAIN Listen[u]
        <5>1. \A a, b \in Nat : 1..a \subseteq 1..(a + b)
          OBVIOUS
        <5>2. 1..Len(op.new) \subseteq 1..(Len(op.new) + Len(op.lines))
          BY <2>2, <2>3, <5>1, Zenon
        <5> QED
          BY <2>1, <2>2, <2>6, <3>1, <5>2, Zenon
      <4>3. address'[Listen[u][i]] = address[Listen[u][i]]
        BY <1>8, <2>1, <2>7, <3>1, <4>2 DEF u
      <4> QED
        BY <2>1, <2>7, <3>1, <4>1, <4>3
    <3>2. CASE i \notin DOMAIN op.new
      <4>1. i = Len(op.new) + 1
        BY <2>2, <3>2
      <4>2. op.lines[1] = Listen[u][i] /\ op.lines[1] \in Paths
        BY <2>1, <2>3, <4>1
      <4>3. address'[Listen[u][i]] = k
        BY <1>1, <2>3, <2>7, <4>2 DEF IInv, TypeOK, Sole
      <4>4. table'[f] = k
        BY <1>1 DEF IInv, TypeOK
      <4> QED
        BY <2>2, <4>1, <4>3, <4>4
    <3> QED
      BY <3>1, <3>2
  <2> QED
    BY <1>2, <1>3, <2>1, <2>4, <2>5, <2>7 DEF BindInv, u
<1> QED
  BY <1>4, <1>5, <1>9, <1>10, <1>11 DEF Parts

LEMMA ListeningParts == ASSUME IInv, Listening PROVE Parts'
<1>0. PICK u \in SocketUnits : u = Head(op.units)
  BY OpFields, HeadTailProperties DEF Listening, IInv, BindInv
<1> DEFINE old == Range(activation[u])
<1>1. /\ op.step = "bind" /\ op.lines = <<>> /\ op.new # <<>>
      /\ activation' = [activation EXCEPT ![u] = op.new]
      /\ table' = Close(old)
      /\ unitState' = [unitState EXCEPT ![u] = "listening"]
      /\ address' = address
  BY <1>0 DEF Listening
<1>2. u \in SocketUnits /\ unitState[u] = "starting" /\ op.units # <<>>
  BY <1>0, <1>1 DEF IInv, BindInv
<1>3. \/ op.svc = NoService /\ op' = Idle
      \/ op.svc # NoService /\ op' = [op EXCEPT !.step = "collect", !.new = <<>>]
  BY DEF Listening
<1>4. /\ op'.new = <<>> /\ op'.svc = op.svc /\ op'.copies = op.copies
      /\ op'.step = IF op.svc = NoService THEN "idle" ELSE "collect"
      /\ op.svc # NoService => op'.units = op.units /\ op'.sources = op.sources
  <2>1. CASE op.svc = NoService
    BY <1>3, <2>1 DEF Idle, IInv, WaveInv
  <2>2. CASE op.svc # NoService
    BY <1>3, <2>2 DEF IInv, TypeOK, Ops
  <2> QED
    BY <2>1, <2>2
<1>5. \A v \in SocketUnits : activation'[v] = IF v = u THEN op.new ELSE activation[v]
  BY <1>1, <1>2 DEF IInv, TypeOK
<1>6. \A f \in Fds : table'[f] = IF f \in old THEN NoSocket ELSE table[f]
  BY <1>1 DEF Close
<1> HIDE DEF old
<1>7. /\ \A v, w \in SocketUnits : v # w => Range(activation[v]) \cap Range(activation[w]) = {}
      /\ UnitFds \cap (Range(op.new) \cup Range(op.copies)) = {}
      /\ Range(op.new) \cap Range(op.copies) = {}
      /\ {f \in Fds : table[f] \in Sockets} = UnitFds \cup Range(op.new) \cup Range(op.copies)
  BY DEF IInv, OwnerInv, Owned
<1>8. /\ UnitFds' = (UnitFds \ old) \cup Range(op.new) /\ old \subseteq UnitFds
      /\ \A v \in SocketUnits : Range(activation[v]) \subseteq UnitFds
  <2> DEFINE R(v) == Range(activation[v])
             R2(v) == Range(activation'[v])
  <2>1. UnitFds = UNION {R(v) : v \in SocketUnits} /\ UnitFds' = UNION {R2(v) : v \in SocketUnits}
    BY DEF UnitFds
  <2>2. \A v \in SocketUnits : R2(v) = IF v = u THEN Range(op.new) ELSE R(v)
    BY <1>5
  <2>3. old = R(u) /\ \A v, w \in SocketUnits : v # w => R(v) \cap R(w) = {}
    BY <1>7 DEF old
  <2> HIDE DEF R, R2
  <2> QED
    BY <1>2, <2>1, <2>2, <2>3 DEF R
<1>9. OwnerInv'
  <2>1. Range(op'.new) = {} /\ Range(op'.copies) = Range(op.copies)
    BY <1>4 DEF Range
  <2>2. {f \in Fds : table'[f] \in Sockets} = {f \in Fds : table[f] \in Sockets} \ old
    BY <1>6, SocketAssumption
  <2>3. Owned' = (UnitFds \ old) \cup Range(op.new) \cup Range(op.copies)
    BY <1>8, <2>1 DEF Owned
  <2>4. {f \in Fds : table'[f] \in Sockets} = Owned'
    BY <1>7, <1>8, <2>2, <2>3
  <2>5. ASSUME NEW v \in SocketUnits, NEW w \in SocketUnits, v # w
        PROVE  Range(activation'[v]) \cap Range(activation'[w]) = {}
    <3>1. Range(activation[v]) \subseteq UnitFds /\ Range(activation[w]) \subseteq UnitFds
      BY <1>8
    <3>2. /\ Range(activation'[v]) = IF v = u THEN Range(op.new) ELSE Range(activation[v])
          /\ Range(activation'[w]) = IF w = u THEN Range(op.new) ELSE Range(activation[w])
      BY <1>5
    <3> QED
      BY <1>7, <2>5, <3>1, <3>2
  <2>6. UnitFds' \cap (Range(op'.new) \cup Range(op'.copies)) = {}
        /\ Range(op'.new) \cap Range(op'.copies) = {}
    BY <1>7, <1>8, <2>1
  <2>7. \A i, j \in DOMAIN op'.copies : op'.copies[i] = op'.copies[j] => i = j
    BY <1>4 DEF IInv, OwnerInv
  <2> QED
    BY <2>4, <2>5, <2>6, <2>7 DEF OwnerInv
<1>10. WaveInv'
  BY <1>4 DEF IInv, WaveInv
<1>11. BindInv'
  BY <1>4 DEF BindInv
<1>12. \A f \in Fds : f \notin old => table'[f] = table[f]
  BY <1>6
<1>13. /\ \A i \in DOMAIN op.new : table'[op.new[i]] = table[op.new[i]]
       /\ \A i \in DOMAIN op.copies : table'[op.copies[i]] = table[op.copies[i]]
       /\ \A v \in SocketUnits : v # u => \A i \in DOMAIN activation[v] :
            table'[activation[v][i]] = table[activation[v][i]]
  <2>1. ASSUME NEW i \in DOMAIN op.new PROVE table'[op.new[i]] = table[op.new[i]]
    <3>1. op.new[i] \in Fds /\ op.new[i] \in Range(op.new)
      BY OwnedAreSockets DEF IInv, Range
    <3> QED
      BY <1>7, <1>8, <1>12, <3>1
  <2>2. ASSUME NEW i \in DOMAIN op.copies PROVE table'[op.copies[i]] = table[op.copies[i]]
    <3>1. op.copies[i] \in Fds /\ op.copies[i] \in Range(op.copies)
      BY OwnedAreSockets DEF IInv, Range
    <3> QED
      BY <1>7, <1>8, <1>12, <3>1
  <2>3. ASSUME NEW v \in SocketUnits, v # u, NEW i \in DOMAIN activation[v]
        PROVE  table'[activation[v][i]] = table[activation[v][i]]
    <3>1. activation[v][i] \in Fds /\ activation[v][i] \in Range(activation[v])
      BY OwnedAreSockets DEF IInv, Range
    <3> QED
      BY <1>2, <1>7, <1>12, <2>3, <3>1 DEF old
  <2> QED
    BY <2>1, <2>2, <2>3
<1>14. ListeningIsReachable'
  <2>1. ASSUME NEW v \in SocketUnits, v # u, unitState'[v] = "listening" PROVE Reachable(v)'
    <3>1. unitState[v] = "listening"
      BY <1>1, <1>2, <2>1 DEF IInv, TypeOK
    <3>2. activation[v] \in Seq(Fds) /\ Reachable(v)
      BY <3>1 DEF IInv, TypeOK, ListeningIsReachable
    <3>3. activation'[v] = activation[v]
      BY <1>5, <2>1
    <3> QED
      BY <1>1, <1>13, <2>1, <3>2, <3>3, KeepsReachable
  <2>2. Reachable(u)'
    <3>1. /\ Len(op.new) + Len(op.lines) = Len(Listen[u])
          /\ \A i \in DOMAIN op.new : Sole(u, i) => table[op.new[i]] = address[Listen[u][i]]
      BY <1>0, <1>1 DEF IInv, BindInv
    <3>2. Len(op.lines) = 0 /\ Len(op.new) \in Nat /\ DOMAIN op.new = 1..Len(op.new)
          /\ DOMAIN Listen[u] = 1..Len(Listen[u])
      BY <1>1, <1>2, OpFields, SocketAssumption, LenProperties DEF IInv
    <3>3. Len(op.new) = Len(Listen[u])
      BY <3>1, <3>2
    <3>4. activation'[u] = op.new
      BY <1>2, <1>5
    <3>5. \A i \in DOMAIN op.new : table[op.new[i]] \in Sockets
      BY OwnedAreSockets DEF IInv
    <3> QED
      BY <1>1, <1>13, <3>1, <3>2, <3>3, <3>4, <3>5 DEF Reachable
  <2> QED
    BY <2>1, <2>2 DEF ListeningIsReachable
<1>15. CollectInv'
  <2>1. SUFFICES ASSUME Collecting' PROVE Progress' /\ CopyProgress' /\ Copied'
    BY CollectPartsPrimed
  <2>2. Collecting /\ op.svc # NoService /\ op'.step = "collect" /\ op'.units = op.units
    BY <1>1, <1>4, <2>1 DEF Collecting
  <2>3. /\ Progress /\ Copied /\ Len(DoneLinesOf) \in Nat /\ Done \in 0..Len(SocketsOf[op.svc])
        /\ SocketsOf[op.svc] \in Seq(SocketUnits)
        /\ \A n \in 1..Len(DoneLinesOf) :
             LET l == DoneLinesOf[n] IN
             /\ l[1] \in SocketUnits /\ unitState[l[1]] = "listening"
             /\ l[2] \in DOMAIN activation[l[1]]
    BY <2>2, CollectFacts DEF IInv
  <2>4. Done' = Done /\ DoneLinesOf' = DoneLinesOf /\ Extra = 0 /\ Extra' = 0
    BY <1>1, <1>4, <2>2 DEF Done, DoneLinesOf, Extra
  <2>5. Progress'
    <3>1. ASSUME NEW i \in 1..Done PROVE unitState'[SocketsOf[op.svc][i]] = "listening"
      <4>1. unitState[SocketsOf[op.svc][i]] = "listening"
        BY <2>3 DEF Progress
      <4>2. SocketsOf[op.svc][i] \in SocketUnits
        <5>1. Len(SocketsOf[op.svc]) \in Nat
          BY <2>3, LenProperties
        <5>2. i \in 1..Len(SocketsOf[op.svc])
          BY <2>3, <5>1
        <5> QED
          BY <2>3, <5>2, ElementOfSeq
      <4> QED
        BY <1>1, <1>2, <4>1, <4>2 DEF IInv, TypeOK
    <3> QED
      BY <1>4, <2>2, <2>3, <2>4, <3>1 DEF Progress
  <2>6. CopyProgress'
    BY <2>2 DEF CopyProgress
  <2>7. Copied'
    <3>1. Len(op'.copies) = Len(DoneLinesOf') + Extra' /\ op'.copies = op.copies
      BY <1>4, <2>3, <2>4 DEF Copied
    <3>2. DOMAIN op.copies = 1..Len(DoneLinesOf)
      BY <2>3, <2>4, <3>1, OpFields, LenProperties DEF IInv
    <3>3. ASSUME NEW n \in 1..Len(DoneLinesOf)
          PROVE  table'[op.copies[n]] = table'[activation'[DoneLinesOf[n][1]][DoneLinesOf[n][2]]]
      <4> DEFINE v == DoneLinesOf[n][1]
                 i == DoneLinesOf[n][2]
      <4>1. v \in SocketUnits /\ v # u /\ i \in DOMAIN activation[v]
        BY <1>2, <2>3
      <4>2. table[op.copies[n]] = table[activation[v][i]]
        BY <2>3 DEF Copied
      <4> HIDE DEF v, i
      <4>3. activation'[v] = activation[v] /\ table'[activation[v][i]] = table[activation[v][i]]
        BY <1>5, <1>13, <4>1
      <4>4. table'[op.copies[n]] = table[op.copies[n]]
        BY <1>13, <3>2
      <4> QED
        BY <4>2, <4>3, <4>4 DEF v, i
    <3> QED
      BY <2>4, <3>1, <3>3 DEF Copied
  <2> QED
    BY <2>5, <2>6, <2>7
<1> QED
  BY <1>9, <1>10, <1>11, <1>14, <1>15 DEF Parts

LEMMA DoneUnits ==
  ASSUME IInv, Collecting, NEW i \in 1..Done
  PROVE  SocketsOf[op.svc][i] \in SocketUnits /\ unitState[SocketsOf[op.svc][i]] = "listening"
<1>1. /\ SocketsOf[op.svc] \in Seq(SocketUnits) /\ Done \in 0..Len(SocketsOf[op.svc]) /\ Progress
      /\ Len(SocketsOf[op.svc]) \in Nat
  BY CollectFacts, LenProperties DEF IInv
<1>2. i \in 1..Len(SocketsOf[op.svc])
  BY <1>1
<1> QED
  BY <1>1, <1>2, ElementOfSeq DEF Progress

LEMMA CollectUnitParts == ASSUME IInv, CollectUnit PROVE Parts'
<1>1. PICK u \in SocketUnits : u = Head(op.units)
  BY OpFields, HeadTailProperties DEF CollectUnit, IInv
<1>2. /\ op.step = "collect" /\ op.units # <<>> /\ op.svc # NoService /\ Collecting
      /\ UNCHANGED <<activation, table, address>> /\ op.new = <<>>
  BY DEF CollectUnit, IInv, WaveInv, BindInv, Collecting
<1>3. /\ Progress /\ Copied /\ Extra = 0 /\ Len(DoneLinesOf) \in Nat
  BY <1>2, CollectFacts DEF IInv, Extra
<1>4. CASE unitState[u] = "listening"
  <2>1. /\ op'.step = "copy" /\ op'.sources = activation[u] /\ op'.units = op.units
        /\ op'.svc = op.svc /\ op'.copies = op.copies /\ op'.new = op.new /\ unitState' = unitState
    BY <1>1, <1>4 DEF CollectUnit, IInv, TypeOK, Ops
  <2>2. OwnerInv'
    BY <1>2, <2>1, KeepsOwners DEF IInv
  <2>3. WaveInv' /\ BindInv'
    BY <1>2, <2>1 DEF WaveInv, BindInv
  <2>4. ListeningIsReachable'
    BY <1>2, <2>1 DEF IInv, ListeningIsReachable, Reachable
  <2>5. Len(activation[u]) \in Nat /\ DOMAIN activation[u] = 1..Len(activation[u])
    BY LenProperties DEF IInv, TypeOK
  <2>6. Done' = Done /\ DoneLinesOf' = DoneLinesOf
    BY <2>1 DEF Done, DoneLinesOf
  <2>7. Extra' = 0
    BY <1>1, <1>2, <2>1, <2>5 DEF Extra
  <2>8. CollectInv'
    <3>1. Progress'
      BY <1>3, <2>1, <2>6 DEF Progress
    <3>2. CopyProgress'
      <4>1. \A i \in DOMAIN activation[u] : 0 + i = i
        BY <2>5
      <4> QED
        BY <1>1, <1>2, <1>4, <2>1, <2>7, <4>1 DEF CopyProgress
    <3>3. Copied'
      BY <1>2, <1>3, <2>1, <2>6, <2>7 DEF Copied
    <3> QED
      BY <3>1, <3>2, <3>3, CollectPartsPrimed
  <2> QED
    BY <2>2, <2>3, <2>4, <2>8 DEF Parts
<1>5. CASE unitState[u] # "listening"
  <2>1. /\ op' = Binding(u, op) /\ unitState' = [unitState EXCEPT ![u] = "starting"]
    BY <1>1, <1>5 DEF CollectUnit
  <2>2. /\ op'.step = "bind" /\ op'.lines = Listen[u] /\ op'.new = <<>> /\ op'.units = op.units
        /\ op'.svc = op.svc /\ op'.copies = op.copies
    BY <2>1 DEF Binding, IInv, TypeOK, Ops
  <2>3. \A v \in SocketUnits : unitState[v] = "listening" <=> unitState'[v] = "listening"
    BY <1>5, <2>1 DEF IInv, TypeOK
  <2>4. OwnerInv'
    BY <1>2, <2>2, KeepsOwners DEF IInv
  <2>5. WaveInv'
    BY <1>2, <2>2 DEF WaveInv
  <2>6. BindInv'
    <3>1. unitState'[u] = "starting"
      BY <2>1 DEF IInv, TypeOK
    <3>2. Len(Listen[u]) \in Nat /\ DOMAIN Listen[u] = 1..Len(Listen[u])
          /\ Len(op'.new) = 0 /\ DOMAIN op'.new = {}
      BY <2>2, SocketAssumption, LenProperties
    <3>3. \A i \in DOMAIN Listen[u] : 0 + i = i
      BY <3>2
    <3> QED
      BY <1>1, <1>2, <2>2, <3>1, <3>2, <3>3 DEF BindInv
  <2>7. ListeningIsReachable'
    BY <1>2, <2>3 DEF IInv, ListeningIsReachable, Reachable
  <2>8. CollectInv'
    <3>1. Done' = Done /\ DoneLinesOf' = DoneLinesOf /\ Extra' = 0
      BY <2>2 DEF Done, DoneLinesOf, Extra
    <3>2. \A i \in 1..Done : unitState'[SocketsOf[op.svc][i]] = "listening"
      BY <1>2, <2>3, DoneUnits
    <3>3. Progress'
      BY <1>3, <2>2, <3>1, <3>2 DEF Progress
    <3>4. CopyProgress'
      BY <2>2 DEF CopyProgress
    <3>5. Copied'
      BY <1>2, <1>3, <2>2, <3>1 DEF Copied
    <3> QED
      BY <3>3, <3>4, <3>5, CollectPartsPrimed
  <2> QED
    BY <2>4, <2>5, <2>6, <2>7, <2>8 DEF Parts
<1> QED
  BY <1>4, <1>5

\* The next copy is of the next socket of the unit.
LEMMA NextSource ==
  ASSUME IInv, op.step = "copy", op.sources # <<>>
  PROVE  /\ Collecting /\ Head(op.units) \in SocketUnits
         /\ Extra + 1 \in DOMAIN activation[Head(op.units)]
         /\ Head(op.sources) = activation[Head(op.units)][Extra + 1]
<1>1. Collecting
  BY DEF Collecting, IInv, WaveInv
<1>2. /\ CopyProgress /\ Head(op.units) \in SocketUnits /\ Extra \in Nat
      /\ Len(op.sources) = Len(activation[Head(op.units)]) - Extra
  BY <1>1, CollectFacts DEF IInv
<1>3. Len(op.sources) \in Nat /\ Len(op.sources) # 0 /\ DOMAIN op.sources = 1..Len(op.sources)
  BY OpFields, LenProperties, EmptySeq DEF IInv
<1>4. Head(op.sources) = op.sources[1] /\ 1 \in DOMAIN op.sources
  BY <1>3
<1>5. DOMAIN activation[Head(op.units)] = 1..Len(activation[Head(op.units)])
      /\ Len(activation[Head(op.units)]) \in Nat
  BY <1>2, LenProperties DEF IInv, TypeOK
<1>6. \A a, e \in Nat : a - e \in Nat /\ a - e # 0 => e + 1 \in 1..a
  OBVIOUS
<1>7. Extra + 1 \in DOMAIN activation[Head(op.units)]
  BY <1>2, <1>3, <1>5, <1>6, Zenon
<1> QED
  BY <1>1, <1>2, <1>4, <1>7 DEF CopyProgress

LEMMA CopyFdParts == ASSUME IInv, CopyFd PROVE Parts'
<1>1. PICK u \in SocketUnits : u = Head(op.units)
  BY NextSource DEF CopyFd
<1>2. PICK f \in Fds :
        /\ table[f] = NoSocket
        /\ table' = [table EXCEPT ![f] = table[Head(op.sources)]]
        /\ op' = [op EXCEPT !.sources = Tail(@), !.copies = Append(@, f)]
  BY DEF CopyFd, LowestFree
<1>3. op.step = "copy" /\ op.sources # <<>> /\ UNCHANGED <<unitState, activation, address>>
  BY DEF CopyFd
<1>4. /\ op'.step = "copy" /\ op'.sources = Tail(op.sources) /\ op'.copies = Append(op.copies, f)
      /\ op'.new = op.new /\ op'.svc = op.svc /\ op'.units = op.units
  BY <1>2, <1>3 DEF IInv, TypeOK, Ops
<1> DEFINE src == activation[u][Extra + 1]
<1>5. /\ Collecting /\ Extra + 1 \in DOMAIN activation[u] /\ Head(op.sources) = src
      /\ op.svc # NoService
  BY <1>1, <1>3, NextSource DEF Collecting
<1>6. src \in Fds /\ table[src] \in Sockets
  BY <1>5, OwnedAreSockets DEF IInv
<1> HIDE DEF src
<1>7. OwnerInv'
  BY <1>2, <1>3, <1>4, <1>5, <1>6, FreshOwner
<1>8. WaveInv' /\ BindInv'
  BY <1>3, <1>4, <1>5 DEF IInv, WaveInv, BindInv
<1>9. table'[f] = table[src] /\ \A g \in Fds : table[g] \in Sockets => table'[g] = table[g]
  BY <1>2, <1>5, SocketAssumption DEF IInv, TypeOK
<1>10. /\ \A v \in SocketUnits : \A i \in DOMAIN activation[v] :
            table'[activation[v][i]] = table[activation[v][i]]
       /\ \A i \in DOMAIN op.copies : table'[op.copies[i]] = table[op.copies[i]]
  BY <1>9, OwnedAreSockets DEF IInv
<1>11. ListeningIsReachable'
  <2>1. ASSUME NEW v \in SocketUnits, unitState[v] = "listening" PROVE Reachable(v)'
    <3>1. activation[v] \in Seq(Fds) /\ Reachable(v)
      BY <2>1 DEF IInv, TypeOK, ListeningIsReachable
    <3> QED
      BY <1>3, <1>10, <3>1, KeepsReachable
  <2> QED
    BY <1>3, <2>1 DEF ListeningIsReachable
<1>12. /\ Progress /\ CopyProgress /\ Copied /\ Len(DoneLinesOf) \in Nat /\ Extra \in Nat
       /\ Len(op.sources) = Len(activation[u]) - Extra
       /\ \A n \in 1..Len(DoneLinesOf) :
            LET l == DoneLinesOf[n] IN l[1] \in SocketUnits /\ l[2] \in DOMAIN activation[l[1]]
  BY <1>1, <1>3, <1>5, CollectFacts DEF IInv
<1>13. /\ Len(op.sources) \in Nat /\ Len(op'.sources) = Len(op.sources) - 1
       /\ DOMAIN op.sources = 1..Len(op.sources) /\ DOMAIN op'.sources = 1..(Len(op.sources) - 1)
       /\ \A i \in 1..(Len(op.sources) - 1) : op'.sources[i] = op.sources[i + 1]
  BY <1>3, <1>4, OpFields, HeadTailProperties, LenProperties DEF IInv
<1>14. /\ Len(op.copies) \in Nat /\ Len(op'.copies) = Len(op.copies) + 1
       /\ DOMAIN op.copies = 1..Len(op.copies)
       /\ \A i \in 1..Len(op.copies) : op'.copies[i] = op.copies[i]
       /\ op'.copies[Len(op.copies) + 1] = f
  BY <1>4, OpFields, AppendProperties, LenProperties DEF IInv
<1>15. Done' = Done /\ DoneLinesOf' = DoneLinesOf
  BY <1>4 DEF Done, DoneLinesOf
<1>16. Extra' = Extra + 1
  <2>1. Extra' = Len(activation[u]) - Len(op'.sources) /\ Len(activation[u]) \in Nat
    BY <1>1, <1>3, <1>4, LenProperties DEF Extra, IInv, TypeOK
  <2>2. \A a, b \in Nat : a - (b - 1) = (a - b) + 1
    OBVIOUS
  <2>3. Extra = Len(activation[u]) - Len(op.sources)
    BY <1>1, <1>3 DEF Extra
  <2> QED
    BY <1>13, <2>1, <2>2, <2>3, Zenon
<1>17. Progress'
  BY <1>3, <1>4, <1>12, <1>15 DEF Progress
<1>18. CopyProgress'
  <2>1. Extra' \in Nat
    BY <1>12, <1>16
  <2>2. op.units # <<>> /\ unitState[u] = "listening"
        /\ \A i \in DOMAIN op.sources : op.sources[i] = activation[u][Extra + i]
    BY <1>1, <1>3, <1>12 DEF CopyProgress
  <2>3. ASSUME NEW i \in DOMAIN op'.sources PROVE op'.sources[i] = activation[u][Extra' + i]
    <3>1. i + 1 \in DOMAIN op.sources /\ i \in Int
      BY <1>13
    <3>2. Extra + (i + 1) = Extra' + i
      BY <1>12, <1>16, <3>1
    <3> QED
      BY <1>13, <2>2, <3>1, <3>2
  <2> QED
    BY <1>1, <1>3, <1>4, <2>1, <2>2, <2>3 DEF CopyProgress
<1>19. Copied'
  <2>1. Len(op.copies) = Len(DoneLinesOf) + Extra
    BY <1>12 DEF Copied
  <2>2. Len(op'.copies) = Len(DoneLinesOf) + Extra'
    BY <1>12, <1>14, <1>16, <2>1
  <2>3. ASSUME NEW n \in 1..Len(DoneLinesOf)
        PROVE  table'[op'.copies[n]] = table'[activation'[DoneLinesOf[n][1]][DoneLinesOf[n][2]]]
    <3>1. n \in DOMAIN op.copies
      BY <1>12, <1>14, <2>1
    <3>2. op'.copies[n] = op.copies[n] /\ table'[op.copies[n]] = table[op.copies[n]]
      BY <1>10, <1>14, <3>1
    <3>3. table[op.copies[n]] = table[activation[DoneLinesOf[n][1]][DoneLinesOf[n][2]]]
      BY <1>12 DEF Copied
    <3> DEFINE v == DoneLinesOf[n][1]
               i == DoneLinesOf[n][2]
    <3>4. v \in SocketUnits /\ i \in DOMAIN activation[v]
      BY <1>12
    <3> HIDE DEF v, i
    <3>5. table'[activation'[v][i]] = table[activation[v][i]]
      BY <1>3, <1>10, <3>4
    <3> QED
      BY <3>2, <3>3, <3>5 DEF v, i
  <2>4. ASSUME NEW i \in 1..Extra'
        PROVE  table'[op'.copies[Len(DoneLinesOf) + i]] = table'[activation'[u][i]]
    <3>1. CASE i \in 1..Extra
      <4>1. Len(DoneLinesOf) + i \in DOMAIN op.copies
        BY <1>12, <1>14, <2>1, <3>1
      <4>2. /\ op'.copies[Len(DoneLinesOf) + i] = op.copies[Len(DoneLinesOf) + i]
            /\ table'[op.copies[Len(DoneLinesOf) + i]] = table[op.copies[Len(DoneLinesOf) + i]]
        BY <1>10, <1>14, <4>1
      <4>3. table[op.copies[Len(DoneLinesOf) + i]] = table[activation[u][i]]
        BY <1>1, <1>12, <3>1 DEF Copied
      <4>4. i \in DOMAIN activation[u]
        <5>1. DOMAIN activation[u] = 1..Len(activation[u]) /\ Len(activation[u]) \in Nat
          BY LenProperties DEF IInv, TypeOK
        <5>2. Extra + 1 \in 1..Len(activation[u])
          BY <1>5, <5>1
        <5> QED
          BY <1>12, <3>1, <5>1, <5>2
      <4> QED
        BY <1>3, <1>10, <4>2, <4>3, <4>4
    <3>2. CASE i \notin 1..Extra
      <4>1. i = Extra + 1
        BY <1>12, <1>16, <3>2
      <4>2. Len(DoneLinesOf) + i = Len(op.copies) + 1
        BY <1>12, <2>1, <4>1
      <4>3. table'[src] = table[src]
        BY <1>6, <1>9
      <4> QED
        BY <1>3, <1>9, <1>14, <4>1, <4>2, <4>3 DEF src
    <3> QED
      BY <3>1, <3>2
  <2> QED
    BY <1>1, <1>4, <1>15, <2>2, <2>3, <2>4 DEF Copied
<1> QED
  BY <1>7, <1>8, <1>11, <1>17, <1>18, <1>19, CollectPartsPrimed DEF Parts

\* After a panic and after a launch the copies stay where they are.
LEMMA KeepsCopiesParts ==
  ASSUME IInv, op.step \in {"copy", "collect"}, op.svc # NoService,
         UNCHANGED <<unitState, activation, table, address>>,
         NEW step \in {"panic", "wait"}, op' = [op EXCEPT !.step = step]
  PROVE  Parts'
<1>1. op.step # "bind"
  OBVIOUS
<1>2. op'.step = step /\ op'.svc = op.svc /\ op'.new = op.new /\ op'.copies = op.copies
  BY DEF IInv, TypeOK, Ops
<1>3. OwnerInv'
  BY <1>2, KeepsOwners DEF IInv
<1>4. WaveInv' /\ BindInv'
  BY <1>1, <1>2 DEF IInv, WaveInv, BindInv
<1>5. CollectInv'
  BY <1>2, CollectPartsPrimed DEF Collecting
<1>6. ListeningIsReachable'
  BY DEF IInv, ListeningIsReachable, Reachable
<1> QED
  BY <1>3, <1>4, <1>5, <1>6 DEF Parts

LEMMA CopyPanicsParts == ASSUME IInv, CopyPanics PROVE Parts'
BY KeepsCopiesParts DEF CopyPanics, IInv, WaveInv

\* The lines of the unit that has been copied are appended to those of the units before it.
LEMMA UnitCollectedParts == ASSUME IInv, UnitCollected PROVE Parts'
<1>1. /\ op.step = "copy" /\ op.sources = <<>>
      /\ UNCHANGED <<unitState, activation, table, address>> /\ op.svc # NoService /\ Collecting
  BY DEF UnitCollected, IInv, WaveInv, Collecting
<1>2. /\ op'.step = "collect" /\ op'.units = Tail(op.units) /\ op'.svc = op.svc
      /\ op'.copies = op.copies /\ op'.new = op.new
  BY DEF UnitCollected, IInv, TypeOK, Ops
<1>3. OwnerInv'
  BY <1>1, <1>2, KeepsOwners DEF IInv
<1>4. WaveInv' /\ BindInv'
  BY <1>1, <1>2 DEF IInv, WaveInv, BindInv
<1>5. ListeningIsReachable'
  BY <1>1 DEF IInv, ListeningIsReachable, Reachable
<1>6. /\ op.svc \in Services /\ Progress /\ CopyProgress /\ Copied
      /\ Done \in 0..Len(SocketsOf[op.svc]) /\ Head(op.units) \in SocketUnits
      /\ DoneLinesOf \in Seq(Lines) /\ Len(DoneLinesOf) \in Nat /\ Extra \in Nat
      /\ Len(op.sources) = Len(activation[Head(op.units)]) - Extra
  BY <1>1, CollectFacts DEF IInv
<1>7. PICK u \in SocketUnits : u = Head(op.units)
  BY <1>6
<1>8. op.units \in Seq(SocketUnits) /\ op.units # <<>> /\ unitState[u] = "listening"
  BY <1>1, <1>6, <1>7, OpFields DEF IInv, CopyProgress
<1>9. /\ Len(op.units) \in Nat /\ Len(op.units) # 0 /\ Len(op'.units) = Len(op.units) - 1
      /\ DOMAIN op.units = 1..Len(op.units) /\ DOMAIN op'.units = 1..(Len(op.units) - 1)
      /\ \A i \in 1..(Len(op.units) - 1) : op'.units[i] = op.units[i + 1]
      /\ u = op.units[1]
  BY <1>2, <1>7, <1>8, HeadTailProperties, LenProperties, EmptySeq
<1>10. SocketsOf[op.svc] \in Seq(SocketUnits) /\ Len(SocketsOf[op.svc]) \in Nat
  BY <1>6, SocketAssumption, LenProperties
<1>11. Done' = Done + 1 /\ Done + 1 \in 1..Len(SocketsOf[op.svc])
  <2>1. \A a, b \in Nat : b # 0 /\ a - b \in 0..a
          => a - (b - 1) = (a - b) + 1 /\ (a - b) + 1 \in 1..a
    OBVIOUS
  <2>2. Done = Len(SocketsOf[op.svc]) - Len(op.units)
        /\ Done' = Len(SocketsOf[op.svc]) - (Len(op.units) - 1)
    BY <1>2, <1>9 DEF Done
  <2> QED
    BY <1>6, <1>9, <1>10, <2>1, <2>2, Zenon
<1>12. SocketsOf[op.svc][Done + 1] = u
  BY <1>6, <1>9 DEF Progress
<1>13. Extra = Len(activation[u]) /\ Extra' = 0 /\ Len(activation[u]) = Len(Listen[u])
  <2>1. Len(op.sources) = 0 /\ Len(activation[u]) \in Nat
    BY <1>1, LenProperties DEF IInv, TypeOK
  <2>2. Len(activation[u]) = Len(Listen[u])
    BY <1>8 DEF IInv, ListeningIsReachable, Reachable
  <2>3. \A a, b \in Nat : 0 = a - b => b = a
    OBVIOUS
  <2>4. Len(op.sources) = Len(activation[u]) - Extra
    BY <1>6, <1>7
  <2>5. Extra = Len(activation[u])
    BY <1>6, <2>1, <2>3, <2>4, Zenon
  <2>6. Extra' = 0
    BY <1>2 DEF Extra
  <2> QED
    BY <2>2, <2>5, <2>6
<1> DEFINE a == DoneLinesOf
           b == LinesOf(u)
<1>14. DoneLinesOf' = a \o b
  <2>1. LinesUpTo(op.svc)[Done + 1]
          = LinesUpTo(op.svc)[(Done + 1) - 1] \o LinesOf(SocketsOf[op.svc][Done + 1])
    BY <1>6, <1>11, LinesUpToDef
  <2>2. (Done + 1) - 1 = Done
    BY <1>6
  <2> QED
    BY <1>2, <1>11, <1>12, <2>1, <2>2 DEF DoneLinesOf
<1>15. /\ b \in Seq(Lines) /\ Len(b) = Extra
       /\ \A i \in DOMAIN Listen[u] : b[i] = <<u, i>>
       /\ DOMAIN Listen[u] = 1..Extra
  BY <1>13, LinesOfType, SocketAssumption, LenProperties
<1>16. /\ Len(a \o b) = Len(a) + Len(b)
       /\ \A i \in 1..(Len(a) + Len(b)) : (a \o b)[i] = IF i <= Len(a) THEN a[i] ELSE b[i - Len(a)]
  <2>1. a \in Seq(Lines)
    BY <1>6
  <2> HIDE DEF a, b
  <2> QED
    BY <1>15, <2>1, ConcatProperties
<1>17. Progress'
  <2>1. ASSUME NEW i \in DOMAIN op'.units PROVE op'.units[i] = SocketsOf[op.svc][(Done + 1) + i]
    <3>1. i + 1 \in DOMAIN op.units /\ i \in Int
      BY <1>9
    <3>2. op.units[i + 1] = SocketsOf[op.svc][Done + (i + 1)]
      BY <1>6, <3>1 DEF Progress
    <3>3. Done + (i + 1) = (Done + 1) + i
      BY <1>6, <3>1
    <3> QED
      BY <1>9, <3>2, <3>3
  <2>2. ASSUME NEW i \in 1..(Done + 1) PROVE unitState'[SocketsOf[op.svc][i]] = "listening"
    <3>1. CASE i \in 1..Done
      BY <1>1, <1>6, <3>1 DEF Progress
    <3>2. CASE i \notin 1..Done
      <4>1. i = Done + 1
        BY <1>6, <3>2
      <4> QED
        BY <1>1, <1>8, <1>12, <4>1
    <3> QED
      BY <3>1, <3>2
  <2>3. Done' \in Nat
    BY <1>6, <1>11
  <2> QED
    BY <1>2, <1>11, <2>1, <2>2, <2>3 DEF Progress
<1>18. CopyProgress'
  BY <1>2 DEF CopyProgress
<1>19. Copied'
  <2>1. Len(op.copies) = Len(a) + Extra
    BY <1>6 DEF Copied
  <2>2. Len(op'.copies) = Len(DoneLinesOf') + Extra'
    BY <1>2, <1>6, <1>13, <1>14, <1>15, <1>16, <2>1
  <2>3. ASSUME NEW n \in 1..Len(a \o b)
        PROVE  table[op.copies[n]] = table[activation[(a \o b)[n][1]][(a \o b)[n][2]]]
    <3>1. CASE n <= Len(a)
      <4>1. n \in 1..Len(a) /\ (a \o b)[n] = a[n]
        BY <1>6, <1>15, <1>16, <3>1
      <4> QED
        BY <1>6, <4>1 DEF Copied
    <3>2. CASE ~ (n <= Len(a))
      <4> DEFINE i == n - Len(a)
      <4>1. i \in 1..Extra /\ (a \o b)[n] = b[i] /\ Len(a) + i = n
        BY <1>6, <1>15, <1>16, <3>2
      <4>2. b[i] = <<u, i>>
        BY <1>15, <4>1
      <4>3. table[op.copies[Len(a) + i]] = table[activation[u][i]]
        BY <1>6, <1>7, <4>1 DEF Copied
      <4> QED
        BY <4>1, <4>2, <4>3
    <3> QED
      BY <3>1, <3>2
  <2>4. \A i \in 1..Extra' : FALSE
    BY <1>13
  <2>5. \A n \in 1..Len(DoneLinesOf') :
          table'[op'.copies[n]] = table'[activation'[DoneLinesOf'[n][1]][DoneLinesOf'[n][2]]]
    <3> HIDE DEF a, b
    <3> QED
      BY <1>1, <1>2, <1>14, <2>3
  <2> QED
    BY <2>2, <2>4, <2>5 DEF Copied
<1> QED
  BY <1>3, <1>4, <1>5, <1>17, <1>18, <1>19, CollectPartsPrimed DEF Parts

LEMMA StartEndsParts == ASSUME IInv, CollectFails \/ LaunchFails \/ StartReturns PROVE Parts'
<1>1. \A u \in SocketUnits : unitState[u] = "listening" => Reachable(u)
  BY DEF IInv, ListeningIsReachable
<1> QED
  BY <1>1, AbandonParts DEF CollectFails, LaunchFails, StartReturns

\* A process that is launched finds the sockets of all lines of its units, in their order.
LEMMA LaunchHandsOver ==
  ASSUME IInv, NEW p \in Procs, Launch(p)
  PROVE  LET child == Pass(op.copies)
             n == Len(op.copies)
             lines == FlattenSeq(LinesOfService(op.svc))
         IN /\ op.svc \in Services /\ n \in Nat /\ child \in Child(n) /\ Len(lines) = n
            /\ \A i \in 1..n :
                 /\ FirstFd + i - 1 \in Fds
                 /\ child.fds[FirstFd + i - 1] = table[activation[lines[i][1]][lines[i][2]]]
                 /\ lines[i][1] \in SocketUnits /\ unitState[lines[i][1]] = "listening"
                 /\ lines[i][2] \in DOMAIN Listen[lines[i][1]]
<1> DEFINE n == Len(op.copies)
<1>1. op.step = "collect" /\ op.units = <<>> /\ op.svc # NoService /\ Pass(op.copies).ok
      /\ Collecting
  BY DEF Launch, Collecting
<1>2. /\ op.svc \in Services /\ Copied /\ Len(DoneLinesOf) \in Nat
      /\ \A i \in 1..Len(DoneLinesOf) :
           LET l == DoneLinesOf[i] IN
           /\ l[1] \in SocketUnits /\ unitState[l[1]] = "listening"
           /\ l[2] \in DOMAIN Listen[l[1]]
  BY <1>1, CollectFacts DEF IInv
<1>3. Len(SocketsOf[op.svc]) \in Nat /\ Done = Len(SocketsOf[op.svc])
  BY <1>1, <1>2, SocketAssumption, LenProperties DEF Done
<1>4. DoneLinesOf = FlattenSeq(LinesOfService(op.svc))
  BY <1>2, <1>3, LinesOfServiceDef DEF DoneLinesOf
<1>5. n = Len(DoneLinesOf)
      /\ \A i \in 1..n : table[op.copies[i]] = table[activation[DoneLinesOf[i][1]][DoneLinesOf[i][2]]]
  <2>1. Extra = 0
    BY <1>1 DEF Extra
  <2> QED
    BY <1>2, <2>1 DEF Copied
<1>6. op.copies \in [1..n -> Fds] /\ n \in Nat
  BY OpFields, LenProperties DEF IInv
<1>7. /\ \A i, j \in 1..n : op.copies[i] = op.copies[j] => i = j
      /\ \A i \in 1..n : table[op.copies[i]] \in Sockets
  BY <1>6, OwnedAreSockets DEF IInv, OwnerInv
<1>8. table \in [Fds -> Values]
  BY DEF IInv, TypeOK, Values
<1>9. /\ Pass(op.copies) \in Child(n)
      /\ \A i \in 1..n : FirstFd + i - 1 \in Fds
                         /\ Pass(op.copies).fds[FirstFd + i - 1] = table[op.copies[i]]
  BY <1>1, <1>6, <1>7, <1>8, PassInOrder
<1> QED
  BY <1>2, <1>4, <1>5, <1>6, <1>9

LEMMA LaunchParts == ASSUME IInv, NEW p \in Procs, Launch(p) PROVE TypeOK' /\ Parts'
<1>1. /\ op.step = "collect" /\ op.svc # NoService
      /\ op' = [op EXCEPT !.step = "wait"]
      /\ UNCHANGED <<ops, unitState, activation, table, address, waiting>>
  BY DEF Launch
<1>2. Parts' /\ op' \in Ops
  BY <1>1, KeepsCopiesParts DEF IInv, TypeOK, Ops
<1>3. proc' \in [Procs -> Processes]
  <2> DEFINE n == Len(op.copies)
             fds == Pass(op.copies).fds
             got == [i \in 1..n |-> fds[FirstFd + i - 1]]
             leaked == {fds[f] : f \in {f \in Fds : f >= FirstFd + n}} \cap Sockets
  <2>1. /\ op.svc \in Services /\ n \in Nat /\ Pass(op.copies) \in Child(n)
        /\ \A i \in 1..n : FirstFd + i - 1 \in Fds
    BY LaunchHandsOver
  <2>2. fds \in [Fds -> Sockets \cup {NoSocket, Other}]
    BY <2>1 DEF Child, Values
  <2>3. got \in Seq(Sockets \cup {NoSocket, Other})
    <3>1. got \in [1..n -> Sockets \cup {NoSocket, Other}]
      <4> HIDE DEF n, fds
      <4> QED
        BY <2>1, <2>2
    <3> QED
      BY <2>1, <3>1, SeqDef
  <2>4. proc' = [proc EXCEPT ![p] = [svc |-> op.svc, got |-> got, leaked |-> leaked]]
    BY DEF Launch
  <2>5. leaked \in SUBSET Sockets
    OBVIOUS
  <2> HIDE DEF got, leaked
  <2>6. [svc |-> op.svc, got |-> got, leaked |-> leaked] \in Processes
    BY <2>1, <2>3, <2>5 DEF Processes
  <2> QED
    BY <2>4, <2>6 DEF IInv, TypeOK
<1> QED
  BY <1>1, <1>2, <1>3 DEF IInv, TypeOK

-----------------------------------------------------------------------------
(***************************************************************************)
(* The invariant, and what follows from it.                                 *)
(***************************************************************************)
LEMMA InitIInv == Init => IInv
<1> SUFFICES ASSUME Init PROVE IInv
  OBVIOUS
<1>1. op = Idle /\ op.new = <<>> /\ op.copies = <<>> /\ op.step = "idle" /\ op.svc = NoService
  BY DEF Init, Idle
<1>2. \A u \in SocketUnits : Range(activation[u]) = {} /\ unitState[u] = "dead"
  BY DEF Init, Range
<1>3. UnitFds = {} /\ Owned = {} /\ Range(op.new) = {} /\ Range(op.copies) = {}
  <2>1. Range(op.new) = {} /\ Range(op.copies) = {}
    BY <1>1 DEF Range
  <2>2. UnitFds = {}
    BY <1>2 DEF UnitFds
  <2> QED
    BY <2>1, <2>2 DEF Owned
<1>4. {f \in Fds : table[f] \in Sockets} = {}
  BY SocketAssumption DEF Init
<1>5. OwnerInv
  BY <1>1, <1>2, <1>3, <1>4 DEF OwnerInv
<1>6. WaveInv /\ BindInv /\ CollectInv /\ ListeningIsReachable
  BY <1>1, <1>2, CollectParts DEF WaveInv, BindInv, Collecting, ListeningIsReachable
<1> QED
  BY <1>5, <1>6, InitTypeOK DEF IInv

LEMMA NextIInv == IInv /\ [Next]_vars => IInv'
<1> SUFFICES ASSUME IInv, [Next]_vars PROVE TypeOK' /\ Parts'
  BY DEF IInv, Parts
<1>1. TypeOK /\ BindInv /\ (op.step = "copy" => op.units # <<>>)
  <2>1. ASSUME op.step = "copy" PROVE op.units # <<>>
    <3>1. Collecting
      BY <2>1 DEF IInv, WaveInv, Collecting
    <3> QED
      BY <2>1, <3>1, CollectFacts DEF IInv, CopyProgress
  <2> QED
    BY <2>1 DEF IInv
<1>2. CASE \/ \E c \in Clients : \/ \E path \in Paths : Connect(c, path)
                                 \/ \E p \in Procs : Accept(c, p)
           \/ \E p \in Procs : Exit(p)
           \/ OtherOpens \/ OtherCloses
  BY <1>1, <1>2, KernelTypeOK, KernelParts
<1>3. CASE UNCHANGED vars
  <2>1. TypeOK'
    BY <1>1, <1>3 DEF vars, TypeOK
  <2> QED
    BY <1>3, <2>1, KernelParts
<1>4. CASE (\E u \in SocketUnits : BeginWave(u)) \/ (\E s \in Services : BeginStart(s))
  BY <1>1, <1>4, BeginTypeOK, BeginParts
<1>5. CASE BindLine \/ BindFails \/ Listening
  BY <1>1, <1>5, BindTypeOK, BindLineParts, BindFailsParts, ListeningParts
<1>6. CASE \/ CollectUnit \/ CollectFails \/ CopyFd \/ CopyPanics \/ UnitCollected
           \/ LaunchFails \/ StartReturns
  BY <1>1, <1>6, StartTypeOK, CollectUnitParts, CopyFdParts, CopyPanicsParts,
     UnitCollectedParts, StartEndsParts
<1>7. CASE \E p \in Procs : Launch(p)
  BY <1>7, LaunchParts
<1> QED
  BY <1>2, <1>3, <1>4, <1>5, <1>6, <1>7 DEF Next

\* Spec keeps the inductive invariant: who owns each descriptor, how far a bind or a start is, and
\* that what is listening can be reached.
THEOREM Inductive == Spec => []IInv
<1>1. Init => IInv
  BY InitIInv
<1>2. IInv /\ [Next]_vars => IInv'
  BY NextIInv
<1> QED
  BY <1>1, <1>2, PTL DEF Spec

\* Every variable keeps its type.
THEOREM TypeCorrect == Spec => []TypeOK
<1>1. IInv => TypeOK
  BY DEF IInv
<1> QED
  BY <1>1, Inductive, PTL

\* A unit shown as listening can be reached at all its paths, for any number of waves, starts, failures
\* and of descriptors.
THEOREM AlwaysReachable == Spec => []ListeningIsReachable
<1>1. IInv => ListeningIsReachable
  BY DEF IInv
<1> QED
  BY <1>1, Inductive, PTL

\* Between operations PID 1 holds the sockets of its units and no other.
THEOREM NothingLeaks == Spec => []NoDescriptorLeak
<1>1. IInv => NoDescriptorLeak
  <2>1. SUFFICES ASSUME IInv, op = Idle
                 PROVE  {f \in Fds : table[f] \in Sockets} = UnitFds
    BY DEF NoDescriptorLeak, UnitFds
  <2>2. Range(op.new) = {} /\ Range(op.copies) = {}
    BY <2>1 DEF Idle, Range
  <2> QED
    BY <2>1, <2>2 DEF IInv, OwnerInv, Owned
<1> QED
  BY <1>1, Inductive, PTL

\* A process appears down no other way than by a launch.
LEMMA OnlyLaunch ==
  ASSUME IInv, [Next]_vars, NEW p \in Procs, proc[p] = Down, proc'[p] # Down
  PROVE  Launch(p)
<1>1. \A q \in Procs : Exit(q) => proc'[p] = Down
  BY DEF Exit, IInv, TypeOK
<1>2. \A q \in Procs : Launch(q) /\ q # p => proc'[p] = proc[p]
  BY DEF Launch
<1>3. proc' # proc
  OBVIOUS
<1>4. \E q \in Procs : Exit(q) \/ Launch(q)
  BY <1>3 DEF Next, vars, Connect, Accept, OtherOpens, OtherCloses, BeginWave, BindLine, BindFails,
     Listening, BeginStart, CollectUnit, CollectFails, CopyFd, CopyPanics, UnitCollected, LaunchFails,
     StartReturns
<1> QED
  BY <1>1, <1>2, <1>4

\* However the numbers of its copies lie in PID 1, and wherever pre_exec has to move them, a process
\* gets the sockets of its units in the order of the unit files, and those that clients reach.
THEOREM AlwaysInOrder == Spec => HandedInOrder
<1> DEFINE InOrder(p) ==
      proc[p] = Down /\ proc'[p] # Down =>
        LET lines == FlattenSeq(LinesOfService(op.svc)) IN
        /\ Len(proc'[p].got) = Len(lines)
        /\ \A n \in DOMAIN lines :
             LET u == lines[n][1]
                 i == lines[n][2]
             IN /\ unitState[u] = "listening"
                /\ proc'[p].got[n] = table[activation[u][i]]
                /\ Sole(u, i) => proc'[p].got[n] = address[Listen[u][i]]
<1>1. ASSUME IInv, [Next]_vars, NEW p \in Procs PROVE InOrder(p)
  <2>1. SUFFICES ASSUME proc[p] = Down, proc'[p] # Down PROVE InOrder(p)
    OBVIOUS
  <2> DEFINE n == Len(op.copies)
             fds == Pass(op.copies).fds
             got == [i \in 1..n |-> fds[FirstFd + i - 1]]
             lines == FlattenSeq(LinesOfService(op.svc))
  <2>2. Launch(p)
    BY <1>1, <2>1, OnlyLaunch
  <2>3. /\ op.svc \in Services /\ n \in Nat /\ Len(lines) = n
        /\ \A i \in 1..n :
             /\ fds[FirstFd + i - 1] = table[activation[lines[i][1]][lines[i][2]]]
             /\ lines[i][1] \in SocketUnits /\ unitState[lines[i][1]] = "listening"
             /\ lines[i][2] \in DOMAIN Listen[lines[i][1]]
    BY <1>1, <2>2, LaunchHandsOver
  <2>4. proc'[p].got = got
    BY <1>1, <2>2 DEF Launch, IInv, TypeOK
  <2>5. got \in [1..n -> {fds[FirstFd + i - 1] : i \in 1..n}]
    OBVIOUS
  <2>6. Len(got) = n
    <3> HIDE DEF fds
    <3> QED
      BY <2>3, <2>5, LenProperties, SeqDef
  <2>7. DOMAIN lines = 1..n
    <3>1. Len(SocketsOf[op.svc]) \in 0..Len(SocketsOf[op.svc])
          /\ LinesUpTo(op.svc) \in [0..Len(SocketsOf[op.svc]) -> Seq(Lines)]
      <4>1. Len(SocketsOf[op.svc]) \in Nat
            /\ LinesUpTo(op.svc) \in [0..Len(SocketsOf[op.svc]) -> Seq(Lines)]
        BY <2>3, LinesUpToDef
      <4>2. \A a \in Nat : a \in 0..a
        OBVIOUS
      <4> QED
        BY <4>1, <4>2, Zenon
    <3>2. lines \in Seq(Lines)
      BY <2>3, <3>1, LinesOfServiceDef
    <3> QED
      BY <2>3, <3>2, LenProperties
  <2> HIDE DEF lines, fds, n
  <2>8. ASSUME NEW k \in 1..n
        PROVE  LET u == lines[k][1]
                   i == lines[k][2]
               IN /\ unitState[u] = "listening"
                  /\ got[k] = table[activation[u][i]]
                  /\ Sole(u, i) => got[k] = address[Listen[u][i]]
    <3> DEFINE u == lines[k][1]
               i == lines[k][2]
    <3>1. /\ got[k] = table[activation[u][i]] /\ u \in SocketUnits /\ unitState[u] = "listening"
          /\ i \in DOMAIN Listen[u]
      BY <2>3
    <3>2. Sole(u, i) => table[activation[u][i]] = address[Listen[u][i]]
      BY <1>1, <3>1 DEF IInv, ListeningIsReachable, Reachable
    <3> QED
      BY <3>1, <3>2
  <2> QED
    BY <2>3, <2>4, <2>6, <2>7, <2>8 DEF lines
<1>2. IInv /\ [Next]_vars => \A p \in Procs : InOrder(p)
  BY <1>1
<1> QED
  BY <1>2, Inductive, PTL DEF Spec, HandedInOrder

\* A socket that a unit keeps is not closed, and what waits at it is not reset.
LEMMA KeptAlive ==
  ASSUME IInv, Resets, NEW c \in Clients, NEW u \in SocketUnits, waiting[c] \in SocketsOfUnit(u),
         \A i \in DOMAIN activation[u] : table'[activation[u][i]] = table[activation[u][i]]
  PROVE  waiting'[c] # Reset
<1>1. PICK i \in DOMAIN activation[u] : waiting[c] = table[activation[u][i]]
  BY DEF SocketsOfUnit, Range
<1> DEFINE f == activation[u][i]
           closed == {k \in Sockets : ~ Held(k)'}
<1>2. f \in Fds /\ table[f] \in Sockets /\ table'[f] = waiting[c]
  BY <1>1, OwnedAreSockets DEF IInv
<1>3. PICK k \in Sockets : k = waiting[c]
  BY <1>1, <1>2
<1>4. Held(k)'
  BY <1>2, <1>3 DEF Held
<1>5. k \notin closed /\ k # Reset
  BY <1>3, <1>4, SocketAssumption
<1>6. waiting' = [d \in Clients |-> IF waiting[d] \in closed THEN Reset ELSE waiting[d]]
  BY DEF Resets
<1> HIDE DEF closed
<1> QED
  BY <1>3, <1>5, <1>6

\* A client that waits at a listening unit is not reset by an exit, a failed start, a failed bind or a
\* restart of the service.
THEOREM ClientsSurvive == Spec => ConnectionsSurvive
<1>1. ASSUME IInv, [Next]_vars, NEW c \in Clients, NEW u \in SocketUnits,
             unitState[u] = "listening", waiting[c] \in SocketsOfUnit(u)
      PROVE  waiting'[c] # Reset
  <2>1. waiting[c] \in Sockets /\ activation[u] \in Seq(Fds) /\ u \in SocketUnits
    <3>1. \A f \in Range(activation[u]) : table[f] \in Sockets
      BY <1>1, OwnedAreSockets DEF IInv, Range
    <3> QED
      BY <1>1, <3>1 DEF SocketsOfUnit, IInv, TypeOK
  <2>2. CASE UNCHANGED waiting
    BY <2>1, <2>2, SocketAssumption
  <2>3. CASE \E d \in Clients : \/ \E path \in Paths : Connect(d, path)
                                \/ \E p \in Procs : Accept(d, p)
    <3>1. ASSUME NEW d \in Clients, NEW path \in Paths, Connect(d, path) PROVE waiting'[c] # Reset
      <4>1. address[path] \in Sockets
        BY <1>1, <3>1 DEF Connect, IInv, TypeOK
      <4> QED
        BY <1>1, <2>1, <3>1, <4>1, SocketAssumption DEF Connect, IInv, TypeOK
    <3>2. ASSUME NEW d \in Clients, NEW p \in Procs, Accept(d, p) PROVE waiting'[c] # Reset
      BY <1>1, <2>1, <3>2, SocketAssumption DEF Accept, IInv, TypeOK
    <3> QED
      BY <2>3, <3>1, <3>2
  <2>4. CASE \E p \in Procs : Exit(p)
    BY <1>1, <2>4, KeptAlive DEF Exit
  <2>5. CASE BindFails \/ CollectFails \/ LaunchFails \/ StartReturns
    <3>1. Abandon /\ Resets
      BY <2>5 DEF BindFails, CollectFails, LaunchFails, StartReturns
    <3>2. ASSUME NEW i \in DOMAIN activation[u]
          PROVE  table'[activation[u][i]] = table[activation[u][i]]
      <4>1. activation[u][i] \in Fds /\ activation[u][i] \in UnitFds
        BY <1>1, OwnedAreSockets DEF IInv
      <4>2. activation[u][i] \notin Range(op.new) \cup Range(op.copies)
        BY <1>1, <4>1 DEF IInv, OwnerInv
      <4> QED
        BY <3>1, <4>1, <4>2 DEF Abandon, Close
    <3> QED
      BY <1>1, <3>1, <3>2, KeptAlive
  <2>6. CASE Listening
    <3> DEFINE v == Head(op.units)
    <3>1. v \in SocketUnits /\ v # u /\ table' = Close(Range(activation[v])) /\ Resets
      BY <1>1, <2>6, OpFields, HeadTailProperties DEF Listening, IInv, BindInv
    <3> HIDE DEF v
    <3>2. ASSUME NEW i \in DOMAIN activation[u]
          PROVE  table'[activation[u][i]] = table[activation[u][i]]
      <4>1. activation[u][i] \in Fds /\ activation[u][i] \in Range(activation[u])
        BY <1>1, OwnedAreSockets DEF IInv, Range
      <4>2. activation[u][i] \notin Range(activation[v])
        BY <1>1, <3>1, <4>1 DEF IInv, OwnerInv
      <4> QED
        BY <3>1, <4>1, <4>2 DEF Close
    <3> QED
      BY <1>1, <3>1, <3>2, KeptAlive
  <2> QED
    BY <1>1, <2>2, <2>3, <2>4, <2>5, <2>6
    DEF Next, vars, OtherOpens, OtherCloses, BeginWave, BindLine, BeginStart, CollectUnit, CopyFd,
        CopyPanics, UnitCollected, Launch
<1>2. IInv /\ [Next]_vars
        => \A c \in Clients, u \in SocketUnits :
             unitState[u] = "listening" /\ waiting[c] \in SocketsOfUnit(u) => waiting'[c] # Reset
  BY <1>1
<1> QED
  BY <1>2, Inductive, PTL DEF Spec, ConnectionsSurvive
=============================================================================
