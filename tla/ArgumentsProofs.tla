--------------------------- MODULE ArgumentsProofs ---------------------------
(***************************************************************************)
(* Theorems about what is done to the arguments of a call before a tool    *)
(* acts on them: for any schemas, any values however deep, any paths and   *)
(* any store of secrets, what the functions that descend into a value      *)
(* compute is what is found at the ends of the paths into it.              *)
(*                                                                         *)
(* The functions are recursive; that they exist, and what they compute, is *)
(* shown by induction over how deep values nest and over the length of     *)
(* paths, stated with sets of numbers: the least number that is not in the *)
(* set would be one whose predecessor is.                                  *)
(***************************************************************************)
EXTENDS Arguments, Integers, WellFoundedInduction, TLAPS

-----------------------------------------------------------------------------
(* Induction *)

\* A set of numbers has a least one.
LEMMA LeastOf ==
  ASSUME NEW T, T \subseteq Nat, T # {}
  PROVE  \E n \in T : \A m \in T : n <= m
<1> DEFINE R == OpToRel(<, Nat)
<1>1. IsWellFoundedOn(R, Nat)
  BY Zenon, NatLessThanWellFounded
<1>2. \A x, y \in Nat : y < x => <<y, x>> \in R
  BY DEF OpToRel
<1> HIDE DEF R
<1>3. \E x \in T : \A y \in T : ~(<<y, x>> \in R)
  BY <1>1, WFMin
<1>4. PICK x \in T : \A y \in T : ~(<<y, x>> \in R)
  BY <1>3
<1>5. \A y \in T : ~(y < x) /\ x \in Nat /\ y \in Nat
  BY <1>2, <1>4
<1>. QED
  BY <1>5

\* Min is that one.
LEMMA MinIs ==
  ASSUME NEW T, T \subseteq Nat, T # {}
  PROVE  Min(T) \in T /\ \A m \in T : Min(T) <= m
BY LeastOf DEF Min

\* A set with 0 and the successors of its members has all numbers.
LEMMA AllNumbers ==
  ASSUME NEW P \in SUBSET Nat, 0 \in P, \A n \in P : n + 1 \in P
  PROVE  P = Nat
<1> SUFFICES ASSUME Nat \ P # {} PROVE FALSE
  OBVIOUS
<1>1. PICK n \in Nat \ P : \A m \in Nat \ P : n <= m
  BY LeastOf
<1>2. n # 0 /\ n - 1 \in Nat /\ (n - 1) + 1 = n /\ ~(n <= n - 1)
  BY <1>1
<1>3. n - 1 \in P
  BY <1>1, <1>2
<1>. QED
  BY <1>1, <1>2, <1>3

-----------------------------------------------------------------------------
(* Walks: from a start, one step per element of a sequence *)

Finding(f, start, path, N) ==
  f = [n \in 0..N |-> IF n = 0 THEN start ELSE Enter(f[n - 1], path[n])]
Pairing(f, start, path, N) ==
  f = [n \in 0..N |-> IF n = 0 THEN start ELSE EnterBoth(f[n - 1], path[n])]
Moving(f, start, path, N) ==
  f = [n \in 0..N |-> IF n = 0 THEN start ELSE Move(f[n - 1], path[n])]
Keeping(f, start, path, N) ==
  f = [n \in 0..N |-> IF n = 0 THEN start ELSE Keep(f[n - 1], path[n])]

\* The same, step by step.
Finds(f, start, path, N) ==
  f[0] = start /\ \A n \in 1..N : f[n] = Enter(f[n - 1], path[n])
FindsBoth(f, start, path, N) ==
  f[0] = start /\ \A n \in 1..N : f[n] = EnterBoth(f[n - 1], path[n])
Moves(f, start, path, N) ==
  f[0] = start /\ \A n \in 1..N : f[n] = Move(f[n - 1], path[n])
Keeps(f, start, path, N) ==
  f[0] = start /\ \A n \in 1..N : f[n] = Keep(f[n - 1], path[n])

\* Where a walk through a schema and a value begins.
Pair(s, v) == {<<s, v>>}

\* A sequence goes on, after its first element, as another one.
GoesOn(q, path, N) == \A n \in 1..N : q[n + 1] = path[n]

\* A walk of any length exists.
LEMMA FoundWalk ==
  ASSUME NEW start, NEW path, NEW N \in Nat
  PROVE  \E f : Finding(f, start, path, N)
<1> DEFINE P == {m \in Nat : \E f : Finding(f, start, path, m)}
<1>1. 0 \in P
  <2>1. Finding([n \in 0..0 |-> start], start, path, 0)
    BY DEF Finding
  <2>. QED
    BY <2>1
<1>2. ASSUME NEW m \in P PROVE m + 1 \in P
  <2>1. PICK f : Finding(f, start, path, m)
    OBVIOUS
  <2> DEFINE g == [n \in 0..(m + 1) |-> IF n = 0 THEN start ELSE Enter(f[n - 1], path[n])]
  <2>2. \A n \in 0..m : g[n] = f[n]
    BY <2>1 DEF Finding
  <2>3. Finding(g, start, path, m + 1)
    <3>1. ASSUME NEW n \in 0..(m + 1), n # 0 PROVE f[n - 1] = g[n - 1]
      <4>1. n - 1 \in 0..m
        BY <3>1
      <4>. QED
        BY <2>2, <4>1
    <3>. QED
      BY <3>1 DEF Finding
  <2> HIDE DEF g
  <2>. QED
    BY <2>3
<1> HIDE DEF P
<1>3. P = Nat
  <2>1. P \in SUBSET Nat
    BY DEF P
  <2>. QED
    BY <1>1, <1>2, <2>1, AllNumbers
<1>. QED
  BY <1>3 DEF P

LEMMA AtSteps ==
  ASSUME NEW v, NEW path, NEW N \in Nat, Len(path) = N
  PROVE  \E f : Finds(f, {v}, path, N) /\ At(v, path) = f[N]
<1> DEFINE F == CHOOSE f : Finding(f, {v}, path, Len(path))
<1>1. Finding(F, {v}, path, Len(path))
  BY Zenon, FoundWalk
<1>2. At(v, path) = F[Len(path)]
  BY DEF At, Finding
<1> HIDE DEF F
<1>3. PICK f, start : f = F /\ start = {v}
  OBVIOUS
<1>4. Finding(f, start, path, N)
  BY <1>1, <1>3
<1>5. f[0] = start
  BY <1>4 DEF Finding
<1>6. \A n \in 1..N : f[n] = Enter(f[n - 1], path[n])
  BY <1>4 DEF Finding
<1>7. Finds(f, start, path, N)
  BY <1>5, <1>6 DEF Finds
<1>. QED
  BY <1>2, <1>3, <1>7

LEMMA BothWalk ==
  ASSUME NEW start, NEW path, NEW N \in Nat
  PROVE  \E f : Pairing(f, start, path, N)
<1> DEFINE P == {m \in Nat : \E f : Pairing(f, start, path, m)}
<1>1. 0 \in P
  <2>1. Pairing([n \in 0..0 |-> start], start, path, 0)
    BY DEF Pairing
  <2>. QED
    BY <2>1
<1>2. ASSUME NEW m \in P PROVE m + 1 \in P
  <2>1. PICK f : Pairing(f, start, path, m)
    OBVIOUS
  <2> DEFINE g == [n \in 0..(m + 1) |-> IF n = 0 THEN start ELSE EnterBoth(f[n - 1], path[n])]
  <2>2. \A n \in 0..m : g[n] = f[n]
    BY <2>1 DEF Pairing
  <2>3. Pairing(g, start, path, m + 1)
    <3>1. ASSUME NEW n \in 0..(m + 1), n # 0 PROVE f[n - 1] = g[n - 1]
      <4>1. n - 1 \in 0..m
        BY <3>1
      <4>. QED
        BY <2>2, <4>1
    <3>. QED
      BY <3>1 DEF Pairing
  <2> HIDE DEF g
  <2>. QED
    BY <2>3
<1> HIDE DEF P
<1>3. P = Nat
  <2>1. P \in SUBSET Nat
    BY DEF P
  <2>. QED
    BY <1>1, <1>2, <2>1, AllNumbers
<1>. QED
  BY <1>3 DEF P

LEMMA UnderSteps ==
  ASSUME NEW s, NEW v, NEW path, NEW N \in Nat, Len(path) = N
  PROVE  \E f : FindsBoth(f, Pair(s, v), path, N) /\ Under(s, v, path) = f[N]
<1> DEFINE F == CHOOSE f : Pairing(f, Pair(s, v), path, Len(path))
<1>1. Pairing(F, Pair(s, v), path, Len(path))
  BY Zenon, BothWalk
<1>2. Under(s, v, path) = F[Len(path)]
  BY DEF Under, Pairing, Pair
<1> HIDE DEF F
<1>3. PICK f, start : f = F /\ start = Pair(s, v)
  OBVIOUS
<1>4. Pairing(f, start, path, N)
  BY <1>1, <1>3
<1>5. f[0] = start
  BY <1>4 DEF Pairing
<1>6. \A n \in 1..N : f[n] = EnterBoth(f[n - 1], path[n])
  BY <1>4 DEF Pairing
<1>7. FindsBoth(f, start, path, N)
  BY <1>5, <1>6 DEF FindsBoth
<1>. QED
  BY <1>2, <1>3, <1>7

LEMMA MoveWalk ==
  ASSUME NEW start, NEW path, NEW N \in Nat
  PROVE  \E f : Moving(f, start, path, N)
<1> DEFINE P == {m \in Nat : \E f : Moving(f, start, path, m)}
<1>1. 0 \in P
  <2>1. Moving([n \in 0..0 |-> start], start, path, 0)
    BY DEF Moving
  <2>. QED
    BY <2>1
<1>2. ASSUME NEW m \in P PROVE m + 1 \in P
  <2>1. PICK f : Moving(f, start, path, m)
    OBVIOUS
  <2> DEFINE g == [n \in 0..(m + 1) |-> IF n = 0 THEN start ELSE Move(f[n - 1], path[n])]
  <2>2. \A n \in 0..m : g[n] = f[n]
    BY <2>1 DEF Moving
  <2>3. Moving(g, start, path, m + 1)
    <3>1. ASSUME NEW n \in 0..(m + 1), n # 0 PROVE f[n - 1] = g[n - 1]
      <4>1. n - 1 \in 0..m
        BY <3>1
      <4>. QED
        BY <2>2, <4>1
    <3>. QED
      BY <3>1 DEF Moving
  <2> HIDE DEF g
  <2>. QED
    BY <2>3
<1> HIDE DEF P
<1>3. P = Nat
  <2>1. P \in SUBSET Nat
    BY DEF P
  <2>. QED
    BY <1>1, <1>2, <2>1, AllNumbers
<1>. QED
  BY <1>3 DEF P

LEMMA LeadsToSteps ==
  ASSUME NEW path, NEW N \in Nat, Len(path) = N
  PROVE  \E f : Moves(f, [up |-> 0, down |-> <<>>], path, N) /\ LeadsTo(path) = f[N]
<1> DEFINE F == CHOOSE f : Moving(f, [up |-> 0, down |-> <<>>], path, Len(path))
<1>1. Moving(F, [up |-> 0, down |-> <<>>], path, Len(path))
  BY Zenon, MoveWalk
<1>2. LeadsTo(path) = F[Len(path)]
  BY DEF LeadsTo, Moving
<1> HIDE DEF F
<1>3. PICK f, start : f = F /\ start = [up |-> 0, down |-> <<>>]
  OBVIOUS
<1>4. Moving(f, start, path, N)
  BY <1>1, <1>3
<1>5. f[0] = start
  BY <1>4 DEF Moving
<1>6. \A n \in 1..N : f[n] = Move(f[n - 1], path[n])
  BY <1>4 DEF Moving
<1>7. Moves(f, start, path, N)
  BY <1>5, <1>6 DEF Moves
<1>. QED
  BY <1>2, <1>3, <1>7

LEMMA NamesWalk ==
  ASSUME NEW start, NEW path, NEW N \in Nat
  PROVE  \E f : Keeping(f, start, path, N)
<1> DEFINE P == {m \in Nat : \E f : Keeping(f, start, path, m)}
<1>1. 0 \in P
  <2>1. Keeping([n \in 0..0 |-> start], start, path, 0)
    BY DEF Keeping
  <2>. QED
    BY <2>1
<1>2. ASSUME NEW m \in P PROVE m + 1 \in P
  <2>1. PICK f : Keeping(f, start, path, m)
    OBVIOUS
  <2> DEFINE g == [n \in 0..(m + 1) |-> IF n = 0 THEN start ELSE Keep(f[n - 1], path[n])]
  <2>2. \A n \in 0..m : g[n] = f[n]
    BY <2>1 DEF Keeping
  <2>3. Keeping(g, start, path, m + 1)
    <3>1. ASSUME NEW n \in 0..(m + 1), n # 0 PROVE f[n - 1] = g[n - 1]
      <4>1. n - 1 \in 0..m
        BY <3>1
      <4>. QED
        BY <2>2, <4>1
    <3>. QED
      BY <3>1 DEF Keeping
  <2> HIDE DEF g
  <2>. QED
    BY <2>3
<1> HIDE DEF P
<1>3. P = Nat
  <2>1. P \in SUBSET Nat
    BY DEF P
  <2>. QED
    BY <1>1, <1>2, <2>1, AllNumbers
<1>. QED
  BY <1>3 DEF P

LEMMA NamesSteps ==
  ASSUME NEW path, NEW N \in Nat, Len(path) = N
  PROVE  \E f : Keeps(f, <<>>, path, N) /\ Names(path) = f[N]
<1> DEFINE F == CHOOSE f : Keeping(f, <<>>, path, Len(path))
<1>1. Keeping(F, <<>>, path, Len(path))
  BY Zenon, NamesWalk
<1>2. Names(path) = F[Len(path)]
  BY DEF Names, Keeping
<1> HIDE DEF F
<1>3. PICK f, start : f = F /\ start = <<>>
  OBVIOUS
<1>4. Keeping(f, start, path, N)
  BY <1>1, <1>3
<1>5. f[0] = start
  BY <1>4 DEF Keeping
<1>6. \A n \in 1..N : f[n] = Keep(f[n - 1], path[n])
  BY <1>4 DEF Keeping
<1>7. Keeps(f, start, path, N)
  BY <1>5, <1>6 DEF Keeps
<1>. QED
  BY <1>2, <1>3, <1>7

-----------------------------------------------------------------------------
(* The end of a path *)

\* Putting an element in front of a sequence.
LEMMA FirstOf ==
  ASSUME NEW D, NEW d \in D, NEW path \in Seq(D)
  PROVE  \E N \in Nat, q \in Seq(D) :
           /\ N = Len(path) /\ q = <<d>> \o path /\ Len(q) = N + 1
           /\ q[1] = d /\ GoesOn(q, path, N)
<1> DEFINE N == Len(path)
           q == <<d>> \o path
<1>1. N \in Nat
  OBVIOUS
<1>2. <<d>> \in Seq(D) /\ Len(<<d>>) = 1 /\ <<d>>[1] = d
  OBVIOUS
<1>3. /\ Len(q) = 1 + N /\ q \in Seq(D)
      /\ \A n \in 1..(1 + N) : q[n] = IF n <= 1 THEN <<d>>[n] ELSE path[n - 1]
  BY <1>1, <1>2
<1>4. \A n \in 1..N : n + 1 \in 1..(1 + N) /\ ~(n + 1 <= 1) /\ (n + 1) - 1 = n
  BY <1>1
<1>5. 1 \in 1..(1 + N) /\ 1 <= 1
  BY <1>1
<1>6. q[1] = d
  BY <1>2, <1>3, <1>5
<1>7. GoesOn(q, path, N)
  BY <1>3, <1>4 DEF GoesOn
<1>8. Len(q) = N + 1
  BY <1>1, <1>3
<1>. QED
  BY <1>1, <1>3, <1>6, <1>7, <1>8

\* A walk from a value along a path goes on, after the first door, as one from there.
LEMMA FoundShift ==
  ASSUME NEW start, NEW path, NEW N \in Nat, NEW q, GoesOn(q, path, N),
         NEW f, Finds(f, start, q, N + 1), NEW g, Finds(g, Enter(start, q[1]), path, N)
  PROVE  f[N + 1] = g[N]
<1> DEFINE P == {n \in Nat : n <= N => f[n + 1] = g[n]}
<1>1. 0 \in P
  <2>1. 1 \in 1..(N + 1) /\ 1 - 1 = 0 /\ 0 + 1 = 1
    OBVIOUS
  <2>2. f[1] = Enter(f[1 - 1], q[1])
    BY <2>1 DEF Finds
  <2>. QED
    BY <2>1, <2>2 DEF Finds
<1>2. ASSUME NEW n \in P PROVE n + 1 \in P
  <2> SUFFICES ASSUME n + 1 <= N PROVE f[(n + 1) + 1] = g[n + 1]
    OBVIOUS
  <2>1. /\ (n + 1) + 1 \in 1..(N + 1) /\ n + 1 \in 1..N /\ n <= N
        /\ ((n + 1) + 1) - 1 = n + 1 /\ (n + 1) - 1 = n
    OBVIOUS
  <2>2. f[(n + 1) + 1] = Enter(f[n + 1], q[(n + 1) + 1]) /\ g[n + 1] = Enter(g[n], path[n + 1])
    BY <2>1 DEF Finds
  <2>3. f[n + 1] = g[n] /\ q[(n + 1) + 1] = path[n + 1]
    BY <2>1 DEF GoesOn
  <2>. QED
    BY <2>2, <2>3
<1> HIDE DEF P
<1>3. N \in P
  <2>1. P \in SUBSET Nat
    BY DEF P
  <2>. QED
    BY <1>1, <1>2, <2>1, AllNumbers
<1>. QED
  BY <1>3 DEF P

\* A walk from nothing finds nothing.
LEMMA FoundNowhere ==
  ASSUME NEW path, NEW N \in Nat,
         NEW f, Finds(f, {}, path, N)
  PROVE  f[N] = {}
<1> DEFINE P == {n \in Nat : n <= N => f[n] = {}}
<1>1. 0 \in P
  BY DEF Finds
<1>2. ASSUME NEW n \in P PROVE n + 1 \in P
  <2> SUFFICES ASSUME n + 1 <= N PROVE f[n + 1] = {}
    OBVIOUS
  <2>1. n + 1 \in 1..N /\ n <= N /\ (n + 1) - 1 = n
    OBVIOUS
  <2>2. f[n + 1] = Enter({}, path[n + 1])
    BY <2>1 DEF Finds
  <2>. QED
    BY <2>2 DEF Enter
<1> HIDE DEF P
<1>3. N \in P
  <2>1. P \in SUBSET Nat
    BY DEF P
  <2>. QED
    BY <1>1, <1>2, <2>1, AllNumbers
<1>. QED
  BY <1>3 DEF P

\* The empty path ends where it begins.
LEMMA AtHere ==
  ASSUME NEW v
  PROVE  At(v, <<>>) = {v}
<1>1. Len(<<>>) = 0 /\ 0 \in Nat
  OBVIOUS
<1>2. PICK f : Finds(f, {v}, <<>>, 0) /\ At(v, <<>>) = f[0]
  BY <1>1, Zenon, AtSteps
<1>. QED
  BY <1>2 DEF Finds

\* The end of a path is that of its rest from behind its first door.
LEMMA AtFirst ==
  ASSUME NEW v, NEW D, NEW d \in D, NEW path \in Seq(D)
  PROVE  /\ Enter({v}, d) = {} => At(v, <<d>> \o path) = {}
         /\ \A w : Enter({v}, d) = {w}
                 => At(v, <<d>> \o path) = At(w, path)
<1>1. PICK N \in Nat, q \in Seq(D) :
        /\ N = Len(path) /\ q = <<d>> \o path /\ Len(q) = N + 1
        /\ q[1] = d /\ GoesOn(q, path, N)
  BY FirstOf
<1>2. N \in Nat /\ Len(q) = N + 1 /\ q[1] = d /\ GoesOn(q, path, N)
  BY <1>1
<1>3. PICK f : Finds(f, {v}, q, N + 1) /\ At(v, q) = f[N + 1]
  <2>1. N + 1 \in Nat
    BY <1>2
  <2>. QED
    BY <1>2, <2>1, Zenon, AtSteps
<1>4. ASSUME NEW w, Enter({v}, d) = {w} PROVE At(v, q) = At(w, path)
  <2>1. PICK g : Finds(g, {w}, path, N) /\ At(w, path) = g[N]
    BY <1>1, <1>2, Zenon, AtSteps
  <2>2. Finds(g, Enter({v}, q[1]), path, N)
    BY <1>2, <1>4, <2>1
  <2>3. f[N + 1] = g[N]
    BY <1>2, <1>3, <2>1, <2>2, FoundShift
  <2>. QED
    BY <1>3, <2>1, <2>3
<1>5. ASSUME Enter({v}, d) = {} PROVE At(v, q) = {}
  <2>1. f[1] = {}
    <3>1. 1 \in 1..(N + 1) /\ 1 - 1 = 0
      BY <1>2
    <3>2. f[1] = Enter(f[1 - 1], q[1])
      BY <1>3, <3>1 DEF Finds
    <3>. QED
      BY <1>2, <1>3, <1>5, <3>1, <3>2 DEF Finds
  <2>2. PICK g : g = [n \in 0..N |-> f[n + 1]]
    OBVIOUS
  <2>3. g[0] = {}
    BY <1>2, <2>1, <2>2
  <2>4. ASSUME NEW n \in 1..N PROVE g[n] = Enter(g[n - 1], path[n])
    <3>1. n \in 0..N /\ n - 1 \in 0..N /\ (n - 1) + 1 = n /\ n + 1 \in 1..(N + 1) /\ (n + 1) - 1 = n
      BY <1>2
    <3>2. f[n + 1] = Enter(f[n], q[n + 1])
      BY <1>3, <3>1 DEF Finds
    <3>. QED
      BY <1>2, <2>2, <3>1, <3>2 DEF GoesOn
  <2>a. Finds(g, {}, path, N)
    BY <2>3, <2>4 DEF Finds
  <2>5. g[N] = {}
    BY <1>2, <2>a, FoundNowhere
  <2>6. N \in 0..N
    BY <1>2
  <2>. QED
    BY <1>3, <2>2, <2>5, <2>6
<1>. QED
  BY <1>1, <1>4, <1>5

\* A walk from a value along a path goes on, after the first door, as one from there.
LEMMA BothShift ==
  ASSUME NEW start, NEW path, NEW N \in Nat, NEW q, GoesOn(q, path, N),
         NEW f, FindsBoth(f, start, q, N + 1), NEW g, FindsBoth(g, EnterBoth(start, q[1]), path, N)
  PROVE  f[N + 1] = g[N]
<1> DEFINE P == {n \in Nat : n <= N => f[n + 1] = g[n]}
<1>1. 0 \in P
  <2>1. 1 \in 1..(N + 1) /\ 1 - 1 = 0 /\ 0 + 1 = 1
    OBVIOUS
  <2>2. f[1] = EnterBoth(f[1 - 1], q[1])
    BY <2>1 DEF FindsBoth
  <2>. QED
    BY <2>1, <2>2 DEF FindsBoth
<1>2. ASSUME NEW n \in P PROVE n + 1 \in P
  <2> SUFFICES ASSUME n + 1 <= N PROVE f[(n + 1) + 1] = g[n + 1]
    OBVIOUS
  <2>1. /\ (n + 1) + 1 \in 1..(N + 1) /\ n + 1 \in 1..N /\ n <= N
        /\ ((n + 1) + 1) - 1 = n + 1 /\ (n + 1) - 1 = n
    OBVIOUS
  <2>2. f[(n + 1) + 1] = EnterBoth(f[n + 1], q[(n + 1) + 1]) /\ g[n + 1] = EnterBoth(g[n], path[n + 1])
    BY <2>1 DEF FindsBoth
  <2>3. f[n + 1] = g[n] /\ q[(n + 1) + 1] = path[n + 1]
    BY <2>1 DEF GoesOn
  <2>. QED
    BY <2>2, <2>3
<1> HIDE DEF P
<1>3. N \in P
  <2>1. P \in SUBSET Nat
    BY DEF P
  <2>. QED
    BY <1>1, <1>2, <2>1, AllNumbers
<1>. QED
  BY <1>3 DEF P

\* A walk from nothing finds nothing.
LEMMA BothNowhere ==
  ASSUME NEW path, NEW N \in Nat,
         NEW f, FindsBoth(f, {}, path, N)
  PROVE  f[N] = {}
<1> DEFINE P == {n \in Nat : n <= N => f[n] = {}}
<1>1. 0 \in P
  BY DEF FindsBoth
<1>2. ASSUME NEW n \in P PROVE n + 1 \in P
  <2> SUFFICES ASSUME n + 1 <= N PROVE f[n + 1] = {}
    OBVIOUS
  <2>1. n + 1 \in 1..N /\ n <= N /\ (n + 1) - 1 = n
    OBVIOUS
  <2>2. f[n + 1] = EnterBoth({}, path[n + 1])
    BY <2>1 DEF FindsBoth
  <2>. QED
    BY <2>2 DEF EnterBoth
<1> HIDE DEF P
<1>3. N \in P
  <2>1. P \in SUBSET Nat
    BY DEF P
  <2>. QED
    BY <1>1, <1>2, <2>1, AllNumbers
<1>. QED
  BY <1>3 DEF P

LEMMA UnderHere ==
  ASSUME NEW s, NEW v
  PROVE  Under(s, v, <<>>) = Pair(s, v)
<1>1. Len(<<>>) = 0 /\ 0 \in Nat
  OBVIOUS
<1>2. PICK f : FindsBoth(f, Pair(s, v), <<>>, 0) /\ Under(s, v, <<>>) = f[0]
  BY <1>1, UnderSteps
<1>. QED
  BY <1>2 DEF FindsBoth

LEMMA UnderFirst ==
  ASSUME NEW s, NEW v, NEW D, NEW d \in D, NEW path \in Seq(D)
  PROVE  /\ EnterBoth(Pair(s, v), d) = {} => Under(s, v, <<d>> \o path) = {}
         /\ \A t, w : EnterBoth(Pair(s, v), d) = Pair(t, w)
                 => Under(s, v, <<d>> \o path) = Under(t, w, path)
<1>1. PICK N \in Nat, q \in Seq(D) :
        /\ N = Len(path) /\ q = <<d>> \o path /\ Len(q) = N + 1
        /\ q[1] = d /\ GoesOn(q, path, N)
  BY FirstOf
<1>2. N \in Nat /\ Len(q) = N + 1 /\ q[1] = d /\ GoesOn(q, path, N)
  BY <1>1
<1>3. PICK f : FindsBoth(f, Pair(s, v), q, N + 1) /\ Under(s, v, q) = f[N + 1]
  <2>1. N + 1 \in Nat
    BY <1>2
  <2>. QED
    BY <1>2, <2>1, UnderSteps
<1>4. ASSUME NEW t, NEW w, EnterBoth(Pair(s, v), d) = Pair(t, w) PROVE Under(s, v, q) = Under(t, w, path)
  <2>1. PICK g : FindsBoth(g, Pair(t, w), path, N) /\ Under(t, w, path) = g[N]
    <3>1. N \in Nat /\ Len(path) = N
      BY <1>1
    <3>. QED
      BY <3>1, UnderSteps
  <2>2. FindsBoth(g, EnterBoth(Pair(s, v), q[1]), path, N)
    BY <1>2, <1>4, <2>1
  <2>3. f[N + 1] = g[N]
    BY <1>2, <1>3, <2>1, <2>2, BothShift
  <2>. QED
    BY <1>3, <2>1, <2>3
<1>5. ASSUME EnterBoth(Pair(s, v), d) = {} PROVE Under(s, v, q) = {}
  <2>1. f[1] = {}
    <3>1. 1 \in 1..(N + 1) /\ 1 - 1 = 0
      BY <1>2
    <3>2. f[1] = EnterBoth(f[1 - 1], q[1])
      BY <1>3, <3>1 DEF FindsBoth
    <3>. QED
      BY <1>2, <1>3, <1>5, <3>1, <3>2 DEF FindsBoth
  <2>2. PICK g : g = [n \in 0..N |-> f[n + 1]]
    OBVIOUS
  <2>3. g[0] = {}
    BY <1>2, <2>1, <2>2
  <2>4. ASSUME NEW n \in 1..N PROVE g[n] = EnterBoth(g[n - 1], path[n])
    <3>1. n \in 0..N /\ n - 1 \in 0..N /\ (n - 1) + 1 = n /\ n + 1 \in 1..(N + 1) /\ (n + 1) - 1 = n
      BY <1>2
    <3>2. f[n + 1] = EnterBoth(f[n], q[n + 1])
      BY <1>3, <3>1 DEF FindsBoth
    <3>. QED
      BY <1>2, <2>2, <3>1, <3>2 DEF GoesOn
  <2>a. FindsBoth(g, {}, path, N)
    BY <2>3, <2>4 DEF FindsBoth
  <2>5. g[N] = {}
    BY <1>2, <2>a, BothNowhere
  <2>6. N \in 0..N
    BY <1>2
  <2>. QED
    BY <1>3, <2>2, <2>5, <2>6
<1>. QED
  BY <1>1, <1>4, <1>5

-----------------------------------------------------------------------------
(* What descends into a value, layer by layer *)

Depth == Len(Layers)

LEMMA DepthIsNat == Depth \in Nat
BY ValuesAssumption DEF Depth

LEMMA NoLayer == UpTo(0) = {}
<1>1. 1..0 = {}
  OBVIOUS
<1>. QED
  BY <1>1 DEF UpTo

LEMMA LayersGrow ==
  ASSUME NEW m \in Nat, NEW n \in Nat, m <= n
  PROVE  UpTo(m) \subseteq UpTo(n)
<1>1. 1..m \subseteq 1..n
  OBVIOUS
<1>. QED
  BY <1>1 DEF UpTo

\* What a value holds is of a lower layer.
LEMMA HeldBelow ==
  ASSUME NEW n \in Nat, n + 1 <= Depth, NEW v \in UpTo(n + 1), Holds(v), NEW k \in DOMAIN v[2]
  PROVE  v[2][k] \in UpTo(n)
<1>1. PICK m \in 1..(n + 1) : v \in Layers[m]
  BY DEF UpTo
<1>2. m \in 1..Len(Layers) /\ m - 1 \in Nat /\ m - 1 <= n
  BY <1>1, DepthIsNat DEF Depth
<1>3. v[2][k] \in UpTo(m - 1)
  BY <1>1, <1>2, ValuesAssumption
<1>. QED
  BY <1>2, <1>3, LayersGrow

LEMMA HeldIsJson ==
  ASSUME NEW v \in Json, Holds(v), NEW k \in DOMAIN v[2]
  PROVE  v[2][k] \in Json
<1>1. PICK m \in 1..Depth : v \in Layers[m]
  BY DEF UpTo, Json, Depth
<1>2. m \in 1..Len(Layers) /\ m - 1 \in Nat /\ m - 1 <= Depth
  BY <1>1, DepthIsNat DEF Depth
<1>3. v[2][k] \in UpTo(m - 1)
  BY <1>1, <1>2, ValuesAssumption
<1>. QED
  BY <1>2, <1>3, LayersGrow, DepthIsNat DEF Json, Depth

LEMMA JsonIsUpTo == Json = UpTo(Depth)
BY DEF Json, Depth

HasBody(f, w) == IsRef(w) \/ (Holds(w) /\ \E k \in DOMAIN w[2] : f[w[2][k]])
Having(f, S) == f = [w \in S |-> HasBody(f, w)]

\* The function that has_secret_refs is exists on all layers.
LEMMA HasLayers == \E f : Having(f, Json)
<1> DEFINE P == {n \in Nat : n <= Depth => \E f : Having(f, UpTo(n))}
<1>1. 0 \in P
  <2>1. Having([w \in {} |-> w], {})
    BY DEF Having
  <2>. QED
    BY <2>1, NoLayer
<1>2. ASSUME NEW n \in P PROVE n + 1 \in P
  <2> SUFFICES ASSUME n + 1 <= Depth PROVE \E f : Having(f, UpTo(n + 1))
    OBVIOUS
  <2>1. n \in Nat /\ n <= Depth /\ UpTo(n) \subseteq UpTo(n + 1)
    BY DepthIsNat, LayersGrow
  <2>2. PICK f : Having(f, UpTo(n))
    BY <2>1
  <2> DEFINE g == [w \in UpTo(n + 1) |-> HasBody(f, w)]
  <2>3. \A w \in UpTo(n) : g[w] = f[w]
    BY <2>1, <2>2 DEF Having
  <2>4. ASSUME NEW w \in UpTo(n + 1) PROVE HasBody(g, w) = HasBody(f, w)
    <3>1. Holds(w) => \A k \in DOMAIN w[2] : g[w[2][k]] = f[w[2][k]]
      BY <2>1, <2>3, HeldBelow
    <3> HIDE DEF g
    <3>. QED
      BY <3>1, Zenon DEF HasBody
  <2>5. Having(g, UpTo(n + 1))
    <3>1. g = [w \in UpTo(n + 1) |-> HasBody(g, w)]
      BY <2>4
    <3> HIDE DEF g
    <3>. QED
      BY <3>1 DEF Having
  <2> HIDE DEF g
  <2>. QED
    BY <2>5
<1> HIDE DEF P
<1>3. Depth \in P
  <2>1. P \in SUBSET Nat
    BY DEF P
  <2>. QED
    BY <1>1, <1>2, <2>1, AllNumbers, DepthIsNat
<1>. QED
  BY <1>3, DepthIsNat, JsonIsUpTo DEF P

\* A value has a reference when it is one or holds a value that has one.
LEMMA HasRefsIs ==
  ASSUME NEW v \in Json
  PROVE  HasRefs(v) <=> IsRef(v) \/ (Holds(v) /\ \E k \in DOMAIN v[2] : HasRefs(v[2][k]))
<1> DEFINE F == CHOOSE f : Having(f, Json)
<1>1. Having(F, Json)
  BY Zenon, HasLayers
<1>2. \A w : HasRefs(w) = F[w]
  BY DEF HasRefs, Having, HasBody
<1> HIDE DEF F
<1>3. F[v] = HasBody(F, v)
  BY <1>1 DEF Having
<1>. QED
  BY <1>2, <1>3, Zenon DEF HasBody

ResolveBody(f, w) ==
  IF IsRef(w) THEN Secret(w)
  ELSE IF ~Holds(w) THEN w
  ELSE Rebuilt(w, [k \in DOMAIN w[2] |-> f[w[2][k]]])
Resolving(f, S) == f = [w \in S |-> ResolveBody(f, w)]

\* So does the one that resolve_secret_refs is,
LEMMA ResolveLayers == \E f : Resolving(f, Json)
<1> DEFINE P == {n \in Nat : n <= Depth => \E f : Resolving(f, UpTo(n))}
<1>1. 0 \in P
  <2>1. Resolving([w \in {} |-> w], {})
    BY DEF Resolving
  <2>. QED
    BY <2>1, NoLayer
<1>2. ASSUME NEW n \in P PROVE n + 1 \in P
  <2> SUFFICES ASSUME n + 1 <= Depth PROVE \E f : Resolving(f, UpTo(n + 1))
    OBVIOUS
  <2>1. n \in Nat /\ n <= Depth /\ UpTo(n) \subseteq UpTo(n + 1)
    BY DepthIsNat, LayersGrow
  <2>2. PICK f : Resolving(f, UpTo(n))
    BY <2>1
  <2> DEFINE g == [w \in UpTo(n + 1) |-> ResolveBody(f, w)]
  <2>3. \A w \in UpTo(n) : g[w] = f[w]
    BY <2>1, <2>2 DEF Resolving
  <2>4. ASSUME NEW w \in UpTo(n + 1) PROVE ResolveBody(g, w) = ResolveBody(f, w)
    <3>1. Holds(w) => \A k \in DOMAIN w[2] : g[w[2][k]] = f[w[2][k]]
      BY <2>1, <2>3, HeldBelow
    <3> HIDE DEF g
    <3>2. Holds(w) => [k \in DOMAIN w[2] |-> g[w[2][k]]] = [k \in DOMAIN w[2] |-> f[w[2][k]]]
      BY <3>1
    <3>. QED
      BY <3>2, Zenon DEF ResolveBody
  <2>5. Resolving(g, UpTo(n + 1))
    <3>1. g = [w \in UpTo(n + 1) |-> ResolveBody(g, w)]
      BY <2>4
    <3> HIDE DEF g
    <3>. QED
      BY <3>1 DEF Resolving
  <2> HIDE DEF g
  <2>. QED
    BY <2>5
<1> HIDE DEF P
<1>3. Depth \in P
  <2>1. P \in SUBSET Nat
    BY DEF P
  <2>. QED
    BY <1>1, <1>2, <2>1, AllNumbers, DepthIsNat
<1>. QED
  BY <1>3, DepthIsNat, JsonIsUpTo DEF P

\* A reference resolves to its secret, and what a value holds by itself.
LEMMA ResolveIs ==
  ASSUME NEW v \in Json
  PROVE  /\ IsRef(v) => Resolve(v) = Secret(v)
         /\ ~IsRef(v) /\ ~Holds(v) => Resolve(v) = v
         /\ ~IsRef(v) /\ Holds(v)
              => Resolve(v) = Rebuilt(v, [k \in DOMAIN v[2] |-> Resolve(v[2][k])])
<1> DEFINE F == CHOOSE f : Resolving(f, Json)
<1>1. Resolving(F, Json)
  BY Zenon, ResolveLayers
<1>2. \A w : Resolve(w) = F[w]
  BY DEF Resolve, Resolving, ResolveBody
<1> HIDE DEF F
<1>3. F[v] = ResolveBody(F, v)
  BY <1>1 DEF Resolving
<1>4. [k \in DOMAIN v[2] |-> Resolve(v[2][k])] = [k \in DOMAIN v[2] |-> F[v[2][k]]]
  BY <1>2
<1>. QED
  BY <1>2, <1>3, <1>4, Zenon DEF ResolveBody

-----------------------------------------------------------------------------
(* The validator, property by property *)

LEMMA MemoryProps ==
  /\ DOMAIN SearchSchema.props = {"query", "collection", "limit"}
  /\ DOMAIN GetSchema.props = {"path"}
  /\ DOMAIN StoreSchema.props = {"path", "content"}
  /\ DOMAIN ListSchema.props = {"pattern"}
  /\ \A s \in MemorySchemas : \A k \in DOMAIN s.props :
       s.props[k] \in {Leaf("string"), Bounded("integer", 1, 100)}
<1>1. SearchSchema.props = [k \in {"query", "collection", "limit"} |->
                              IF k = "limit" THEN Bounded("integer", 1, 100) ELSE Leaf("string")]
  BY DEF SearchSchema, Schema
<1>2. /\ GetSchema.props = [k \in {"path"} |-> Leaf("string")]
      /\ StoreSchema.props = [k \in {"path", "content"} |-> Leaf("string")]
      /\ ListSchema.props = [k \in {"pattern"} |-> Leaf("string")]
  BY DEF GetSchema, StoreSchema, ListSchema, Schema
<1>. QED
  BY <1>1, <1>2 DEF MemorySchemas

LEMMA LeafProps ==
  /\ DOMAIN Leaf("string").props = {}
  /\ DOMAIN Bounded("integer", 1, 100).props = {}
BY DEF Leaf, Bounded, Schema, NoProps

LEMMA KeyIs ==
  /\ DOMAIN KeyOrder = 1..6
  /\ Key = {"collection", "content", "limit", "path", "pattern", "query"}
  /\ \A k \in Key : \E i \in DOMAIN KeyOrder : KeyOrder[i] = k
  /\ \A i \in DOMAIN KeyOrder : KeyOrder[i] \in Key
<1>1. DOMAIN KeyOrder = 1..6
  BY DEF KeyOrder
<1>2. Key = {KeyOrder[i] : i \in 1..6}
  BY <1>1 DEF Key, ToSet
<1>3. 1..6 = {1, 2, 3, 4, 5, 6}
  OBVIOUS
<1>4. Key = {"collection", "content", "limit", "path", "pattern", "query"}
  BY <1>2, <1>3 DEF KeyOrder
<1>. QED
  BY <1>1, <1>2, <1>4

\* Validation goes from a schema to schemas.
LEMMA PropsAreSchemas ==
  ASSUME NEW s \in AllSchemas, NEW k \in DOMAIN s.props
  PROVE  k \in Key /\ s.props[k] \in AllSchemas
<1>1. CASE s \in Schemas
  BY <1>1, SchemasAssumption DEF AllSchemas
<1>2. CASE s \in MemorySchemas
  <2>1. k \in Key
    BY <1>2, MemoryProps, KeyIs DEF MemorySchemas
  <2>. QED
    BY <1>2, <2>1 DEF AllSchemas
<1>3. ASSUME NEW t \in MemorySchemas, NEW j \in DOMAIN t.props, s = t.props[j] PROVE FALSE
  BY <1>3, MemoryProps, LeafProps
<1>. QED
  BY <1>1, <1>2, <1>3 DEF AllSchemas

Clean(s, v) == \A i \in DOMAIN Keywords : ~Refuses(Keywords[i], s, v)

\* The properties of a schema that a value has.
Shared(s, v) == IF IsObject(v) THEN DOMAIN s.props \cap DOMAIN v[2] ELSE {}

\* The property that a violation is reported in.
Reported(k, x) == <<<<Field(k)>> \o x[1], x[2]>>

LEMMA KeywordsAre == DOMAIN Keywords = 1..7 /\ DOMAIN Keywords \subseteq Nat
BY DEF Keywords

\* The three ways the search for a violation ends.
LEMMA ViolationIs ==
  ASSUME NEW s \in AllSchemas, NEW v, NEW at
  PROVE  /\ ~Clean(s, v) => \E i \in DOMAIN Keywords :
              Refuses(Keywords[i], s, v) /\ Violation(s, v, at) = <<<<>>, Keywords[i]>>
         /\ Clean(s, v) /\ (\E k \in Shared(s, v) : at[<<s.props[k], v[2][k]>>] # Conforms)
              => \E k \in Shared(s, v) :
                   /\ at[<<s.props[k], v[2][k]>>] # Conforms
                   /\ Violation(s, v, at) = Reported(k, at[<<s.props[k], v[2][k]>>])
         /\ Clean(s, v) /\ (\A k \in Shared(s, v) : at[<<s.props[k], v[2][k]>>] = Conforms)
              => Violation(s, v, at) = Conforms
<1> DEFINE here == {i \in DOMAIN Keywords : Refuses(Keywords[i], s, v)}
           In(k) == at[<<s.props[k], v[2][k]>>]
           inside == {i \in DOMAIN KeyOrder :
                        /\ IsObject(v) /\ KeyOrder[i] \in DOMAIN s.props \cap DOMAIN v[2]
                        /\ In(KeyOrder[i]) # Conforms}
           first == KeyOrder[Min(inside)]
<1>1. Violation(s, v, at) = IF here # {} THEN <<<<>>, Keywords[Min(here)]>>
                            ELSE IF inside # {} THEN Reported(first, In(first))
                            ELSE Conforms
  BY DEF Violation, Reported
<1>2. here # {} => Min(here) \in here
  <2>1. here \subseteq Nat
    BY KeywordsAre
  <2>. QED
    BY <2>1, MinIs
<1>3. inside # {} => Min(inside) \in inside
  <2>1. inside \subseteq Nat
    BY KeyIs
  <2>. QED
    BY <2>1, MinIs
<1>4. here = {} <=> Clean(s, v)
  BY DEF Clean
<1>5. ASSUME NEW k \in Shared(s, v), In(k) # Conforms PROVE inside # {}
  <2>1. k \in Key /\ IsObject(v) /\ k \in DOMAIN s.props \cap DOMAIN v[2]
    BY PropsAreSchemas DEF Shared
  <2>2. PICK i \in DOMAIN KeyOrder : KeyOrder[i] = k
    BY <2>1, KeyIs
  <2>3. i \in inside
    BY <1>5, <2>1, <2>2
  <2>. QED
    BY <2>3
<1>6. inside # {} => first \in Shared(s, v) /\ In(first) # Conforms
  BY <1>3 DEF Shared
<1>7. ASSUME ~Clean(s, v)
      PROVE  \E i \in DOMAIN Keywords :
               Refuses(Keywords[i], s, v) /\ Violation(s, v, at) = <<<<>>, Keywords[i]>>
  <2>1. PICK i : i = Min(here)
    OBVIOUS
  <2>2. i \in here
    BY <1>2, <1>4, <1>7, <2>1
  <2>3. Violation(s, v, at) = <<<<>>, Keywords[i]>>
    BY <1>1, <1>4, <1>7, <2>1
  <2>. QED
    BY <2>2, <2>3
<1>8. ASSUME Clean(s, v), NEW j \in Shared(s, v), In(j) # Conforms
      PROVE  \E k \in Shared(s, v) : In(k) # Conforms /\ Violation(s, v, at) = Reported(k, In(k))
  <2>1. inside # {}
    BY <1>5, <1>8
  <2>2. PICK k : k = first
    OBVIOUS
  <2>3. Violation(s, v, at) = Reported(first, In(first))
    BY <1>1, <1>4, <1>8, <2>1
  <2> HIDE DEF inside, here
  <2>4. k \in Shared(s, v) /\ In(k) # Conforms
    BY <1>6, <2>1, <2>2
  <2>5. Violation(s, v, at) = Reported(k, In(k))
    BY <2>2, <2>3
  <2>. QED
    BY <2>4, <2>5
<1>9. ASSUME Clean(s, v), \A k \in Shared(s, v) : In(k) = Conforms PROVE Violation(s, v, at) = Conforms
  <2>1. inside = {}
    BY <1>6, <1>9
  <2>. QED
    BY <1>1, <1>4, <1>9, <2>1
<1>. QED
  BY <1>7, <1>8, <1>9

\* Only what is found under the properties matters.
LEMMA ViolationLocal ==
  ASSUME NEW s, NEW v, NEW f, NEW g,
         \A k \in Shared(s, v) : f[<<s.props[k], v[2][k]>>] = g[<<s.props[k], v[2][k]>>]
  PROVE  Violation(s, v, f) = Violation(s, v, g)
<1> DEFINE here == {i \in DOMAIN Keywords : Refuses(Keywords[i], s, v)}
           In(h, k) == h[<<s.props[k], v[2][k]>>]
           inside(h) == {i \in DOMAIN KeyOrder :
                        /\ IsObject(v) /\ KeyOrder[i] \in DOMAIN s.props \cap DOMAIN v[2]
                        /\ In(h, KeyOrder[i]) # Conforms}
           first(h) == KeyOrder[Min(inside(h))]
<1>1. ASSUME NEW h
      PROVE  Violation(s, v, h) = IF here # {} THEN <<<<>>, Keywords[Min(here)]>>
                                  ELSE IF inside(h) # {} THEN Reported(first(h), In(h, first(h)))
                                  ELSE Conforms
  BY DEF Violation, Reported
<1>2. inside(f) = inside(g)
  BY DEF Shared
<1>3. inside(f) # {} => In(f, first(f)) = In(g, first(f))
  <2>1. inside(f) \subseteq Nat
    BY KeyIs
  <2>2. inside(f) # {} => Min(inside(f)) \in inside(f)
    BY <2>1, MinIs
  <2>. QED
    BY <2>2 DEF Shared
<1> HIDE DEF here, In
<1>. QED
  BY <1>1, <1>2, <1>3

Validating(f, S) == f = [c \in AllSchemas \X S |-> Violation(c[1], c[2], f)]

LEMMA SharedBelow ==
  ASSUME NEW n \in Nat, n + 1 <= Depth, NEW s \in AllSchemas, NEW v \in UpTo(n + 1),
         NEW k \in Shared(s, v)
  PROVE  <<s.props[k], v[2][k]>> \in AllSchemas \X UpTo(n)
<1>1. IsObject(v) /\ k \in DOMAIN s.props /\ k \in DOMAIN v[2]
  BY DEF Shared
<1>2. Holds(v)
  BY <1>1 DEF IsObject, Holds
<1>. QED
  BY <1>1, <1>2, HeldBelow, PropsAreSchemas

\* ... and the one that validate is.
LEMMA ValidateLayers == \E f : Validating(f, Json)
<1> DEFINE P == {n \in Nat : n <= Depth => \E f : Validating(f, UpTo(n))}
<1>1. 0 \in P
  <2>1. Validating([c \in AllSchemas \X {} |-> c], {})
    BY DEF Validating
  <2>. QED
    BY <2>1, NoLayer
<1>2. ASSUME NEW n \in P PROVE n + 1 \in P
  <2> SUFFICES ASSUME n + 1 <= Depth PROVE \E f : Validating(f, UpTo(n + 1))
    OBVIOUS
  <2>1. n \in Nat /\ n <= Depth /\ UpTo(n) \subseteq UpTo(n + 1)
    BY DepthIsNat, LayersGrow
  <2>2. PICK f : Validating(f, UpTo(n))
    BY <2>1
  <2> DEFINE g == [c \in AllSchemas \X UpTo(n + 1) |-> Violation(c[1], c[2], f)]
  <2>3. \A c \in AllSchemas \X UpTo(n) : g[c] = f[c]
    BY <2>1, <2>2 DEF Validating
  <2>4. ASSUME NEW c \in AllSchemas \X UpTo(n + 1)
        PROVE  Violation(c[1], c[2], g) = Violation(c[1], c[2], f)
    <3>1. PICK s \in AllSchemas, v \in UpTo(n + 1) : c = <<s, v>>
      OBVIOUS
    <3>2. \A k \in Shared(s, v) : g[<<s.props[k], v[2][k]>>] = f[<<s.props[k], v[2][k]>>]
      BY <2>1, <2>3, SharedBelow
    <3> HIDE DEF g
    <3>3. Violation(s, v, g) = Violation(s, v, f)
      BY <3>2, Zenon, ViolationLocal
    <3>. QED
      BY <3>1, <3>3
  <2>5. Validating(g, UpTo(n + 1))
    <3>1. g = [c \in AllSchemas \X UpTo(n + 1) |-> Violation(c[1], c[2], g)]
      BY <2>4
    <3> HIDE DEF g
    <3>. QED
      BY <3>1 DEF Validating
  <2> HIDE DEF g
  <2>. QED
    BY <2>5
<1> HIDE DEF P
<1>3. Depth \in P
  <2>1. P \in SUBSET Nat
    BY DEF P
  <2>. QED
    BY <1>1, <1>2, <2>1, AllNumbers, DepthIsNat
<1>. QED
  BY <1>3, DepthIsNat, JsonIsUpTo DEF P

\* A value conforms when no keyword refuses it and all its properties conform; else
\* what is reported is a keyword that refuses it, or what is reported of a property.
LEMMA ValidateIs ==
  ASSUME NEW s \in AllSchemas, NEW v \in Json
  PROVE  /\ ~Clean(s, v) => \E i \in DOMAIN Keywords :
              Refuses(Keywords[i], s, v) /\ Validate(s, v) = <<<<>>, Keywords[i]>>
         /\ Clean(s, v) /\ (\E k \in Shared(s, v) : Validate(s.props[k], v[2][k]) # Conforms)
              => \E k \in Shared(s, v) :
                   /\ Validate(s.props[k], v[2][k]) # Conforms
                   /\ Validate(s, v) = Reported(k, Validate(s.props[k], v[2][k]))
         /\ Clean(s, v) /\ (\A k \in Shared(s, v) : Validate(s.props[k], v[2][k]) = Conforms)
              => Validate(s, v) = Conforms
<1> DEFINE F == CHOOSE f : Validating(f, Json)
<1>1. Validating(F, Json)
  BY Zenon, ValidateLayers
<1>2. \A t, w : Validate(t, w) = F[<<t, w>>]
  BY DEF Validate, Validating
<1> HIDE DEF F
<1>3. PICK f : f = F
  OBVIOUS
<1>4. f[<<s, v>>] = Violation(s, v, f)
  <2>1. <<s, v>> \in AllSchemas \X Json /\ <<s, v>>[1] = s /\ <<s, v>>[2] = v
    OBVIOUS
  <2>2. f = [c \in AllSchemas \X Json |-> Violation(c[1], c[2], f)]
    BY <1>1, <1>3 DEF Validating
  <2>. QED
    BY <2>1, <2>2
<1>5. \A t, w : Validate(t, w) = f[<<t, w>>]
  BY <1>2, <1>3
<1>6. /\ ~Clean(s, v) => \E i \in DOMAIN Keywords :
           Refuses(Keywords[i], s, v) /\ f[<<s, v>>] = <<<<>>, Keywords[i]>>
      /\ Clean(s, v) /\ (\E k \in Shared(s, v) : f[<<s.props[k], v[2][k]>>] # Conforms)
           => \E k \in Shared(s, v) :
                /\ f[<<s.props[k], v[2][k]>>] # Conforms
                /\ f[<<s, v>>] = Reported(k, f[<<s.props[k], v[2][k]>>])
      /\ Clean(s, v) /\ (\A k \in Shared(s, v) : f[<<s.props[k], v[2][k]>>] = Conforms)
           => f[<<s, v>>] = Conforms
  <2>1. PICK x : x = f[<<s, v>>]
    OBVIOUS
  <2>2. x = Violation(s, v, f)
    BY <1>4, <2>1
  <2>. QED
    BY <2>1, <2>2, ViolationIs
<1>. QED
  BY <1>5, <1>6

-----------------------------------------------------------------------------
(* The schemas and the handlers of the memory tools *)

LEMMA ConformingIs ==
  ASSUME NEW s \in AllSchemas, NEW v \in Json, Validate(s, v) = Conforms
  PROVE  Clean(s, v) /\ \A k \in Shared(s, v) : Validate(s.props[k], v[2][k]) = Conforms
<1>1. \A x, y : <<x, y>> # Conforms
  BY DEF Conforms
<1>2. Clean(s, v)
  <2>1. ~Clean(s, v) => \E i \in DOMAIN Keywords : Validate(s, v) = <<<<>>, Keywords[i]>>
    BY ValidateIs
  <2>2. \A i : <<<<>>, Keywords[i]>> # Conforms
    BY DEF Conforms
  <2>. QED
    BY <2>1, <2>2, Zenon
<1>3. \A k \in Shared(s, v) : Validate(s.props[k], v[2][k]) = Conforms
  <2>1. (\E k \in Shared(s, v) : Validate(s.props[k], v[2][k]) # Conforms)
          => \E k \in Shared(s, v) : Validate(s, v) = Reported(k, Validate(s.props[k], v[2][k]))
    BY <1>2, ValidateIs
  <2>2. \A k, x : Reported(k, x) # Conforms
    BY DEF Reported, Conforms
  <2>. QED
    BY <2>1, <2>2, Zenon
<1>. QED
  BY <1>2, <1>3

LEMMA KeywordIs ==
  /\ \A kw \in {"unknown", "type", "enum", "minimum", "maximum", "required", "additional"} :
       \E i \in DOMAIN Keywords : Keywords[i] = kw
  /\ ToSet(Keywords) = {"unknown", "type", "enum", "minimum", "maximum", "required", "additional"}
  /\ \A i \in DOMAIN Keywords : Keywords[i] \in ToSet(Keywords)
<1>1. DOMAIN Keywords = 1..7 /\ 1..7 = {1, 2, 3, 4, 5, 6, 7}
  BY KeywordsAre
<1>2. ToSet(Keywords) = {Keywords[i] : i \in 1..7}
  BY <1>1 DEF ToSet
<1>3. ToSet(Keywords) = {"unknown", "type", "enum", "minimum", "maximum", "required", "additional"}
  BY <1>1, <1>2 DEF Keywords
<1>. QED
  BY <1>1, <1>2, <1>3

\* A required property that is a string in the schema is one in a conforming value.
LEMMA RequiredString ==
  ASSUME NEW s \in AllSchemas, s.type = "object", NEW v \in Json, Validate(s, v) = Conforms,
         NEW i \in DOMAIN s.required, NEW k, k = s.required[i],
         k \in DOMAIN s.props, s.props[k] = Leaf("string")
  PROVE  HasStr(v, k)
<1>1. Clean(s, v) /\ \A j \in Shared(s, v) : Validate(s.props[j], v[2][j]) = Conforms
  BY ConformingIs
<1>2. ~Refuses("type", s, v) /\ ~Refuses("required", s, v)
  BY <1>1, KeywordIs DEF Clean
<1>3. IsObject(v)
  BY <1>2 DEF Refuses, HasType, JsonTypes, IsObject
<1>4. k \in DOMAIN v[2]
  BY <1>2, <1>3 DEF Refuses
<1>5. PICK w : w = v[2][k]
  OBVIOUS
<1>6. w \in Json
  BY <1>3, <1>4, <1>5, HeldIsJson DEF Holds, IsObject
<1>7. Leaf("string") \in AllSchemas /\ Validate(Leaf("string"), w) = Conforms
  BY <1>1, <1>3, <1>4, <1>5, PropsAreSchemas DEF Shared
<1>8. ~Refuses("type", Leaf("string"), w)
  BY <1>6, <1>7, ConformingIs, KeywordIs DEF Clean
<1>9. w[1] = "string"
  BY <1>8 DEF Refuses, HasType, JsonTypes, Leaf, Schema
<1>. QED
  BY <1>3, <1>4, <1>5, <1>9 DEF HasStr

LEMMA MemoryIs ==
  /\ MemorySchemas \subseteq AllSchemas
  /\ SearchSchema.type = "object" /\ SearchSchema.required = <<"query">>
  /\ GetSchema.type = "object" /\ GetSchema.required = <<"path">>
  /\ StoreSchema.type = "object" /\ StoreSchema.required = <<"path", "content">>
  /\ SearchSchema.props["query"] = Leaf("string") /\ GetSchema.props["path"] = Leaf("string")
  /\ StoreSchema.props["path"] = Leaf("string") /\ StoreSchema.props["content"] = Leaf("string")
<1>1. MemorySchemas \subseteq AllSchemas
  BY DEF AllSchemas
<1>2. /\ SearchSchema.type = "object" /\ SearchSchema.required = <<"query">>
      /\ SearchSchema.props["query"] = Leaf("string")
  BY DEF SearchSchema, Schema
<1>3. /\ GetSchema.type = "object" /\ GetSchema.required = <<"path">>
      /\ GetSchema.props["path"] = Leaf("string")
  BY DEF GetSchema, Schema
<1>4. /\ StoreSchema.type = "object" /\ StoreSchema.required = <<"path", "content">>
      /\ StoreSchema.props["path"] = Leaf("string") /\ StoreSchema.props["content"] = Leaf("string")
  BY DEF StoreSchema, Schema
<1>. QED
  BY <1>1, <1>2, <1>3, <1>4

LEMMA MemoryApart ==
  /\ SearchSchema # GetSchema /\ SearchSchema # StoreSchema /\ SearchSchema # ListSchema
  /\ GetSchema # StoreSchema /\ GetSchema # ListSchema /\ StoreSchema # ListSchema
<1>1. /\ {"query", "collection", "limit"} # {"path"}
      /\ {"query", "collection", "limit"} # {"path", "content"}
      /\ {"query", "collection", "limit"} # {"pattern"}
      /\ {"path"} # {"path", "content"} /\ {"path"} # {"pattern"} /\ {"path", "content"} # {"pattern"}
  OBVIOUS
<1>. QED
  BY <1>1, MemoryProps

\* Which handler runs, and that it finds the strings that its schema requires.
LEMMA HandlersFit ==
  ASSUME schema \in MemorySchemas, args \in Json, Validate(schema, args) = Conforms
  PROVE  \/ schema = SearchSchema /\ Handle(args) = Search(args) /\ HasStr(args, "query")
         \/ schema = GetSchema /\ Handle(args) = Get(args) /\ HasStr(args, "path")
         \/ /\ schema = StoreSchema /\ Handle(args) = Store(args)
            /\ HasStr(args, "path") /\ HasStr(args, "content")
         \/ schema = ListSchema /\ Handle(args) = List(args)
<1>1. CASE schema = SearchSchema
  <2>1. 1 \in DOMAIN SearchSchema.required /\ SearchSchema.required[1] = "query"
    BY MemoryIs
  <2>2. HasStr(args, "query")
    BY <1>1, <2>1, MemoryIs, MemoryProps, RequiredString
  <2>3. Handle(args) = Search(args)
    BY <1>1, MemoryApart, Zenon DEF Handle
  <2>. QED
    BY <1>1, <2>2, <2>3
<1>2. CASE schema = GetSchema
  <2>1. 1 \in DOMAIN GetSchema.required /\ GetSchema.required[1] = "path"
    BY MemoryIs
  <2>2. HasStr(args, "path")
    BY <1>2, <2>1, MemoryIs, MemoryProps, RequiredString
  <2>3. Handle(args) = Get(args)
    BY <1>2, MemoryApart, Zenon DEF Handle
  <2>. QED
    BY <1>2, <2>2, <2>3
<1>3. CASE schema = StoreSchema
  <2>1. /\ 1 \in DOMAIN StoreSchema.required /\ StoreSchema.required[1] = "path"
        /\ 2 \in DOMAIN StoreSchema.required /\ StoreSchema.required[2] = "content"
    BY MemoryIs
  <2>2. HasStr(args, "path") /\ HasStr(args, "content")
    BY <1>3, <2>1, MemoryIs, MemoryProps, RequiredString
  <2>3. Handle(args) = Store(args)
    BY <1>3, MemoryApart, Zenon DEF Handle
  <2>. QED
    BY <1>3, <2>2, <2>3
<1>4. CASE schema = ListSchema
  <2>1. Handle(args) = List(args)
    BY <1>4, MemoryApart, Zenon DEF Handle
  <2>. QED
    BY <1>4, <2>1
<1>. QED
  BY <1>1, <1>2, <1>3, <1>4 DEF MemorySchemas

-----------------------------------------------------------------------------
(* Paths *)

\* A path that does not go up leads down through its names.
LEMMA LeadsDown ==
  ASSUME NEW raw \in Seq(STRING), ".." \notin ToSet(raw)
  PROVE  LeadsTo(raw) = [up |-> 0, down |-> Names(raw)]
<1>1. PICK N : N \in Nat /\ Len(raw) = N
  OBVIOUS
<1>2. PICK f : Moves(f, [up |-> 0, down |-> <<>>], raw, N) /\ LeadsTo(raw) = f[N]
  BY <1>1, LeadsToSteps
<1>3. PICK g : Keeps(g, <<>>, raw, N) /\ Names(raw) = g[N]
  BY <1>1, NamesSteps
<1> DEFINE P == {n \in Nat : n <= N => f[n] = [up |-> 0, down |-> g[n]]}
<1>4. 0 \in P
  BY <1>2, <1>3 DEF Moves, Keeps
<1>5. ASSUME NEW n \in P PROVE n + 1 \in P
  <2> SUFFICES ASSUME n + 1 <= N PROVE f[n + 1] = [up |-> 0, down |-> g[n + 1]]
    OBVIOUS
  <2>1. n \in Nat /\ n + 1 \in 1..N /\ (n + 1) - 1 = n /\ f[n] = [up |-> 0, down |-> g[n]]
    BY <1>1
  <2>2. f[n + 1] = Move(f[n], raw[n + 1])
    BY <1>2, <2>1 DEF Moves
  <2>3. g[n + 1] = Keep(g[n], raw[n + 1])
    BY <1>3, <2>1 DEF Keeps
  <2>4. raw[n + 1] # ".."
    BY <1>1, <2>1 DEF ToSet
  <2>5. PICK x, y : x = raw[n + 1] /\ y = g[n]
    OBVIOUS
  <2>6. CASE x \in {"", "."}
    <3>1. Keep(y, x) = y /\ Move([up |-> 0, down |-> y], x) = [up |-> 0, down |-> y]
      BY <2>6 DEF Keep, Move
    <3>. QED
      BY <2>1, <2>2, <2>3, <2>5, <3>1
  <2>7. CASE x \notin {"", "."}
    <3>1. Keep(y, x) = Append(y, x)
      BY <2>4, <2>5, <2>7 DEF Keep
    <3>2. Move([up |-> 0, down |-> y], x) = [up |-> 0, down |-> Append(y, x)]
      BY <2>4, <2>5, <2>7 DEF Move
    <3>. QED
      BY <2>1, <2>2, <2>3, <2>5, <3>1, <3>2
  <2>. QED
    BY <2>6, <2>7
<1> HIDE DEF P
<1>6. N \in P
  <2>1. P \in SUBSET Nat
    BY DEF P
  <2>. QED
    BY <1>1, <1>4, <1>5, <2>1, AllNumbers
<1>7. f[N] = [up |-> 0, down |-> g[N]]
  BY <1>1, <1>6 DEF P
<1>. QED
  BY <1>2, <1>3, <1>7

LEMMA OneOrMore ==
  ASSUME NEW n \in Nat
  PROVE  (n = 1 => 1 \in 1..n /\ 1 - 1 = 0) /\ (n # 0 /\ n # 1 => n > 1)
OBVIOUS

LEMMA NamesOfNone ==
  ASSUME NEW raw \in Seq(STRING), Len(raw) = 0 \/ (Len(raw) = 1 /\ raw[1] = "")
  PROVE  Names(raw) = <<>>
<1>1. PICK N : N \in Nat /\ Len(raw) = N
  OBVIOUS
<1>2. PICK g : Keeps(g, <<>>, raw, N) /\ Names(raw) = g[N]
  BY <1>1, NamesSteps
<1>3. CASE N = 0
  BY <1>2, <1>3 DEF Keeps
<1>4. CASE N = 1 /\ raw[1] = ""
  <2>1. 1 \in 1..N /\ 1 - 1 = 0
    BY <1>1, <1>4, OneOrMore, Zenon
  <2>2. g[1] = Keep(g[0], raw[1]) /\ g[0] = <<>>
    BY <1>2, <2>1 DEF Keeps
  <2>. QED
    BY <1>2, <1>4, <2>2 DEF Keep
<1>. QED
  BY <1>1, <1>3, <1>4

\* What is not refused leads from the directory of the store to what is asked for.
LEMMA NormalizedInside ==
  ASSUME NEW raw \in Seq(STRING), NormalizePath(raw) # <<>>
  PROVE  raw[1] # "" /\ LeadsTo(raw) = [up |-> 0, down |-> NormalizePath(raw)]
<1>1. ".." \notin ToSet(raw) /\ NormalizePath(raw) = Names(raw)
  BY DEF NormalizePath
<1>2. raw # <<>> /\ raw[1] = "" => ~(Len(raw) > 1)
  BY DEF NormalizePath
<1>3. Len(raw) # 0 /\ ~(Len(raw) = 1 /\ raw[1] = "")
  BY <1>1, NamesOfNone
<1>4. PICK N : N \in Nat /\ N = Len(raw)
  OBVIOUS
<1>5. raw[1] # ""
  <2> SUFFICES ASSUME raw[1] = "" PROVE FALSE
    OBVIOUS
  <2>1. N # 0 /\ N # 1
    BY <1>3, <1>4
  <2>2. N > 1
    BY <1>4, <2>1, OneOrMore, Zenon
  <2>3. Len(<<>>) = 0
    OBVIOUS
  <2>4. raw # <<>>
    BY <1>4, <2>1, <2>3
  <2>. QED
    BY <1>2, <1>4, <2>2, <2>4
<1>. QED
  BY <1>1, <1>5, LeadsDown

LEMMA StrIsPath ==
  ASSUME NEW v \in Json, NEW k, HasStr(v, k)
  PROVE  StrOf(v, k) \in Seq(STRING)
<1>1. IsObject(v) /\ k \in DOMAIN v[2] /\ v[2][k][1] = "string"
  BY DEF HasStr
<1>2. v[2][k] \in Json
  BY <1>1, HeldIsJson DEF Holds, IsObject
<1>. QED
  BY <1>1, <1>2, ValuesAssumption DEF StrOf

\* What the handlers answer.
LEMMA AnswersAre ==
  /\ Missing # Refused /\ Missing # Nothing /\ Refused # Nothing
  /\ \A name, path : /\ Request(name, path) \notin {Missing, Refused, Nothing}
                     /\ Request(name, path)[1] = name /\ Request(name, path)[2] = path
BY DEF Missing, Refused, Nothing, Request

\* A request that a handler makes of conforming arguments.
LEMMA RequestInside ==
  ASSUME schema \in MemorySchemas, args \in Json, Validate(schema, args) = Conforms,
         NEW h, h = Handle(args), h # Refused
  PROVE  /\ h # Missing
         /\ h[1] \in {"search", "get", "store", "list"}
         /\ h[1] \in {"get", "store"} =>
              /\ HasStr(args, "path")
              /\ h[2] # <<>> /\ h[2] = NormalizePath(StrOf(args, "path"))
         /\ h[1] = "search" =>
              IF HasStr(args, "collection")
              THEN h[2] # <<>> /\ h[2] = NormalizePath(StrOf(args, "collection"))
              ELSE h[2] = <<>>
<1>1. CASE h = Search(args) /\ HasStr(args, "query")
  <2>1. CASE HasStr(args, "collection")
    <3>1. /\ NormalizePath(StrOf(args, "collection")) # <<>>
          /\ h = Request("search", NormalizePath(StrOf(args, "collection")))
      BY <1>1, <2>1 DEF Search
    <3>. QED
      BY <2>1, <3>1, AnswersAre
  <2>2. CASE ~HasStr(args, "collection")
    <3>1. h = Request("search", <<>>)
      BY <1>1, <2>2 DEF Search
    <3>. QED
      BY <2>2, <3>1, AnswersAre
  <2>. QED
    BY <2>1, <2>2
<1>2. CASE h = Get(args) /\ HasStr(args, "path")
  <2>1. /\ NormalizePath(StrOf(args, "path")) # <<>>
        /\ h = Request("get", NormalizePath(StrOf(args, "path")))
    BY <1>2 DEF Get
  <2>. QED
    BY <1>2, <2>1, AnswersAre
<1>3. CASE h = Store(args) /\ HasStr(args, "path") /\ HasStr(args, "content")
  <2>1. /\ NormalizePath(StrOf(args, "path")) # <<>>
        /\ h = Request("store", NormalizePath(StrOf(args, "path")))
    BY <1>3 DEF Store
  <2>. QED
    BY <1>3, <2>1, AnswersAre
<1>4. CASE h = List(args)
  <2>1. PICK path : h = Request("list", path)
    BY <1>4 DEF List
  <2>. QED
    BY <2>1, AnswersAre
<1>. QED
  BY <1>1, <1>2, <1>3, <1>4, HandlersFit

-----------------------------------------------------------------------------
(* What the validator accepts *)

LEMMA FirstAndRest ==
  ASSUME NEW D, NEW path \in Seq(D), path # <<>>
  PROVE  \E d \in D, rest \in Seq(D) : path = <<d>> \o rest
<1>1. Head(path) \in D /\ Tail(path) \in Seq(D)
  OBVIOUS
<1>2. path = <<Head(path)>> \o Tail(path)
  OBVIOUS
<1>. QED
  BY <1>1, <1>2

LEMMA PathsAre == Paths \subseteq Seq(Doors) /\ <<>> \in Seq(Doors)
BY DEF Paths

\* Entering a field goes to its property, if the schema and the value have it.
LEMMA EnterProperty ==
  ASSUME NEW s, NEW v, NEW door
  PROVE  /\ door[1] = "object" /\ door[2] \in Shared(s, v)
              => EnterBoth(Pair(s, v), door) = Pair(s.props[door[2]], v[2][door[2]])
         /\ ~(door[1] = "object" /\ door[2] \in Shared(s, v)) => EnterBoth(Pair(s, v), door) = {}
<1>1. PICK c : c = <<s, v>>
  OBVIOUS
<1>2. c[1] = s /\ c[2] = v
  BY <1>1
<1>3. Pair(s, v) = {c}
  BY <1>1 DEF Pair
<1>4. door[2] \in Shared(s, v) <=> IsObject(c[2]) /\ door[2] \in DOMAIN c[1].props \cap DOMAIN c[2][2]
  BY <1>2 DEF Shared
<1>5. EnterBoth({c}, door) = IF door[1] = "object" /\ door[2] \in Shared(s, v)
                             THEN {<<c[1].props[door[2]], c[2][2][door[2]]>>} ELSE {}
  BY <1>4 DEF EnterBoth
<1>. QED
  BY <1>2, <1>3, <1>5 DEF Pair

LEMMA SharedField ==
  ASSUME NEW s, NEW v \in Json, NEW k \in Shared(s, v)
  PROVE  Field(k) \in Doors /\ Field(k)[1] = "object" /\ Field(k)[2] = k
<1>1. IsObject(v) /\ k \in DOMAIN v[2]
  BY DEF Shared
<1>2. Holds(v) /\ <<v[1], k>> = Field(k)
  BY <1>1 DEF Holds, IsObject, Field
<1>3. Field(k) \in Doors
  BY <1>1, <1>2 DEF Doors
<1>. QED
  BY <1>3 DEF Field

Broken(s, v, path, kw) == \E c \in Under(s, v, path) : Refuses(kw, c[1], c[2])

LEMMA BrokenHere ==
  ASSUME NEW s, NEW v, NEW kw
  PROVE  Broken(s, v, <<>>, kw) <=> Refuses(kw, s, v)
<1>1. PICK c : c = <<s, v>>
  OBVIOUS
<1>2. Under(s, v, <<>>) = {c}
  BY <1>1, UnderHere DEF Pair
<1>. QED
  BY <1>1, <1>2 DEF Broken

LEMMA BrokenBelow ==
  ASSUME NEW s, NEW v, NEW kw, NEW door \in Doors, NEW rest \in Seq(Doors)
  PROVE  Broken(s, v, <<door>> \o rest, kw) <=>
           /\ door[1] = "object" /\ door[2] \in Shared(s, v)
           /\ Broken(s.props[door[2]], v[2][door[2]], rest, kw)
<1>1. CASE door[1] = "object" /\ door[2] \in Shared(s, v)
  <2>1. PICK t, w : t = s.props[door[2]] /\ w = v[2][door[2]]
    OBVIOUS
  <2>2. EnterBoth(Pair(s, v), door) = Pair(t, w)
    BY <1>1, <2>1, EnterProperty
  <2>3. Under(s, v, <<door>> \o rest) = Under(t, w, rest)
    BY <2>2, UnderFirst
  <2>. QED
    BY <1>1, <2>1, <2>3 DEF Broken
<1>2. CASE ~(door[1] = "object" /\ door[2] \in Shared(s, v))
  <2>1. EnterBoth(Pair(s, v), door) = {}
    BY <1>2, EnterProperty
  <2>2. Under(s, v, <<door>> \o rest) = {}
    BY <2>1, UnderFirst
  <2>. QED
    BY <1>2, <2>2 DEF Broken
<1>. QED
  BY <1>1, <1>2

\* A value that conforms is not refused anywhere.
Accepted(s, v) == Validate(s, v) = Conforms =>
  \A path \in Seq(Doors), kw \in ToSet(Keywords) : ~Broken(s, v, path, kw)

\* What is reported of one that does not conform is so.
Blamed(s, v) == Validate(s, v) # Conforms =>
  \E path \in Seq(Doors), kw \in ToSet(Keywords) :
    Validate(s, v) = <<path, kw>> /\ Broken(s, v, path, kw)

LEMMA CleanIs ==
  ASSUME NEW s, NEW v, Clean(s, v), NEW kw \in ToSet(Keywords)
  PROVE  ~Refuses(kw, s, v)
BY KeywordIs DEF Clean

LEMMA AcceptedStep ==
  ASSUME NEW s \in AllSchemas, NEW v \in Json,
         \A k \in Shared(s, v) : Accepted(s.props[k], v[2][k])
  PROVE  Accepted(s, v)
<1> SUFFICES ASSUME Validate(s, v) = Conforms, NEW path \in Seq(Doors), NEW kw \in ToSet(Keywords)
             PROVE  ~Broken(s, v, path, kw)
  BY DEF Accepted
<1>1. Clean(s, v) /\ \A k \in Shared(s, v) : Validate(s.props[k], v[2][k]) = Conforms
  BY ConformingIs
<1>2. CASE path = <<>>
  BY <1>1, <1>2, BrokenHere, CleanIs
<1>3. CASE path # <<>>
  <2>1. PICK door \in Doors, rest \in Seq(Doors) : path = <<door>> \o rest
    BY <1>3, FirstAndRest
  <2>2. door[2] \in Shared(s, v) => ~Broken(s.props[door[2]], v[2][door[2]], rest, kw)
    BY <1>1 DEF Accepted
  <2>. QED
    BY <2>1, <2>2, BrokenBelow
<1>. QED
  BY <1>2, <1>3

LEMMA BlamedStep ==
  ASSUME NEW s \in AllSchemas, NEW v \in Json,
         \A k \in Shared(s, v) : Blamed(s.props[k], v[2][k])
  PROVE  Blamed(s, v)
<1> SUFFICES ASSUME Validate(s, v) # Conforms
             PROVE  \E path \in Seq(Doors), kw \in ToSet(Keywords) :
                      Validate(s, v) = <<path, kw>> /\ Broken(s, v, path, kw)
  BY DEF Blamed
<1>1. CASE ~Clean(s, v)
  <2>1. PICK i \in DOMAIN Keywords : Refuses(Keywords[i], s, v) /\ Validate(s, v) = <<<<>>, Keywords[i]>>
    BY <1>1, ValidateIs
  <2>2. Keywords[i] \in ToSet(Keywords)
    BY KeywordIs
  <2>. QED
    BY <2>1, <2>2, BrokenHere, PathsAre
<1>2. CASE Clean(s, v)
  <2>1. \E k \in Shared(s, v) : Validate(s.props[k], v[2][k]) # Conforms
    BY <1>2, ValidateIs
  <2>2. PICK k \in Shared(s, v) : /\ Validate(s.props[k], v[2][k]) # Conforms
                                  /\ Validate(s, v) = Reported(k, Validate(s.props[k], v[2][k]))
    BY <1>2, <2>1, ValidateIs
  <2>3. PICK rest \in Seq(Doors), kw \in ToSet(Keywords) :
          /\ Validate(s.props[k], v[2][k]) = <<rest, kw>>
          /\ Broken(s.props[k], v[2][k], rest, kw)
    BY <2>2 DEF Blamed
  <2>4. Validate(s, v) = <<<<Field(k)>> \o rest, kw>>
    BY <2>2, <2>3 DEF Reported
  <2>5. Field(k) \in Doors /\ Field(k)[1] = "object" /\ Field(k)[2] = k
    BY SharedField
  <2>6. Broken(s, v, <<Field(k)>> \o rest, kw)
    BY <2>3, <2>5, BrokenBelow
  <2>7. <<Field(k)>> \o rest \in Seq(Doors)
    BY <2>5
  <2>. QED
    BY <2>4, <2>6, <2>7
<1>. QED
  BY <1>1, <1>2

\* Layer by layer, both hold of all schemas and values.
LEMMA ValidatorIsRight ==
  ASSUME NEW s \in AllSchemas, NEW v \in Json
  PROVE  Accepted(s, v) /\ Blamed(s, v)
<1> DEFINE P == {n \in Nat : n <= Depth =>
                   \A t \in AllSchemas, w \in UpTo(n) : Accepted(t, w) /\ Blamed(t, w)}
<1>1. 0 \in P
  BY NoLayer
<1>2. ASSUME NEW n \in P PROVE n + 1 \in P
  <2> SUFFICES ASSUME n + 1 <= Depth, NEW t \in AllSchemas, NEW w \in UpTo(n + 1)
               PROVE  Accepted(t, w) /\ Blamed(t, w)
    OBVIOUS
  <2>1. n \in Nat /\ n + 1 \in Nat /\ n <= Depth
    BY DepthIsNat
  <2>2. w \in Json
    BY <2>1, LayersGrow, DepthIsNat, JsonIsUpTo
  <2>3. \A k \in Shared(t, w) : Accepted(t.props[k], w[2][k]) /\ Blamed(t.props[k], w[2][k])
    BY <2>1, SharedBelow
  <2>. QED
    BY <2>2, <2>3, AcceptedStep, BlamedStep
<1> HIDE DEF P
<1>3. Depth \in P
  <2>1. P \in SUBSET Nat
    BY DEF P
  <2>. QED
    BY <1>1, <1>2, <2>1, AllNumbers, DepthIsNat
<1>. QED
  BY <1>3, DepthIsNat, JsonIsUpTo DEF P

-----------------------------------------------------------------------------
(* References *)

LEMMA DoorIs ==
  ASSUME NEW door \in Doors
  PROVE  door[1] \in {"object", "array"}
<1>1. PICK v \in Json : Holds(v) /\ \E k : door = <<v[1], k>>
  BY DEF Doors
<1>. QED
  BY <1>1 DEF Holds

\* Entering a value goes to what it holds there.
LEMMA EnterHeld ==
  ASSUME NEW v, NEW door
  PROVE  Enter({v}, door) = IF v[1] = door[1] /\ door[2] \in DOMAIN v[2] THEN {v[2][door[2]]} ELSE {}
BY DEF Enter

LEMMA HeldDoor ==
  ASSUME NEW v \in Json, Holds(v), NEW k \in DOMAIN v[2]
  PROVE  /\ <<v[1], k>> \in Doors
         /\ Enter({v}, <<v[1], k>>) = {v[2][k]}
<1>1. <<v[1], k>> \in Doors
  BY DEF Doors
<1>2. PICK door : door = <<v[1], k>>
  OBVIOUS
<1>3. door[1] = v[1] /\ door[2] = k
  BY <1>2
<1>4. Enter({v}, door) = {v[2][k]}
  BY <1>3, EnterHeld
<1>. QED
  BY <1>1, <1>2, <1>4

\* One of the values in a set is at the end of some path.
Reaches(v, X) == \E path \in Seq(Doors) : At(v, path) \cap X # {}

\* It is one by itself, or there is one in what it holds.
LEMMA ReachIs ==
  ASSUME NEW v \in Json, NEW X
  PROVE  Reaches(v, X) <=> v \in X \/ (Holds(v) /\ \E k \in DOMAIN v[2] : Reaches(v[2][k], X))
<1>1. ASSUME Reaches(v, X)
      PROVE  v \in X \/ (Holds(v) /\ \E k \in DOMAIN v[2] : Reaches(v[2][k], X))
  <2>1. PICK path \in Seq(Doors) : At(v, path) \cap X # {}
    BY <1>1 DEF Reaches
  <2>2. CASE path = <<>>
    BY <2>1, <2>2, AtHere
  <2>3. CASE path # <<>>
    <3>1. PICK door \in Doors, rest \in Seq(Doors) : path = <<door>> \o rest
      BY <2>3, FirstAndRest
    <3>2. Enter({v}, door) # {}
      BY <2>1, <3>1, AtFirst
    <3>3. v[1] = door[1] /\ door[2] \in DOMAIN v[2] /\ Enter({v}, door) = {v[2][door[2]]}
      BY <3>2, EnterHeld
    <3>4. At(v, path) = At(v[2][door[2]], rest)
      BY <3>1, <3>3, AtFirst
    <3>5. Reaches(v[2][door[2]], X)
      BY <2>1, <3>4 DEF Reaches
    <3>6. Holds(v)
      BY <3>3, DoorIs DEF Holds
    <3>. QED
      BY <3>3, <3>5, <3>6
  <2>. QED
    BY <2>2, <2>3
<1>2. ASSUME v \in X PROVE Reaches(v, X)
  <2>1. At(v, <<>>) \cap X # {}
    BY <1>2, AtHere
  <2>. QED
    BY <2>1, PathsAre DEF Reaches
<1>3. ASSUME Holds(v), NEW k \in DOMAIN v[2], Reaches(v[2][k], X) PROVE Reaches(v, X)
  <2>1. PICK rest \in Seq(Doors) : At(v[2][k], rest) \cap X # {}
    BY <1>3 DEF Reaches
  <2>2. PICK door : door = <<v[1], k>>
    OBVIOUS
  <2>3. door \in Doors /\ Enter({v}, door) = {v[2][k]}
    BY <1>3, <2>2, HeldDoor
  <2>4. At(v, <<door>> \o rest) = At(v[2][k], rest)
    BY <2>3, AtFirst
  <2>5. <<door>> \o rest \in Seq(Doors)
    BY <2>3
  <2>. QED
    BY <2>1, <2>4, <2>5 DEF Reaches
<1>. QED
  BY <1>1, <1>2, <1>3

\* A path into a value is no longer than its layer is high, and leads to JSON.
Shallow(v, n) ==
  \A path \in Seq(Doors) : At(v, path) # {} => Len(path) < n /\ At(v, path) \subseteq Json

LEMMA ShallowLayers ==
  ASSUME NEW v \in Json
  PROVE  Shallow(v, Depth)
<1> DEFINE P == {n \in Nat : n <= Depth => \A w \in UpTo(n) : Shallow(w, n)}
<1>1. 0 \in P
  BY NoLayer
<1>2. ASSUME NEW n \in P PROVE n + 1 \in P
  <2> SUFFICES ASSUME n + 1 <= Depth, NEW w \in UpTo(n + 1), NEW path \in Seq(Doors),
                      At(w, path) # {}
               PROVE  Len(path) < n + 1 /\ At(w, path) \subseteq Json
    BY DEF Shallow
  <2>1. n \in Nat /\ n + 1 \in Nat /\ n <= Depth
    BY DepthIsNat
  <2>2. w \in Json
    BY <2>1, LayersGrow, DepthIsNat, JsonIsUpTo
  <2>3. CASE path = <<>>
    <3>1. At(w, path) = {w} /\ Len(path) = 0
      BY <2>3, AtHere
    <3>. QED
      BY <2>1, <2>2, <3>1
  <2>4. CASE path # <<>>
    <3>1. PICK door \in Doors, rest \in Seq(Doors) : path = <<door>> \o rest
      BY <2>4, FirstAndRest
    <3>2. Enter({w}, door) # {}
      BY <3>1, AtFirst
    <3>3. w[1] = door[1] /\ door[2] \in DOMAIN w[2] /\ Enter({w}, door) = {w[2][door[2]]}
      BY <3>2, EnterHeld
    <3>4. At(w, path) = At(w[2][door[2]], rest)
      BY <3>1, <3>3, AtFirst
    <3>5. w[2][door[2]] \in UpTo(n)
      BY <2>1, <3>3, DoorIs, HeldBelow DEF Holds
    <3>6. Len(rest) < n /\ At(w, path) \subseteq Json
      BY <2>1, <3>4, <3>5 DEF Shallow
    <3>7. Len(path) = Len(rest) + 1 /\ Len(rest) \in Nat
      BY <3>1, FirstOf
    <3>. QED
      BY <2>1, <3>6, <3>7
  <2>. QED
    BY <2>3, <2>4
<1> HIDE DEF P
<1>3. Depth \in P
  <2>1. P \in SUBSET Nat
    BY DEF P
  <2>. QED
    BY <1>1, <1>2, <2>1, AllNumbers, DepthIsNat
<1>. QED
  BY <1>3, DepthIsNat, JsonIsUpTo DEF P

\* So the paths of the properties are all there are.
LEMMA PathsAreAll ==
  ASSUME NEW v \in Json, NEW path \in Seq(Doors), At(v, path) # {}
  PROVE  path \in Paths
<1>1. Len(path) < Depth /\ Len(path) \in Nat
  BY ShallowLayers DEF Shallow
<1>2. Len(path) \in 0..(Len(Layers) - 1)
  BY <1>1, DepthIsNat DEF Depth
<1>3. path \in [1..Len(path) -> Doors]
  OBVIOUS
<1>. QED
  BY <1>2, <1>3 DEF Paths

LEMMA ReachOnPaths ==
  ASSUME NEW v \in Json, NEW X
  PROVE  Reaches(v, X) <=> \E path \in Paths : At(v, path) \cap X # {}
BY PathsAre, PathsAreAll DEF Reaches

Refs == {v \in Json : IsRef(v)}
BadRefs == {v \in Refs : Secret(v) = Unresolved}

LEMMA RefHoldsNothing ==
  ASSUME NEW v, IsRef(v)
  PROVE  ~Holds(v)
BY DEF IsRef, Holds

\* has_secret_refs finds a reference exactly when there is a path to one.
LEMMA HasRefsReach ==
  ASSUME NEW v \in Json
  PROVE  HasRefs(v) <=> Reaches(v, Refs)
<1> DEFINE P == {n \in Nat : n <= Depth => \A w \in UpTo(n) : HasRefs(w) <=> Reaches(w, Refs)}
<1>1. 0 \in P
  BY NoLayer
<1>2. ASSUME NEW n \in P PROVE n + 1 \in P
  <2> SUFFICES ASSUME n + 1 <= Depth, NEW w \in UpTo(n + 1)
               PROVE  HasRefs(w) <=> Reaches(w, Refs)
    OBVIOUS
  <2>1. n \in Nat /\ n + 1 \in Nat /\ n <= Depth
    BY DepthIsNat
  <2>2. w \in Json
    BY <2>1, LayersGrow, DepthIsNat, JsonIsUpTo
  <2>3. Holds(w) => \A k \in DOMAIN w[2] : HasRefs(w[2][k]) <=> Reaches(w[2][k], Refs)
    BY <2>1, HeldBelow
  <2>4. w \in Refs <=> IsRef(w)
    BY <2>2 DEF Refs
  <2>. QED
    BY <2>2, <2>3, <2>4, HasRefsIs, ReachIs, Zenon
<1> HIDE DEF P
<1>3. Depth \in P
  <2>1. P \in SUBSET Nat
    BY DEF P
  <2>. QED
    BY <1>1, <1>2, <2>1, AllNumbers, DepthIsNat
<1>. QED
  BY <1>3, DepthIsNat, JsonIsUpTo DEF P

LEMMA JsonIsResolved ==
  ASSUME NEW v \in Json
  PROVE  v # Unresolved /\ v[1] # "unresolved" /\ v = <<v[1], v[2]>>
<1>1. v[1] \in JsonTypes /\ v = <<v[1], v[2]>>
  BY ValuesAssumption
<1>2. v[1] # "unresolved"
  BY <1>1 DEF JsonTypes
<1>3. Unresolved[1] = "unresolved"
  BY DEF Unresolved
<1>. QED
  BY <1>1, <1>2, <1>3

\* What a rebuilt value is.
LEMMA RebuiltIs ==
  ASSUME NEW v \in Json, NEW f
  PROVE  /\ Rebuilt(v, f) = Unresolved <=> \E k \in DOMAIN f : f[k] = Unresolved
         /\ Rebuilt(v, f) # Unresolved => Rebuilt(v, f) = <<v[1], f>>
<1>1. <<v[1], f>> # Unresolved
  BY JsonIsResolved DEF Unresolved
<1>. QED
  BY <1>1 DEF Rebuilt

\* What a value resolves to: a value without references to itself, one with a
\* reference that names no secret to nothing.
Settled(v) ==
  /\ Resolve(v) = Unresolved <=> Reaches(v, BadRefs)
  /\ ~HasRefs(v) => Resolve(v) = v

LEMMA SettledStep ==
  ASSUME NEW v \in Json, Holds(v) => \A k \in DOMAIN v[2] : v[2][k] \in Json /\ Settled(v[2][k])
  PROVE  Settled(v)
<1>1. CASE IsRef(v)
  <2>1. Resolve(v) = Secret(v)
    BY <1>1, ResolveIs
  <2>2. v \in BadRefs <=> Secret(v) = Unresolved
    BY <1>1 DEF BadRefs, Refs
  <2>3. ~Holds(v) /\ HasRefs(v)
    BY <1>1, RefHoldsNothing, HasRefsIs
  <2>4. Reaches(v, BadRefs) <=> v \in BadRefs
    BY <2>3, ReachIs
  <2>. QED
    BY <2>1, <2>2, <2>3, <2>4 DEF Settled
<1>2. CASE ~IsRef(v) /\ ~Holds(v)
  <2>1. Resolve(v) = v /\ v # Unresolved
    BY <1>2, ResolveIs, JsonIsResolved
  <2>2. ~Reaches(v, BadRefs)
    BY <1>2, ReachIs DEF BadRefs, Refs
  <2>. QED
    BY <2>1, <2>2 DEF Settled
<1>3. CASE ~IsRef(v) /\ Holds(v)
  <2>1. PICK f : f = [k \in DOMAIN v[2] |-> Resolve(v[2][k])]
    OBVIOUS
  <2>2. Resolve(v) = Rebuilt(v, f)
    BY <1>3, <2>1, ResolveIs
  <2>3. DOMAIN f = DOMAIN v[2] /\ \A k \in DOMAIN v[2] : f[k] = Resolve(v[2][k])
    BY <2>1
  <2>4. Resolve(v) = Unresolved <=> \E k \in DOMAIN v[2] : Resolve(v[2][k]) = Unresolved
    BY <2>2, <2>3, RebuiltIs
  <2>5. Reaches(v, BadRefs) <=> \E k \in DOMAIN v[2] : Reaches(v[2][k], BadRefs)
    BY <1>3, ReachIs DEF BadRefs, Refs
  <2>6. Resolve(v) = Unresolved <=> Reaches(v, BadRefs)
    BY <1>3, <2>4, <2>5 DEF Settled
  <2>7. ASSUME ~HasRefs(v) PROVE Resolve(v) = v
    <3>1. \A k \in DOMAIN v[2] : ~HasRefs(v[2][k])
      BY <1>3, <2>7, HasRefsIs
    <3>2. \A k \in DOMAIN v[2] : f[k] = v[2][k] /\ f[k] # Unresolved
      BY <1>3, <2>3, <3>1, JsonIsResolved DEF Settled
    <3>3. f = v[2]
      <4>1. v[2] = [k \in DOMAIN v[2] |-> v[2][k]]
        BY <1>3, ValuesAssumption
      <4>2. f = [k \in DOMAIN v[2] |-> v[2][k]]
        BY <2>1, <2>3, <3>2
      <4>. QED
        BY <4>1, <4>2
    <3>4. Rebuilt(v, f) = <<v[1], f>>
      BY <2>3, <3>2, RebuiltIs
    <3>. QED
      BY <2>2, <3>3, <3>4, JsonIsResolved
  <2>. QED
    BY <2>6, <2>7 DEF Settled
<1>. QED
  BY <1>1, <1>2, <1>3

LEMMA ValuesSettle ==
  ASSUME NEW v \in Json
  PROVE  Settled(v)
<1> DEFINE P == {n \in Nat : n <= Depth => \A w \in UpTo(n) : Settled(w)}
<1>1. 0 \in P
  BY NoLayer
<1>2. ASSUME NEW n \in P PROVE n + 1 \in P
  <2> SUFFICES ASSUME n + 1 <= Depth, NEW w \in UpTo(n + 1) PROVE Settled(w)
    OBVIOUS
  <2>1. n \in Nat /\ n + 1 \in Nat /\ n <= Depth
    BY DepthIsNat
  <2>2. w \in Json
    BY <2>1, LayersGrow, DepthIsNat, JsonIsUpTo
  <2>3. Holds(w) => \A k \in DOMAIN w[2] : w[2][k] \in Json /\ Settled(w[2][k])
    BY <2>1, <2>2, HeldBelow, HeldIsJson
  <2>. QED
    BY <2>2, <2>3, SettledStep
<1> HIDE DEF P
<1>3. Depth \in P
  <2>1. P \in SUBSET Nat
    BY DEF P
  <2>. QED
    BY <1>1, <1>2, <2>1, AllNumbers, DepthIsNat
<1>. QED
  BY <1>3, DepthIsNat, JsonIsUpTo DEF P

Alike(v, r) == v[1] = r[1] /\ IF Holds(v) THEN DOMAIN v[2] = DOMAIN r[2] ELSE v = r

\* At the end of every path the resolved value is as the value, or a secret for a
\* reference.
Mirrors(v, r) ==
  \A path \in Seq(Doors) :
    \/ At(v, path) = {} /\ At(r, path) = {}
    \/ \E x \in At(v, path), y \in At(r, path) : IF IsRef(x) THEN y = Secret(x) ELSE Alike(x, y)

LEMMA MirrorsStep ==
  ASSUME NEW v \in Json, Resolve(v) # Unresolved,
         Holds(v) => \A k \in DOMAIN v[2] :
           Resolve(v[2][k]) # Unresolved => Mirrors(v[2][k], Resolve(v[2][k]))
  PROVE  Mirrors(v, Resolve(v))
<1>1. PICK r : r = Resolve(v)
  OBVIOUS
<1> SUFFICES ASSUME NEW path \in Seq(Doors)
             PROVE  \/ At(v, path) = {} /\ At(r, path) = {}
                    \/ \E x \in At(v, path), y \in At(r, path) :
                         IF IsRef(x) THEN y = Secret(x) ELSE Alike(x, y)
  BY <1>1 DEF Mirrors
<1>2. CASE IsRef(v)
  <2>1. r = Secret(v)
    BY <1>1, <1>2, ResolveIs
  <2>2. v[1] = "string" /\ r[1] = "string"
    BY <1>1, <1>2, <2>1 DEF IsRef, Secret, Str
  <2>3. CASE path = <<>>
    <3>1. At(v, path) = {v} /\ At(r, path) = {r}
      BY <2>3, AtHere
    <3>. QED
      BY <1>2, <2>1, <3>1
  <2>4. CASE path # <<>>
    <3>1. PICK door \in Doors, rest \in Seq(Doors) : path = <<door>> \o rest
      BY <2>4, FirstAndRest
    <3>2. door[1] # "string"
      BY DoorIs
    <3>3. Enter({v}, door) = {} /\ Enter({r}, door) = {}
      BY <2>2, <3>2, EnterHeld
    <3>. QED
      BY <3>1, <3>3, AtFirst
  <2>. QED
    BY <2>3, <2>4
<1>3. CASE ~IsRef(v) /\ ~Holds(v)
  <2>1. r = v
    BY <1>1, <1>3, ResolveIs
  <2>2. CASE path = <<>>
    <3>1. At(v, path) = {v} /\ At(r, path) = {r}
      BY <2>2, AtHere
    <3>. QED
      BY <1>3, <2>1, <3>1 DEF Alike
  <2>3. CASE path # <<>>
    <3>1. PICK door \in Doors, rest \in Seq(Doors) : path = <<door>> \o rest
      BY <2>3, FirstAndRest
    <3>2. door[1] # v[1]
      BY <1>3, DoorIs DEF Holds
    <3>3. Enter({v}, door) = {}
      BY <3>2, EnterHeld
    <3>. QED
      BY <2>1, <3>1, <3>3, AtFirst
  <2>. QED
    BY <2>2, <2>3
<1>4. CASE ~IsRef(v) /\ Holds(v)
  <2>1. PICK f : f = [k \in DOMAIN v[2] |-> Resolve(v[2][k])]
    OBVIOUS
  <2>2. Resolve(v) = Rebuilt(v, f)
    BY <1>4, <2>1, ResolveIs
  <2>3. DOMAIN f = DOMAIN v[2] /\ \A k \in DOMAIN v[2] : f[k] = Resolve(v[2][k])
    BY <2>1
  <2>4. r = <<v[1], f>> /\ \A k \in DOMAIN f : f[k] # Unresolved
    BY <1>1, <2>2, RebuiltIs
  <2>5. r[1] = v[1] /\ r[2] = f
    BY <2>4
  <2>6. CASE path = <<>>
    <3>1. At(v, path) = {v} /\ At(r, path) = {r}
      BY <2>6, AtHere
    <3>. QED
      BY <1>4, <2>3, <2>5, <3>1 DEF Alike
  <2>7. CASE path # <<>>
    <3>1. PICK door \in Doors, rest \in Seq(Doors) : path = <<door>> \o rest
      BY <2>7, FirstAndRest
    <3>2. CASE v[1] = door[1] /\ door[2] \in DOMAIN v[2]
      <4>1. PICK w : w = v[2][door[2]]
        OBVIOUS
      <4>2. f[door[2]] = Resolve(w) /\ Resolve(w) # Unresolved
        BY <2>3, <2>4, <3>2, <4>1
      <4>3. Enter({v}, door) = {w} /\ Enter({r}, door) = {Resolve(w)}
        BY <2>3, <2>5, <3>2, <4>1, <4>2, EnterHeld
      <4>4. At(v, path) = At(w, rest) /\ At(r, path) = At(Resolve(w), rest)
        BY <3>1, <4>3, AtFirst
      <4>5. Mirrors(w, Resolve(w))
        BY <1>4, <3>2, <4>1, <4>2
      <4>. QED
        BY <4>4, <4>5 DEF Mirrors
    <3>3. CASE ~(v[1] = door[1] /\ door[2] \in DOMAIN v[2])
      <4>1. Enter({v}, door) = {} /\ Enter({r}, door) = {}
        BY <2>3, <2>5, <3>3, EnterHeld
      <4>. QED
        BY <3>1, <4>1, AtFirst
    <3>. QED
      BY <3>2, <3>3
  <2>. QED
    BY <2>6, <2>7
<1>. QED
  BY <1>2, <1>3, <1>4

LEMMA ValuesMirror ==
  ASSUME NEW v \in Json, Resolve(v) # Unresolved
  PROVE  Mirrors(v, Resolve(v))
<1> DEFINE P == {n \in Nat : n <= Depth =>
                   \A w \in UpTo(n) : Resolve(w) # Unresolved => Mirrors(w, Resolve(w))}
<1>1. 0 \in P
  BY NoLayer
<1>2. ASSUME NEW n \in P PROVE n + 1 \in P
  <2> SUFFICES ASSUME n + 1 <= Depth, NEW w \in UpTo(n + 1), Resolve(w) # Unresolved
               PROVE  Mirrors(w, Resolve(w))
    OBVIOUS
  <2>1. n \in Nat /\ n + 1 \in Nat /\ n <= Depth
    BY DepthIsNat
  <2>2. w \in Json
    BY <2>1, LayersGrow, DepthIsNat, JsonIsUpTo
  <2>3. Holds(w) => \A k \in DOMAIN w[2] :
          Resolve(w[2][k]) # Unresolved => Mirrors(w[2][k], Resolve(w[2][k]))
    BY <2>1, HeldBelow
  <2>. QED
    BY <2>2, <2>3, MirrorsStep
<1> HIDE DEF P
<1>3. Depth \in P
  <2>1. P \in SUBSET Nat
    BY DEF P
  <2>. QED
    BY <1>1, <1>2, <2>1, AllNumbers, DepthIsNat
<1>. QED
  BY <1>3, DepthIsNat, JsonIsUpTo DEF P

-----------------------------------------------------------------------------
(* A call *)

\* What holds of a call at any time: it is one of JSON and of a schema, its verdict is
\* the validator's, and what was handled is what the handler answers.
CallInv ==
  /\ args \in Json
  /\ schema \in AllSchemas
  /\ verdict \in {Unchecked, Validate(schema, args)}
  /\ handled # Nothing =>
       verdict = Conforms /\ schema \in MemorySchemas /\ handled = Handle(args)

LEMMA VerdictsApart == Conforms # Unchecked /\ \A path, kw : <<path, kw>> # Unchecked /\ <<path, kw>> # Conforms
BY DEF Conforms, Unchecked

LEMMA InitCall == Init => CallInv
<1> SUFFICES ASSUME Init PROVE CallInv
  OBVIOUS
<1>1. args \in Json
  BY ValuesAssumption DEF Init
<1>2. schema \in AllSchemas
  BY DEF Init, AllSchemas
<1>3. verdict = Unchecked /\ handled = Nothing
  BY DEF Init
<1>. QED
  BY <1>1, <1>2, <1>3 DEF CallInv

LEMMA NextCall == CallInv /\ [Next]_vars => CallInv'
<1> SUFFICES ASSUME CallInv, [Next]_vars PROVE CallInv'
  OBVIOUS
<1>1. CASE CheckArguments
  <2>1. /\ verdict = Unchecked /\ verdict' = Validate(schema, args)
        /\ schema' = schema /\ args' = args /\ handled' = handled
    BY <1>1 DEF CheckArguments
  <2>2. handled' = Nothing
    BY <2>1, VerdictsApart DEF CallInv
  <2>3. Validate(schema, args)' = Validate(schema, args)
    BY <2>1
  <2>. QED
    BY <2>1, <2>2, <2>3 DEF CallInv
<1>2. CASE Execute
  <2>1. /\ verdict = Conforms /\ schema \in MemorySchemas /\ handled' = Handle(args)
        /\ schema' = schema /\ args' = args /\ verdict' = verdict
    BY <1>2 DEF Execute
  <2>2. Handle(args)' = Handle(args) /\ Validate(schema, args)' = Validate(schema, args)
    BY <2>1 DEF Handle
  <2>. QED
    BY <2>1, <2>2 DEF CallInv
<1>3. CASE UNCHANGED vars
  <2>1. schema' = schema /\ args' = args /\ verdict' = verdict /\ handled' = handled
    BY <1>3 DEF vars
  <2>2. Handle(args)' = Handle(args) /\ Validate(schema, args)' = Validate(schema, args)
    BY <2>1 DEF Handle
  <2>. QED
    BY <2>1, <2>2 DEF CallInv
<1>. QED
  BY <1>1, <1>2, <1>3 DEF Next

\* The invariant holds of every call.
THEOREM CallInvariant == Spec => []CallInv
BY InitCall, NextCall, PTL DEF Spec

LEMMA CallTypes == CallInv => TypeOK
<1> SUFFICES ASSUME CallInv PROVE TypeOK
  OBVIOUS
<1>1. verdict \in {Unchecked, Conforms} \/ verdict[2] \in ToSet(Keywords)
  BY ValidatorIsRight DEF CallInv, Blamed
<1>2. ASSUME handled # Nothing, handled \notin {Missing, Refused}
      PROVE  handled[1] \in {"search", "get", "store", "list"}
  <2>1. Validate(schema, args) = Conforms
    BY <1>2, VerdictsApart DEF CallInv
  <2>. QED
    BY <1>2, <2>1, RequestInside DEF CallInv
<1>. QED
  BY <1>1, <1>2 DEF TypeOK, CallInv

\* Verdicts are the validator's and answers the handlers', and a handler runs only
\* for a call that was found to conform.
THEOREM TypeCorrect == Spec => []TypeOK
BY CallInvariant, CallTypes, PTL

\* The validator accepts exactly the values in which nothing that the schema speaks
\* of breaks a keyword, and what it reports to the agent is such a place.
THEOREM ValidatorIsExact == Spec => []ValidatorAgrees
<1>1. CallInv => ValidatorAgrees
  <2> SUFFICES ASSUME CallInv PROVE ValidatorAgrees
    OBVIOUS
  <2>1. CASE verdict = Unchecked
    BY <2>1, VerdictsApart, Zenon DEF ValidatorAgrees
  <2>2. CASE verdict # Unchecked /\ verdict = Conforms
    <3>1. \A path \in Paths, kw \in ToSet(Keywords) : ~Broken(schema, args, path, kw)
      BY <2>2, ValidatorIsRight, PathsAre DEF CallInv, Accepted
    <3>. QED
      BY <2>2, <3>1, Zenon DEF ValidatorAgrees, Broken
  <2>3. CASE verdict # Unchecked /\ verdict # Conforms
    <3>1. PICK path \in Seq(Doors), kw \in ToSet(Keywords) :
            verdict = <<path, kw>> /\ Broken(schema, args, path, kw)
      BY <2>3, ValidatorIsRight DEF CallInv, Blamed
    <3>2. Broken(schema, args, verdict[1], verdict[2])
      BY <3>1
    <3>. QED
      BY <2>3, <3>2, Zenon DEF ValidatorAgrees, Broken
  <2>. QED
    BY <2>1, <2>2, <2>3
<1>. QED
  BY <1>1, CallInvariant, PTL

\* What a memory tool's schema lets through, its handler never finds incomplete.
THEOREM HandlersFindWhatTheyNeed == Spec => []SchemasFitHandlers
<1>1. CallInv => SchemasFitHandlers
  <2> SUFFICES ASSUME CallInv, handled # Nothing PROVE handled # Missing
    BY AnswersAre DEF SchemasFitHandlers
  <2>1. Validate(schema, args) = Conforms
    BY VerdictsApart DEF CallInv
  <2>. QED
    BY <2>1, RequestInside, AnswersAre DEF CallInv
<1>. QED
  BY <1>1, CallInvariant, PTL

\* What the memory backend is asked for is what the argument leads to, step by step,
\* from the directory of the store, and lies inside it.
THEOREM NothingLeavesTheStore == Spec => []RequestsStayInside
<1>1. CallInv => RequestsStayInside
  <2> SUFFICES ASSUME CallInv, handled \notin {Nothing, Missing, Refused}
      PROVE  /\ handled[1] \in {"get", "store"} =>
                  /\ StrOf(args, "path")[1] # ""
                  /\ LeadsTo(StrOf(args, "path")) = [up |-> 0, down |-> handled[2]]
             /\ handled[1] = "search" =>
                  IF HasStr(args, "collection")
                  THEN /\ StrOf(args, "collection")[1] # ""
                       /\ LeadsTo(StrOf(args, "collection")) = [up |-> 0, down |-> handled[2]]
                  ELSE handled[2] = <<>>
    BY DEF RequestsStayInside
  <2>1. Validate(schema, args) = Conforms
    BY VerdictsApart DEF CallInv
  <2>2. /\ handled[1] \in {"get", "store"} =>
             /\ HasStr(args, "path")
             /\ handled[2] # <<>> /\ handled[2] = NormalizePath(StrOf(args, "path"))
        /\ handled[1] = "search" =>
             IF HasStr(args, "collection")
             THEN handled[2] # <<>> /\ handled[2] = NormalizePath(StrOf(args, "collection"))
             ELSE handled[2] = <<>>
    BY <2>1, RequestInside DEF CallInv
  <2>3. ASSUME NEW k, HasStr(args, k), handled[2] # <<>>, handled[2] = NormalizePath(StrOf(args, k))
        PROVE  /\ StrOf(args, k)[1] # ""
               /\ LeadsTo(StrOf(args, k)) = [up |-> 0, down |-> handled[2]]
    BY <2>3, StrIsPath, NormalizedInside DEF CallInv
  <2>. QED
    BY <2>2, <2>3
<1>. QED
  BY <1>1, CallInvariant, PTL

\* References are found exactly where they are, and resolution fails exactly when one
\* of them names no secret and else changes nothing but them.
THEOREM ReferencesAreFound == Spec => []RefsAgree
<1>1. CallInv => RefsAgree
  <2> SUFFICES ASSUME CallInv PROVE RefsAgree
    OBVIOUS
  <2>1. PICK v : v = args
    OBVIOUS
  <2>2. v \in Json
    BY <2>1 DEF CallInv
  <2>3. \A path \in Paths : At(v, path) \subseteq Json
    BY <2>2, PathsAre, ShallowLayers DEF Shallow
  <2>4. HasRefs(v) <=> \E path \in Paths : \E x \in At(v, path) : IsRef(x)
    <3>1. HasRefs(v) <=> \E path \in Paths : At(v, path) \cap Refs # {}
      BY <2>2, HasRefsReach, ReachOnPaths
    <3>2. \A path \in Paths : At(v, path) \cap Refs # {} <=> \E x \in At(v, path) : IsRef(x)
      BY <2>3 DEF Refs
    <3>. QED
      BY <3>1, <3>2
  <2>5. ~HasRefs(v) => Resolve(v) = v
    BY <2>2, ValuesSettle DEF Settled
  <2>6. Resolve(v) = Unresolved <=>
          \E path \in Paths : \E x \in At(v, path) : IsRef(x) /\ Secret(x) = Unresolved
    <3>1. Resolve(v) = Unresolved <=> \E path \in Paths : At(v, path) \cap BadRefs # {}
      BY <2>2, ValuesSettle, ReachOnPaths DEF Settled
    <3>2. \A path \in Paths : At(v, path) \cap BadRefs # {} <=>
            \E x \in At(v, path) : IsRef(x) /\ Secret(x) = Unresolved
      BY <2>3 DEF BadRefs, Refs
    <3>. QED
      BY <3>1, <3>2
  <2>7. Resolve(v) # Unresolved =>
          \A path \in Paths :
            \/ At(v, path) = {} /\ At(Resolve(v), path) = {}
            \/ \E x \in At(v, path), y \in At(Resolve(v), path) :
                 IF IsRef(x) THEN y = Secret(x) ELSE Alike(x, y)
    BY <2>2, ValuesMirror, PathsAre DEF Mirrors
  <2>. QED
    BY <2>1, <2>4, <2>5, <2>6, <2>7, Zenon DEF RefsAgree, Alike
<1>. QED
  BY <1>1, CallInvariant, PTL

=============================================================================
