--------------------------- MODULE SharingProofs ---------------------------
(***************************************************************************)
(* Proofs about BasicIni, AssetPaths and Sharing: profiles of any length,  *)
(* with any sections, and paths of any length, on any number of machines.  *)
(***************************************************************************)
EXTENDS Sharing, WellFoundedInduction, TLAPS

-----------------------------------------------------------------------------
(* Induction: the least counterexample *)

\* A set of numbers has a least one.
LEMMA LeastNumber ==
  ASSUME NEW T \in SUBSET Nat, T # {}
  PROVE  \E x \in T : \A y \in T : x <= y
<1> DEFINE R == OpToRel(<, Nat)
<1>1. IsWellFoundedOn(R, Nat)
  BY NatLessThanWellFounded
<1>2. PICK x \in T : \A y \in T : ~(<<y, x>> \in R)
  BY <1>1, WFMin
<1>3. R = {s \in Nat \X Nat : s[1] < s[2]}
  BY Zenon DEF OpToRel
<1>4. \A y \in T : ~(<<y, x>> \in {s \in Nat \X Nat : s[1] < s[2]})
  BY <1>2, <1>3, Zenon
<1> HIDE DEF R
<1>5. ASSUME NEW y \in T PROVE x <= y
  <2>1. SUFFICES ASSUME y < x PROVE FALSE
    OBVIOUS
  <2> DEFINE ss == <<y, x>>
  <2>2. ss[1] = y /\ ss[2] = x /\ ss \in Nat \X Nat
    OBVIOUS
  <2>3. ss \in {s \in Nat \X Nat : s[1] < s[2]}
    BY <2>1, <2>2
  <2> QED
    BY <1>4, <2>3
<1> QED
  BY <1>5

\* Induction on an interval, for the set of the numbers a fact holds for.
LEMMA Climb ==
  ASSUME NEW a \in Nat, NEW b \in Nat, a <= b, NEW G,
         a \in G, \A n \in (a + 1)..b : n - 1 \in G => n \in G
  PROVE  \A n \in a..b : n \in G
<1> DEFINE T == {n \in a..b : n \notin G}
<1>1. SUFFICES ASSUME T # {} PROVE FALSE
  OBVIOUS
<1>2. T \in SUBSET Nat
  OBVIOUS
<1>3. PICK x \in T : \A y \in T : x <= y
  BY <1>1, <1>2, LeastNumber
<1>4. x \in (a + 1)..b /\ x - 1 \in a..b
  BY <1>3
<1>5. x - 1 \in G
  BY <1>3, <1>4
<1> QED
  BY <1>3, <1>4, <1>5

\* Max and Min of places in a file.
LEMMA Extremes ==
  ASSUME NEW n \in Nat, NEW S \in SUBSET (1..n), S # {}
  PROVE  /\ Max(S) \in S /\ \A y \in S : y <= Max(S)
         /\ Min(S) \in S /\ \A y \in S : Min(S) <= y
<1>1. \E x \in S : \A y \in S : x <= y
  BY LeastNumber
<1>2. \E x \in S : \A y \in S : x >= y
  <2> DEFINE T == {n - x : x \in S}
  <2>1. T \in SUBSET Nat /\ T # {}
    <3>1. \A x \in S : n - x \in Nat
      OBVIOUS
    <3> QED
      BY <3>1
  <2>2. PICK t \in T : \A y \in T : t <= y
    BY <2>1, LeastNumber
  <2>3. PICK x \in S : t = n - x
    OBVIOUS
  <2>4. \A y \in S : n - x <= n - y
    BY <2>2, <2>3
  <2> QED
    BY <2>4
<1>3. Max(S) \in S /\ \A y \in S : Max(S) >= y
  BY <1>2, Zenon DEF Max
<1>4. Min(S) \in S /\ \A y \in S : Min(S) <= y
  BY <1>1, Zenon DEF Min
<1> QED
  BY <1>3, <1>4

-----------------------------------------------------------------------------
(* Kept *)

\* f[n] is what the loop has kept after n items, f[Len(s)] is Kept(s, I).
KeptSteps(s, I, f) ==
  /\ f[0] = <<>>
  /\ \A n \in 1..Len(s) :
       f[n] = IF n \in I THEN Append(f[n - 1], s[n]) ELSE f[n - 1]

KeptRun(S, s, I, f) ==
  /\ f \in [0..Len(s) -> Seq(S)]
  /\ KeptSteps(s, I, f)
  /\ Kept(s, I) = f[Len(s)]

\* The loop ends, whatever it runs through.
LEMMA KeptByLoop ==
  ASSUME NEW S, NEW s \in Seq(S), NEW I
  PROVE  \E f : KeptRun(S, s, I, f)
<1> DEFINE Def(f, n) == IF n = 0 THEN <<>>
                        ELSE IF n \in I THEN Append(f[n - 1], s[n])
                        ELSE f[n - 1]
           Upto(N, f) == f \in [0..N -> Seq(S)] /\ \A n \in 0..N : f[n] = Def(f, n)
           Loops(N) == \E f : Upto(N, f)
           T == {N \in Nat : N <= Len(s) /\ ~Loops(N)}
<1>1. ASSUME NEW x \in Nat, x <= Len(s),
             \A y \in Nat : y < x => Loops(y)
      PROVE  Loops(x)
  <2>1. CASE x = 0
    <3>1. Upto(0, [n \in 0..0 |-> <<>>])
      OBVIOUS
    <3> QED
      BY <2>1, <3>1
  <2>2. CASE x # 0
    <3>1. x - 1 \in Nat /\ x - 1 < x
      BY <2>2
    <3>2. PICK f : Upto(x - 1, f)
      BY <1>1, <3>1
    <3> DEFINE last == IF x \in I THEN Append(f[x - 1], s[x]) ELSE f[x - 1]
               g == [n \in 0..x |-> IF n = x THEN last ELSE f[n]]
    <3>3. s[x] \in S
      BY <1>1, <2>2
    <3>4. f[x - 1] \in Seq(S)
      BY <3>1, <3>2
    <3>5. last \in Seq(S)
      BY <3>3, <3>4
    <3>6. g \in [0..x -> Seq(S)]
      BY <3>2, <3>5
    <3>7. ASSUME NEW n \in 0..x PROVE g[n] = Def(g, n)
      <4>1. CASE n = x
        BY <2>2, <4>1
      <4>2. CASE n = 0
        BY <2>2, <3>1, <3>2, <4>2
      <4>3. CASE n \in 1..(x - 1)
        <5>1. f[n] = Def(f, n)
          BY <3>2, <4>3
        <5>2. g[n] = f[n] /\ g[n - 1] = f[n - 1]
          BY <4>3
        <5> QED
          BY <4>3, <5>1, <5>2
      <4> QED
        BY <4>1, <4>2, <4>3
    <3> QED
      BY <3>6, <3>7
  <2> QED
    BY <2>1, <2>2
<1> HIDE DEF Loops
<1>2. Loops(Len(s))
  <2>1. SUFFICES ASSUME T # {} PROVE FALSE
    OBVIOUS
  <2>2. PICK x \in T : \A y \in T : x <= y
    BY <2>1, LeastNumber
  <2>3. \A y \in Nat : y < x => Loops(y)
    BY <2>2
  <2> QED
    BY <1>1, <2>2, <2>3
<1>3. PICK f : Upto(Len(s), f)
  BY <1>2 DEF Loops
<1> DEFINE Loop(k) == k = [n \in 0..Len(s) |-> Def(k, n)]
           k0 == CHOOSE k : Loop(k)
<1>4. Loop(f)
  BY <1>3
<1>5. Loop(k0)
  BY <1>4, Zenon
<1>6. Kept(s, I) = k0[Len(s)]
  BY Zenon DEF Kept
<1> HIDE DEF k0
<1>7. \A n \in 0..Len(s) : k0[n] = f[n]
  <2> DEFINE G == {n \in 0..Len(s) : k0[n] = f[n]}
  <2>1. \A n \in 0..Len(s) : k0[n] = Def(k0, n) /\ f[n] = Def(f, n)
    BY <1>3, <1>5
  <2>2. 0 \in G
    BY <2>1
  <2>3. \A n \in (0 + 1)..Len(s) : n - 1 \in G => n \in G
    BY <2>1
  <2> HIDE DEF G
  <2>4. 0 \in Nat /\ Len(s) \in Nat /\ 0 <= Len(s)
    OBVIOUS
  <2>5. \A n \in 0..Len(s) : n \in G
    BY <2>2, <2>3, <2>4, Climb, Zenon
  <2> QED
    BY <2>5 DEF G
<1>8. \A n \in 1..Len(s) :
        f[n] = IF n \in I THEN Append(f[n - 1], s[n]) ELSE f[n - 1]
  <2> SUFFICES ASSUME NEW n \in 1..Len(s)
               PROVE  f[n] = IF n \in I THEN Append(f[n - 1], s[n]) ELSE f[n - 1]
    OBVIOUS
  <2>1. n \in 0..Len(s) /\ n # 0
    OBVIOUS
  <2>2. f[n] = Def(f, n)
    BY <1>3, <2>1
  <2> QED
    BY <2>1, <2>2
<1>9. f[0] = <<>>
  BY <1>3
<1>10. KeptSteps(s, I, f)
  BY <1>8, <1>9 DEF KeptSteps
<1>11. KeptRun(S, s, I, f)
  BY <1>3, <1>6, <1>7, <1>10 DEF KeptRun
<1> QED
  BY <1>11

\* t is s with k items put in after the item e that the loop does not take, and
\* others replaced that it does not take either.
Inserts(s, t, I, J, e, k) ==
  /\ e \in 0..Len(s) /\ k \in Nat /\ Len(t) = Len(s) + k
  /\ \A i \in 1..e : (i \in I <=> i \in J) /\ (i \in I => s[i] = t[i])
  /\ \A i \in (e + 1)..(e + k) : i \notin J
  /\ \A i \in (e + 1)..Len(s) :
       (i \in I <=> i + k \in J) /\ (i \in I => s[i] = t[i + k])

\* That does not change what the loop keeps.
LEMMA KeptInsert ==
  ASSUME NEW S, NEW s \in Seq(S), NEW t \in Seq(S), NEW I, NEW J,
         NEW e, NEW k, Inserts(s, t, I, J, e, k)
  PROVE  Kept(s, I) = Kept(t, J)
<1> USE DEF Inserts
<1>1. PICK f : KeptRun(S, s, I, f)
  BY KeptByLoop, Zenon
<1>2. PICK g : KeptRun(S, t, J, g)
  BY KeptByLoop, Zenon
<1>3. \A n \in 0..e : f[n] = g[n]
  <2> DEFINE G == {n \in 0..e : f[n] = g[n]}
  <2>1. 0 \in G
    BY <1>1, <1>2 DEF KeptRun, KeptSteps
  <2>2. ASSUME NEW n \in (0 + 1)..e, n - 1 \in G PROVE n \in G
    <3>1. n \in 1..Len(s) /\ n \in 1..Len(t) /\ n \in 1..e
      OBVIOUS
    <3>2. f[n] = IF n \in I THEN Append(f[n - 1], s[n]) ELSE f[n - 1]
      BY <1>1, <3>1 DEF KeptRun, KeptSteps
    <3>3. g[n] = IF n \in J THEN Append(g[n - 1], t[n]) ELSE g[n - 1]
      BY <1>2, <3>1 DEF KeptRun, KeptSteps
    <3>4. f[n - 1] = g[n - 1]
      BY <2>2
    <3> QED
      BY <3>1, <3>2, <3>3, <3>4
  <2> HIDE DEF G
  <2>3. 0 \in Nat /\ e \in Nat /\ 0 <= e
    OBVIOUS
  <2>4. \A n \in 0..e : n \in G
    BY <2>1, <2>2, <2>3, Climb, Zenon
  <2> QED
    BY <2>4 DEF G
<1>4. \A n \in e..(e + k) : g[n] = g[e]
  <2> DEFINE G == {n \in e..(e + k) : g[n] = g[e]}
  <2>1. e \in G
    OBVIOUS
  <2>2. \A n \in (e + 1)..(e + k) : n - 1 \in G => n \in G
    BY <1>2 DEF KeptRun, KeptSteps
  <2> HIDE DEF G
  <2>3. e \in Nat /\ e + k \in Nat /\ e <= e + k
    OBVIOUS
  <2>4. \A n \in e..(e + k) : n \in G
    BY <2>1, <2>2, <2>3, Climb, Zenon
  <2> QED
    BY <2>4 DEF G
<1>5. \A n \in e..Len(s) : f[n] = g[n + k]
  <2> DEFINE G == {n \in e..Len(s) : f[n] = g[n + k]}
  <2>1. e \in G
    <3>1. f[e] = g[e] /\ g[e + k] = g[e]
      BY <1>3, <1>4
    <3> QED
      BY <3>1
  <2>2. ASSUME NEW n \in (e + 1)..Len(s), n - 1 \in G PROVE n \in G
    <3>1. n \in 1..Len(s) /\ n + k \in 1..Len(t) /\ (n + k) - 1 = (n - 1) + k
      OBVIOUS
    <3>2. f[n] = IF n \in I THEN Append(f[n - 1], s[n]) ELSE f[n - 1]
      BY <1>1, <3>1 DEF KeptRun, KeptSteps
    <3>3. g[n + k] = IF n + k \in J THEN Append(g[(n + k) - 1], t[n + k])
                     ELSE g[(n + k) - 1]
      BY <1>2, <3>1 DEF KeptRun, KeptSteps
    <3>4. f[n - 1] = g[(n + k) - 1]
      BY <2>2, <3>1
    <3> QED
      BY <3>2, <3>3, <3>4
  <2> HIDE DEF G
  <2>3. e \in Nat /\ Len(s) \in Nat /\ e <= Len(s)
    OBVIOUS
  <2>4. \A n \in e..Len(s) : n \in G
    BY <2>1, <2>2, <2>3, Climb, Zenon
  <2> QED
    BY <2>4 DEF G
<1>6. f[Len(s)] = g[Len(t)]
  <2>1. Len(s) \in e..Len(s)
    OBVIOUS
  <2> QED
    BY <1>5, <2>1
<1> QED
  BY <1>1, <1>2, <1>6 DEF KeptRun

\* K has the items of s at the indices I, each once if they are different.
ItemsAt(S, s, I, K) ==
  /\ K \in Seq(S)
  /\ \A j \in DOMAIN K : \E i \in DOMAIN s : i \in I /\ K[j] = s[i]
  /\ \A i \in DOMAIN s : i \in I => \E j \in DOMAIN K : K[j] = s[i]
  /\ (\A h, i \in DOMAIN s : h # i => s[h] # s[i]) =>
       \A h, j \in DOMAIN K : h # j => K[h] # K[j]

\* What the loop keeps is what the sequence has at the indices, each once when
\* the sequence has nothing twice.
LEMMA KeptItems ==
  ASSUME NEW S, NEW s \in Seq(S), NEW I
  PROVE  ItemsAt(S, s, I, Kept(s, I))
<1>1. PICK f : KeptRun(S, s, I, f)
  BY KeptByLoop, Zenon
<1> DEFINE Different == \A h, i \in DOMAIN s : h # i => s[h] # s[i]
           From(n) == \A j \in DOMAIN f[n] :
                        \E i \in 1..n : i \in I /\ f[n][j] = s[i]
           All(n)  == \A i \in 1..n :
                        i \in I => \E j \in DOMAIN f[n] : f[n][j] = s[i]
           Once(n) == Different =>
                        \A h, j \in DOMAIN f[n] : h # j => f[n][h] # f[n][j]
           Good(n) == From(n) /\ All(n) /\ Once(n)
<1>2. Good(0)
  BY <1>1 DEF KeptRun, KeptSteps
<1>3. ASSUME NEW n \in 1..Len(s), Good(n - 1) PROVE Good(n)
  <2>1. n - 1 \in 0..Len(s) /\ n \in 1..Len(s)
    OBVIOUS
  <2>2. f[n - 1] \in Seq(S) /\ s[n] \in S
    BY <1>1, <2>1 DEF KeptRun
  <2>3. f[n] = IF n \in I THEN Append(f[n - 1], s[n]) ELSE f[n - 1]
    BY <1>1, <2>1 DEF KeptRun, KeptSteps
  <2>4. From(n - 1) /\ All(n - 1) /\ Once(n - 1)
    BY <1>3
  <2>5. CASE n \notin I
    <3>1. f[n] = f[n - 1]
      BY <2>3, <2>5
    <3>2. From(n)
      BY <2>4, <2>1, <3>1
    <3>3. All(n)
      BY <2>4, <2>1, <2>5, <3>1
    <3>4. Once(n)
      BY <2>4, <3>1
    <3> QED
      BY <3>2, <3>3, <3>4
  <2>6. CASE n \in I
    <3> DEFINE l == Len(f[n - 1])
    <3>1. f[n] = Append(f[n - 1], s[n])
      BY <2>3, <2>6
    <3>2. /\ l \in Nat /\ DOMAIN f[n - 1] = 1..l /\ DOMAIN f[n] = 1..(l + 1)
          /\ f[n][l + 1] = s[n]
          /\ \A j \in 1..l : f[n][j] = f[n - 1][j]
      BY <2>2, <3>1
    <3> HIDE DEF l
    <3>3. From(n)
      <4> SUFFICES ASSUME NEW j \in 1..(l + 1)
                   PROVE  \E i \in 1..n : i \in I /\ f[n][j] = s[i]
        BY <3>2
      <4>1. CASE j = l + 1
        BY <2>1, <2>6, <3>2, <4>1
      <4>2. CASE j \in 1..l
        <5>1. PICK i \in 1..(n - 1) : i \in I /\ f[n - 1][j] = s[i]
          BY <2>4, <3>2, <4>2
        <5> QED
          BY <2>1, <3>2, <4>2, <5>1
      <4> QED
        BY <3>2, <4>1, <4>2
    <3>4. All(n)
      <4> SUFFICES ASSUME NEW i \in 1..n, i \in I
                   PROVE  \E j \in 1..(l + 1) : f[n][j] = s[i]
        BY <3>2
      <4>1. CASE i = n
        BY <3>2, <4>1
      <4>2. CASE i \in 1..(n - 1)
        <5>1. PICK j \in 1..l : f[n - 1][j] = s[i]
          BY <2>4, <3>2, <4>2
        <5> QED
          BY <3>2, <5>1
      <4> QED
        BY <2>1, <4>1, <4>2
    <3>5. Once(n)
      <4>1. SUFFICES ASSUME Different, NEW h \in 1..(l + 1), NEW j \in 1..(l + 1),
                            h < j
                     PROVE  f[n][h] # f[n][j]
        BY <3>2
      <4>2. CASE j <= l
        <5>1. h \in 1..l /\ j \in 1..l /\ h # j
          BY <3>2, <4>1, <4>2
        <5>2. f[n - 1][h] # f[n - 1][j]
          BY <2>4, <3>2, <4>1, <5>1
        <5> QED
          BY <3>2, <5>1, <5>2
      <4>3. CASE j = l + 1
        <5>1. h \in 1..l
          BY <3>2, <4>1, <4>3
        <5>2. PICK i \in 1..(n - 1) : f[n - 1][h] = s[i]
          BY <2>4, <3>2, <5>1
        <5>3. s[i] # s[n]
          BY <2>1, <4>1, <5>2
        <5> QED
          BY <3>2, <4>3, <5>1, <5>2, <5>3
      <4> QED
        BY <3>2, <4>1, <4>2, <4>3
    <3> QED
      BY <3>3, <3>4, <3>5
  <2> QED
    BY <2>5, <2>6
<1> HIDE DEF Good
<1>4. Good(Len(s))
  <2> DEFINE G == {n \in 0..Len(s) : Good(n)}
  <2>1. 0 \in G
    BY <1>2
  <2>2. \A n \in (0 + 1)..Len(s) : n - 1 \in G => n \in G
    BY <1>3
  <2> HIDE DEF G
  <2>3. 0 \in Nat /\ Len(s) \in Nat /\ 0 <= Len(s)
    OBVIOUS
  <2>4. \A n \in 0..Len(s) : n \in G
    BY <2>1, <2>2, <2>3, Climb, Zenon
  <2> QED
    BY <2>4 DEF G
<1> DEFINE K == f[Len(s)]
<1>5. From(Len(s)) /\ All(Len(s)) /\ Once(Len(s))
  BY <1>4 DEF Good
<1>6. Kept(s, I) = K /\ K \in Seq(S) /\ DOMAIN s = 1..Len(s)
  BY <1>1 DEF KeptRun
<1>7. /\ \A j \in DOMAIN K : \E i \in DOMAIN s : i \in I /\ K[j] = s[i]
      /\ \A i \in DOMAIN s : i \in I => \E j \in DOMAIN K : K[j] = s[i]
      /\ Different => \A h, j \in DOMAIN K : h # j => K[h] # K[j]
  BY <1>5, <1>6
<1> HIDE DEF K
<1> QED
  BY <1>6, <1>7 DEF ItemsAt

-----------------------------------------------------------------------------
(* Sections *)

\* The provers do not know which strings are in STRING.
Words == {"head", "key", "Video", "BaseCX", "FPSCommon", "FPSType", "60", "0", ""}
Text == STRING \cup Words
Line == [kind : Text, name : Text, value : Text]
CanvasNames == {"BaseCX", "FPSCommon", "FPSType"}

IsHead(ini, i) == ini[i].kind = "head"

\* h is the last heading above line i.
LastHead(ini, h, i) ==
  /\ h \in 1..(i - 1) /\ IsHead(ini, h)
  /\ \A j \in (h + 1)..(i - 1) : ~IsHead(ini, j)

\* SectionOf is the name of the last heading above, if there is one.
LEMMA SectionLast ==
  ASSUME NEW ini \in Seq(Line), NEW i \in 1..(Len(ini) + 1)
  PROVE  \/ (\A j \in 1..(i - 1) : ~IsHead(ini, j)) /\ SectionOf(ini, i) = ""
         \/ \E h \in 1..(i - 1) :
              LastHead(ini, h, i) /\ SectionOf(ini, i) = ini[h].name
<1> DEFINE above == {j \in 1..(i - 1) : ini[j].kind = "head"}
<1>1. SectionOf(ini, i) = IF above = {} THEN "" ELSE ini[Max(above)].name
  BY Zenon DEF SectionOf
<1>2. CASE above = {}
  BY <1>1, <1>2 DEF IsHead
<1>3. CASE above # {}
  <2> DEFINE h == Max(above)
  <2>1. h \in above /\ \A y \in above : y <= h
    <3>1. i - 1 \in Nat /\ above \in SUBSET (1..(i - 1))
      OBVIOUS
    <3> HIDE DEF above
    <3> QED
      BY <1>3, <3>1, Extremes
  <2> HIDE DEF h
  <2>2. LastHead(ini, h, i)
    BY <2>1 DEF LastHead, IsHead
  <2>3. SectionOf(ini, i) = ini[h].name
    BY <1>1, <1>3, Zenon DEF h
  <2> QED
    BY <2>1, <2>2, <2>3
<1> QED
  BY <1>2, <1>3

\* A line is in the section of the last heading before it.
LEMMA SectionIs ==
  ASSUME NEW ini \in Seq(Line), NEW i \in 1..(Len(ini) + 1),
         NEW h, LastHead(ini, h, i)
  PROVE  SectionOf(ini, i) = ini[h].name
<1>1. PICK g \in 1..(i - 1) : LastHead(ini, g, i) /\ SectionOf(ini, i) = ini[g].name
  BY SectionLast DEF LastHead
<1>2. g = h
  BY <1>1 DEF LastHead
<1> QED
  BY <1>1, <1>2

\* Lines put in after line e, none of them a heading, leave every line in its
\* section, and are in the section where line e is.
LEMMA SectionsStay ==
  ASSUME NEW ini \in Seq(Line), NEW w \in Seq(Line),
         NEW e \in 0..Len(ini), NEW n \in Nat, Len(w) = Len(ini) + n,
         \A i \in 1..e : w[i].kind = ini[i].kind /\ w[i].name = ini[i].name
  PROVE  /\ \A i \in 1..(e + 1) : SectionOf(w, i) = SectionOf(ini, i)
         /\ ( /\ \A i \in (e + 1)..(e + n) : ~IsHead(w, i)
              /\ \A i \in (e + 1)..Len(ini) :
                   w[i + n].kind = ini[i].kind /\ w[i + n].name = ini[i].name )
            => /\ \A i \in (e + 1)..Len(ini) : SectionOf(w, i + n) = SectionOf(ini, i)
               /\ \A i \in (e + 1)..(e + n) : SectionOf(w, i) = SectionOf(ini, e + 1)
<1>1. ASSUME NEW i \in 1..(e + 1) PROVE SectionOf(w, i) = SectionOf(ini, i)
  <2>1. i \in 1..(Len(ini) + 1) /\ i \in 1..(Len(w) + 1)
    OBVIOUS
  <2>2. \A j \in 1..(i - 1) : j \in 1..e
    OBVIOUS
  <2>3. CASE \A j \in 1..(i - 1) : ~IsHead(ini, j)
    <3>1. \A j \in 1..(i - 1) : ~IsHead(w, j)
      BY <2>2, <2>3 DEF IsHead
    <3>2. SectionOf(w, i) = ""
      BY <2>1, <3>1, SectionLast DEF LastHead
    <3>3. SectionOf(ini, i) = ""
      BY <2>1, <2>3, SectionLast DEF LastHead
    <3> QED
      BY <3>2, <3>3
  <2>4. ASSUME NEW h \in 1..(i - 1), LastHead(ini, h, i),
               SectionOf(ini, i) = ini[h].name
        PROVE  SectionOf(w, i) = SectionOf(ini, i)
    <3>1. LastHead(w, h, i)
      BY <2>2, <2>4 DEF LastHead, IsHead
    <3>2. SectionOf(w, i) = w[h].name
      BY <2>1, <3>1, SectionIs
    <3> QED
      BY <2>2, <2>4, <3>2
  <2> QED
    BY <2>1, <2>3, <2>4, SectionLast
<1>2. ASSUME \A i \in (e + 1)..(e + n) : ~IsHead(w, i),
             NEW i \in (e + 1)..(e + n)
      PROVE  SectionOf(w, i) = SectionOf(ini, e + 1)
  <2>1. i \in 1..(Len(w) + 1) /\ e + 1 \in 1..(Len(w) + 1) /\ e + 1 \in 1..(e + 1)
        /\ e \in Int /\ n \in Int /\ i \in Int /\ i - 1 <= e + n
    OBVIOUS
  <2>2. SectionOf(w, e + 1) = SectionOf(ini, e + 1)
    BY <1>1, <2>1
  <2>3. CASE \A j \in 1..((e + 1) - 1) : ~IsHead(w, j)
    <3>1. \A j \in 1..(i - 1) : ~IsHead(w, j)
      BY <1>2, <2>1, <2>3
    <3>2. SectionOf(w, i) = ""
      BY <2>1, <3>1, SectionLast DEF LastHead
    <3>3. SectionOf(w, e + 1) = ""
      BY <2>1, <2>3, SectionLast DEF LastHead
    <3> QED
      BY <2>2, <3>2, <3>3
  <2>4. ASSUME NEW h \in 1..((e + 1) - 1), LastHead(w, h, e + 1),
               SectionOf(w, e + 1) = w[h].name
        PROVE  SectionOf(w, i) = SectionOf(ini, e + 1)
    <3>1. LastHead(w, h, i)
      BY <1>2, <2>1, <2>4 DEF LastHead
    <3> QED
      BY <2>1, <2>2, <2>4, <3>1, SectionIs
  <2> QED
    BY <2>1, <2>3, <2>4, SectionLast
<1>3. ASSUME \A i \in (e + 1)..(e + n) : ~IsHead(w, i),
             \A i \in (e + 1)..Len(ini) :
               w[i + n].kind = ini[i].kind /\ w[i + n].name = ini[i].name,
             NEW i \in (e + 1)..Len(ini)
      PROVE  SectionOf(w, i + n) = SectionOf(ini, i)
  <2>1. /\ i \in 1..(Len(ini) + 1) /\ i + n \in 1..(Len(w) + 1)
        /\ e \in Int /\ n \in Int /\ i \in Int /\ e + 1 <= i
    OBVIOUS
  <2>2. ASSUME NEW j \in 1..(i + n - 1), IsHead(w, j)
        PROVE  \/ j \in 1..e /\ IsHead(ini, j)
               \/ j - n \in (e + 1)..(i - 1) /\ IsHead(ini, j - n)
    <3>1. CASE j \in 1..e
      BY <2>2, <3>1 DEF IsHead
    <3>2. CASE j \in (e + 1)..(e + n)
      BY <1>3, <2>2, <3>2
    <3>3. CASE j \in (e + n + 1)..(i + n - 1)
      <4>1. j - n \in (e + 1)..Len(ini) /\ (j - n) + n = j
            /\ j - n \in (e + 1)..(i - 1)
        BY <2>1, <3>3
      <4>2. w[j].kind = ini[j - n].kind
        BY <1>3, <4>1
      <4> QED
        BY <2>2, <4>1, <4>2 DEF IsHead
    <3> QED
      BY <2>1, <3>1, <3>2, <3>3
  <2>3. CASE \A j \in 1..(i - 1) : ~IsHead(ini, j)
    <3>1. \A j \in 1..(i + n - 1) : ~IsHead(w, j)
      BY <2>1, <2>2, <2>3
    <3>2. SectionOf(w, i + n) = ""
      <4>1. \A h \in 1..((i + n) - 1) : ~LastHead(w, h, i + n)
        BY <3>1 DEF LastHead
      <4> QED
        BY <2>1, <4>1, SectionLast
    <3>3. SectionOf(ini, i) = ""
      BY <2>1, <2>3, SectionLast DEF LastHead
    <3> QED
      BY <3>2, <3>3
  <2>4. ASSUME NEW h \in 1..(i - 1), LastHead(ini, h, i),
               SectionOf(ini, i) = ini[h].name
        PROVE  SectionOf(w, i + n) = SectionOf(ini, i)
    <3>1. CASE h <= e
      <4>1. LastHead(w, h, i + n)
        <5>1. h \in 1..((i + n) - 1) /\ IsHead(w, h)
          BY <2>1, <2>4, <3>1 DEF LastHead, IsHead
        <5>2. ASSUME NEW j \in (h + 1)..((i + n) - 1), IsHead(w, j) PROVE FALSE
          BY <2>1, <2>2, <2>4, <3>1, <5>2 DEF LastHead
        <5> QED
          BY <5>1, <5>2 DEF LastHead
      <4>2. SectionOf(w, i + n) = w[h].name
        BY <2>1, <4>1, SectionIs
      <4> QED
        BY <2>4, <3>1, <4>2
    <3>2. CASE h > e
      <4>1. h \in (e + 1)..Len(ini)
        BY <2>1, <3>2
      <4>2. LastHead(w, h + n, i + n)
        <5>1. h + n \in 1..((i + n) - 1) /\ IsHead(w, h + n)
          BY <1>3, <2>1, <2>4, <4>1 DEF LastHead, IsHead
        <5>2. ASSUME NEW j \in ((h + n) + 1)..((i + n) - 1), IsHead(w, j) PROVE FALSE
          BY <2>1, <2>2, <2>4, <3>2, <5>2 DEF LastHead
        <5> QED
          BY <5>1, <5>2 DEF LastHead
      <4>3. SectionOf(w, i + n) = w[h + n].name
        BY <2>1, <4>2, SectionIs
      <4> QED
        BY <1>3, <2>4, <4>1, <4>3
    <3> QED
      BY <2>1, <3>1, <3>2
  <2> QED
    BY <2>1, <2>3, <2>4, SectionLast
<1> QED
  BY <1>1, <1>2, <1>3

-----------------------------------------------------------------------------
(* SetSection *)

NewValues == [CanvasNames -> Text]

Missing(ini) == {k \in CanvasNames : At(ini, Video, k) = {}}

\* w is ini with its values replaced and n lines put in after line e: a heading,
\* if any, and one line for each missing key.
Rewritten(ini, w, values, e, n) ==
  LET new == Replaced(ini, Video, values)
      in  == (e + 1)..(e + n)
  IN /\ w \in Seq(Line) /\ Len(w) = Len(ini) + n
     /\ \A i \in 1..e : w[i] = new[i] /\ SectionOf(w, i) = SectionOf(ini, i)
     /\ \A i \in (e + 1)..Len(ini) :
          w[i + n] = new[i] /\ SectionOf(w, i + n) = SectionOf(ini, i)
     /\ \A i \in in :
          \/ w[i] = Heading(Video)
          \/ \E k \in Missing(ini) :
               w[i] = Setting(k, values[k]) /\ SectionOf(w, i) = Video
     /\ \A k \in Missing(ini) :
          \E i \in in : w[i] = Setting(k, values[k]) /\ SectionOf(w, i) = Video
     /\ \A k \in Missing(ini) : \A i, j \in in :
          w[i] = Setting(k, values[k]) /\ w[j] = Setting(k, values[k]) => i = j

\* The lines whose value is replaced are the first of their key.
LEMMA ReplacedLines ==
  ASSUME NEW ini \in Seq(Line), NEW values \in NewValues
  PROVE  LET new == Replaced(ini, Video, values)
         IN /\ new \in Seq(Line) /\ Len(new) = Len(ini)
            /\ \A i \in DOMAIN ini :
                 /\ new[i].kind = ini[i].kind /\ new[i].name = ini[i].name
                 /\ \/ new[i] = ini[i]
                    \/ \E k \in CanvasNames :
                         /\ i \in At(ini, Video, k) /\ i = Min(At(ini, Video, k))
                         /\ new[i].value = values[k]
            /\ \A k \in CanvasNames :
                 At(ini, Video, k) # {} =>
                   /\ Min(At(ini, Video, k)) \in At(ini, Video, k)
                   /\ new[Min(At(ini, Video, k))].value = values[k]
<1> DEFINE present == {k \in DOMAIN values : At(ini, Video, k) # {}}
           firsts  == {Min(At(ini, Video, k)) : k \in present}
           new     == Replaced(ini, Video, values)
<1>1. DOMAIN values = CanvasNames /\ \A k \in CanvasNames : values[k] \in Text
  BY DEF NewValues
<1>2. new = [i \in DOMAIN ini |->
               IF i \in firsts THEN [ini[i] EXCEPT !.value = values[ini[i].name]]
                               ELSE ini[i]]
  BY Zenon DEF Replaced
<1>3. ASSUME NEW k \in CanvasNames, At(ini, Video, k) # {}
      PROVE  Min(At(ini, Video, k)) \in At(ini, Video, k)
  <2>1. At(ini, Video, k) \in SUBSET (1..Len(ini)) /\ Len(ini) \in Nat
    BY DEF At
  <2> QED
    BY <1>3, <2>1, Extremes
<1>4. \A k \in CanvasNames : \A i \in At(ini, Video, k) :
        i \in DOMAIN ini /\ ini[i].name = k
  BY DEF At
<1>5. ASSUME NEW i \in firsts
      PROVE  \E k \in CanvasNames :
               /\ i \in At(ini, Video, k) /\ i = Min(At(ini, Video, k))
               /\ ini[i].name = k /\ i \in DOMAIN ini
  <2>1. PICK k \in present : i = Min(At(ini, Video, k))
    OBVIOUS
  <2> QED
    BY <1>1, <1>3, <1>4, <2>1
<1>6. \A k \in CanvasNames :
        At(ini, Video, k) # {} => Min(At(ini, Video, k)) \in firsts
  BY <1>1
<1> HIDE DEF firsts, new
<1>7. ASSUME NEW i \in DOMAIN ini
      PROVE  /\ new[i] \in Line
             /\ new[i].kind = ini[i].kind /\ new[i].name = ini[i].name
             /\ \/ i \notin firsts /\ new[i] = ini[i]
                \/ i \in firsts /\ new[i].value = values[ini[i].name]
  <2>1. ini[i] \in Line
    OBVIOUS
  <2>2. CASE i \notin firsts
    BY <1>2, <2>1, <2>2
  <2>3. CASE i \in firsts
    <3>1. values[ini[i].name] \in Text
      BY <1>1, <1>5, <2>3
    <3>2. new[i] = [ini[i] EXCEPT !.value = values[ini[i].name]]
      BY <1>2, <2>3
    <3> QED
      BY <2>1, <2>3, <3>1, <3>2 DEF Line
  <2> QED
    BY <2>2, <2>3
<1>8. new \in Seq(Line) /\ Len(new) = Len(ini) /\ DOMAIN new = DOMAIN ini
  <2>1. new \in [1..Len(ini) -> Line]
    BY <1>2, <1>7
  <2> QED
    BY <2>1
<1>9. ASSUME NEW k \in CanvasNames, At(ini, Video, k) # {}
      PROVE  new[Min(At(ini, Video, k))].value = values[k]
  BY <1>3, <1>4, <1>6, <1>7, <1>9
<1>10. ASSUME NEW i \in DOMAIN ini, i \in firsts
       PROVE  \E k \in CanvasNames :
                /\ i \in At(ini, Video, k) /\ i = Min(At(ini, Video, k))
                /\ new[i].value = values[k]
  BY <1>5, <1>7, <1>10
<1>11. \A i \in DOMAIN ini :
         /\ new[i].kind = ini[i].kind /\ new[i].name = ini[i].name
         /\ \/ new[i] = ini[i]
            \/ \E k \in CanvasNames :
                 /\ i \in At(ini, Video, k) /\ i = Min(At(ini, Video, k))
                 /\ new[i].value = values[k]
  BY <1>7, <1>10
<1> QED
  BY <1>3, <1>8, <1>9, <1>11 DEF new

\* What SetSection calls missing and added.
MissingKeys(ini) ==
  Kept(CanvasKeys, {i \in DOMAIN CanvasKeys : At(ini, Video, CanvasKeys[i]) = {}})

Added(ini, values) ==
  [i \in DOMAIN MissingKeys(ini) |->
     Setting(MissingKeys(ini)[i], values[MissingKeys(ini)[i]])]

\* Each missing key is added once.
AddsMissing(ini, values, added) ==
  /\ MissingKeys(ini) \in Seq(CanvasNames)
  /\ added \in Seq(Line) /\ Len(added) = Len(MissingKeys(ini))
  /\ \A i \in 1..Len(added) :
       \E k \in Missing(ini) : added[i] = Setting(k, values[k])
  /\ \A k \in Missing(ini) :
       \E i \in 1..Len(added) : added[i] = Setting(k, values[k])
  /\ \A i, j \in 1..Len(added) : added[i].name = added[j].name => i = j

\* The lines that SetSection adds: one for each missing key, and no other.
LEMMA AddedLines ==
  ASSUME NEW ini \in Seq(Line), NEW values \in NewValues
  PROVE  AddsMissing(ini, values, Added(ini, values))
<1> DEFINE absent  == {i \in DOMAIN CanvasKeys : At(ini, Video, CanvasKeys[i]) = {}}
           missing == MissingKeys(ini)
           added   == Added(ini, values)
<1>1. /\ CanvasKeys \in Seq(CanvasNames) /\ DOMAIN CanvasKeys = 1..3
      /\ \A h, i \in DOMAIN CanvasKeys : h # i => CanvasKeys[h] # CanvasKeys[i]
      /\ \A k \in CanvasNames : \E i \in DOMAIN CanvasKeys : CanvasKeys[i] = k
      /\ \A i \in DOMAIN CanvasKeys : CanvasKeys[i] \in CanvasNames
  BY DEF CanvasKeys, CanvasNames
<1> HIDE DEF absent
<1>12. ItemsAt(CanvasNames, CanvasKeys, absent, missing)
  BY <1>1, KeptItems, Zenon DEF MissingKeys, absent
<1>2. /\ missing \in Seq(CanvasNames)
      /\ \A j \in DOMAIN missing :
           \E i \in DOMAIN CanvasKeys : i \in absent /\ missing[j] = CanvasKeys[i]
      /\ \A i \in DOMAIN CanvasKeys :
           i \in absent => \E j \in DOMAIN missing : missing[j] = CanvasKeys[i]
      /\ (\A h, i \in DOMAIN CanvasKeys : h # i => CanvasKeys[h] # CanvasKeys[i]) =>
           \A h, j \in DOMAIN missing : h # j => missing[h] # missing[j]
  BY <1>12, Zenon DEF ItemsAt
<1> HIDE DEF missing
<1>3. \A j \in DOMAIN missing : missing[j] \in Missing(ini)
  BY <1>1, <1>2 DEF absent, Missing
<1>4. \A k \in Missing(ini) : \E j \in DOMAIN missing : missing[j] = k
  BY <1>1, <1>2 DEF absent, Missing
<1>5. \A h, j \in DOMAIN missing : h # j => missing[h] # missing[j]
  BY <1>1, <1>2
<1>6. \A k \in Missing(ini) : values[k] \in Text /\ Setting(k, values[k]) \in Line
  <2>1. "key" \in Text /\ \A k \in CanvasNames : k \in Text
    BY DEF Text, Words, CanvasNames
  <2>2. \A k \in CanvasNames : values[k] \in Text
    BY DEF NewValues
  <2> QED
    BY <2>1, <2>2 DEF Missing, Setting, Line
<1>7. DOMAIN missing = 1..Len(missing) /\ Len(missing) \in Nat
  BY <1>2
<1>8. added = [i \in 1..Len(missing) |->
                Setting(missing[i], values[missing[i]])]
  BY <1>7 DEF Added, missing
<1>9. added \in Seq(Line) /\ Len(added) = Len(missing)
  <2>1. added \in [1..Len(missing) -> Line]
    BY <1>3, <1>6, <1>7, <1>8
  <2> QED
    BY <1>7, <2>1
<1>10. \A i \in 1..Len(added) : added[i] = Setting(missing[i], values[missing[i]])
                                /\ added[i].name = missing[i]
  BY <1>7, <1>8, <1>9 DEF Setting
<1> HIDE DEF added
<1>11. /\ \A i \in 1..Len(added) :
            \E k \in Missing(ini) : added[i] = Setting(k, values[k])
       /\ \A k \in Missing(ini) :
            \E i \in 1..Len(added) : added[i] = Setting(k, values[k])
       /\ \A i, j \in 1..Len(added) : added[i].name = added[j].name => i = j
  BY <1>3, <1>4, <1>5, <1>7, <1>9, <1>10
<1> QED
  BY <1>2, <1>9, <1>11 DEF AddsMissing, added, missing

\* EndOfSection is after the heading of the section and before the next heading.
LEMMA EndIsInSection ==
  ASSUME NEW ini \in Seq(Line),
         \E i \in DOMAIN ini : ini[i] = Heading(Video)
  PROVE  /\ EndOfSection(ini, Video) \in 0..Len(ini)
         /\ SectionOf(ini, EndOfSection(ini, Video) + 1) = Video
<1> DEFINE heads  == {i \in DOMAIN ini : ini[i].kind = "head"}
           videos == {i \in heads : ini[i].name = Video}
           start  == Max(videos)
           next   == {i \in heads : i > start}
           end    == EndOfSection(ini, Video)
<1>1. end = IF next = {} THEN Len(ini) ELSE Min(next) - 1
  BY Zenon DEF EndOfSection
<1>2. DOMAIN ini = 1..Len(ini) /\ Len(ini) \in Nat
  OBVIOUS
<1>3. start \in videos /\ \A y \in videos : y <= start
  <2>1. videos \in SUBSET (1..Len(ini))
    BY <1>2
  <2>2. videos # {}
    BY DEF Heading
  <2> HIDE DEF videos
  <2> QED
    BY <1>2, <2>1, <2>2, Extremes
<1> HIDE DEF start, end
<1>4. start \in 1..Len(ini) /\ IsHead(ini, start) /\ ini[start].name = Video
  BY <1>2, <1>3 DEF IsHead
<1>5. next = {} \/ (Min(next) \in next /\ \A y \in next : Min(next) <= y)
  <2>1. next \in SUBSET (1..Len(ini))
    BY <1>2
  <2> HIDE DEF next
  <2> QED
    BY <1>2, <2>1, Extremes
<1>6. /\ end \in start..Len(ini)
      /\ \A j \in (start + 1)..end : ~IsHead(ini, j)
  <2>1. CASE next = {}
    <3>1. end = Len(ini)
      BY <1>1, <2>1
    <3> QED
      BY <1>2, <1>4, <2>1, <3>1 DEF IsHead
  <2>2. CASE next # {}
    <3> DEFINE l == Min(next)
    <3>1. end = l - 1
      BY <1>1, <2>2
    <3>2. l \in next /\ \A y \in next : l <= y
      BY <1>5, <2>2
    <3> HIDE DEF l
    <3>3. l \in 1..Len(ini) /\ start < l
      BY <1>2, <3>2
    <3> QED
      BY <1>2, <1>4, <3>1, <3>2, <3>3 DEF IsHead
  <2> QED
    BY <2>1, <2>2
<1>7. LastHead(ini, start, end + 1) /\ end + 1 \in 1..(Len(ini) + 1)
      /\ end \in 0..Len(ini)
  BY <1>4, <1>6 DEF LastHead
<1>8. SectionOf(ini, end + 1) = Video
  BY <1>4, <1>7, SectionIs
<1> QED
  BY <1>7, <1>8 DEF end

\* w is a and b one after the other.
IsPair(S, a, b, w) ==
  /\ w \in Seq(S) /\ Len(w) = Len(a) + Len(b)
  /\ \A i \in 1..Len(a) : w[i] = a[i]
  /\ \A i \in 1..Len(b) : w[Len(a) + i] = b[i]

\* What \o does, index by index.
LEMMA JoinedTwo ==
  ASSUME NEW S, NEW a \in Seq(S), NEW b \in Seq(S)
  PROVE  IsPair(S, a, b, a \o b)
BY DEF IsPair

\* The same of three.
IsJoined(S, a, b, c, w) ==
  /\ w \in Seq(S) /\ Len(w) = Len(a) + Len(b) + Len(c)
  /\ \A i \in 1..Len(a) : w[i] = a[i]
  /\ \A i \in 1..Len(b) : w[Len(a) + i] = b[i]
  /\ \A i \in 1..Len(c) : w[Len(a) + Len(b) + i] = c[i]

\* The same of three sequences.
LEMMA Joined ==
  ASSUME NEW S, NEW a \in Seq(S), NEW b \in Seq(S), NEW c \in Seq(S)
  PROVE  IsJoined(S, a, b, c, a \o b \o c)
<1> DEFINE ab == a \o b
           w  == ab \o c
<1>1. IsPair(S, a, b, ab)
  BY JoinedTwo, Zenon
<1> HIDE DEF ab
<1>2. IsPair(S, ab, c, w)
  <2>1. ab \in Seq(S)
    BY <1>1 DEF IsPair
  <2> QED
    BY <2>1, JoinedTwo, Zenon
<1>3. /\ Len(a) \in Nat /\ Len(b) \in Nat /\ Len(c) \in Nat
  OBVIOUS
<1> HIDE DEF w
<1>4. IsJoined(S, a, b, c, w)
  BY <1>1, <1>2, <1>3 DEF IsPair, IsJoined
<1> QED
  BY <1>4, Zenon DEF w, ab

\* SetSection rewrites: nothing missing, no section, or the end of the section.
LEMMA SetSectionRewrites ==
  ASSUME NEW ini \in Seq(Line), NEW values \in NewValues
  PROVE  \E e \in 0..Len(ini), n \in Nat :
           Rewritten(ini, SetSection(ini, Video, values, CanvasKeys), values, e, n)
<1> DEFINE missing == MissingKeys(ini)
           added   == Added(ini, values)
           new     == Replaced(ini, Video, values)
           end     == EndOfSection(ini, Video)
           w       == SetSection(ini, Video, values, CanvasKeys)
<1>1. w = IF missing = <<>> THEN new
          ELSE IF ~\E i \in DOMAIN ini : ini[i] = Heading(Video)
               THEN new \o <<Heading(Video)>> \o added
               ELSE SubSeq(new, 1, end) \o added \o SubSeq(new, end + 1, Len(new))
  BY Zenon DEF SetSection, MissingKeys, Added
<1>2. /\ new \in Seq(Line) /\ Len(new) = Len(ini)
      /\ \A i \in 1..Len(ini) : new[i].kind = ini[i].kind /\ new[i].name = ini[i].name
  BY ReplacedLines
<1>3. /\ missing \in Seq(CanvasNames) /\ added \in Seq(Line)
      /\ Len(added) = Len(missing)
      /\ \A i \in 1..Len(added) :
           \E k \in Missing(ini) : added[i] = Setting(k, values[k])
      /\ \A k \in Missing(ini) :
           \E i \in 1..Len(added) : added[i] = Setting(k, values[k])
      /\ \A i, j \in 1..Len(added) : added[i].name = added[j].name => i = j
  BY AddedLines, Zenon DEF AddsMissing
<1>4. Len(ini) \in Nat /\ Len(added) \in Nat /\ Heading(Video) \in Line
  <2>1. Heading(Video) \in Line
    BY DEF Heading, Video, NoValue, Line, Text, Words
  <2> QED
    BY <1>3, <2>1
<1> HIDE DEF new, added, missing, end, w
<1>5. CASE missing = <<>>
  <2>1. w = new /\ Len(added) = 0
    BY <1>1, <1>3, <1>5
  <2>2. \A i \in 1..(Len(ini) + 1) : SectionOf(w, i) = SectionOf(ini, i)
    <3>1. Len(ini) \in 0..Len(ini) /\ Len(w) = Len(ini) + 0 /\ 0 \in Nat
          /\ w \in Seq(Line)
      BY <1>2, <1>4, <2>1
    <3>2. \A i \in 1..Len(ini) : w[i].kind = ini[i].kind /\ w[i].name = ini[i].name
      BY <1>2, <2>1
    <3> QED
      BY <3>1, <3>2, SectionsStay, Zenon
  <2>3. Missing(ini) = {}
    BY <1>3, <2>1
  <2>4. Rewritten(ini, w, values, Len(ini), 0)
    BY <1>2, <1>4, <2>1, <2>2, <2>3 DEF Rewritten, new
  <2> QED
    BY <1>4, <2>4 DEF w
<1>8. \A i \in 1..Len(added) :
        \E k \in Missing(ini) : added[i] = Setting(k, values[k])
                                /\ added[i].kind = "key" /\ added[i].name = k
  BY <1>3 DEF Setting
<1>9. \A k \in Missing(ini) : \A i, j \in 1..Len(added) :
        added[i] = Setting(k, values[k]) /\ added[j] = Setting(k, values[k]) => i = j
  BY <1>3
<1>10. \A k \in CanvasNames : Setting(k, values[k]) # Heading(Video)
  BY DEF Setting, Heading
<1>6. CASE missing # <<>> /\ ~\E i \in DOMAIN ini : ini[i] = Heading(Video)
  <2> DEFINE L == Len(ini)
             l == Len(added)
  <2>1. /\ w \in Seq(Line) /\ Len(w) = L + (1 + l)
        /\ \A i \in 1..L : w[i] = new[i]
        /\ w[L + 1] = Heading(Video)
        /\ \A i \in 1..l : w[L + 1 + i] = added[i]
    <3>1. w = new \o <<Heading(Video)>> \o added
      BY <1>1, <1>6
    <3>2. /\ <<Heading(Video)>> \in Seq(Line) /\ Len(<<Heading(Video)>>) = 1
          /\ <<Heading(Video)>>[1] = Heading(Video)
      BY <1>4
    <3> DEFINE head == <<Heading(Video)>>
    <3> HIDE DEF head
    <3>3. /\ w \in Seq(Line) /\ Len(w) = Len(new) + Len(head) + Len(added)
          /\ \A i \in 1..Len(new) : w[i] = new[i]
          /\ \A i \in 1..Len(head) : w[Len(new) + i] = head[i]
          /\ \A i \in 1..Len(added) : w[Len(new) + Len(head) + i] = added[i]
      <4>1. head \in Seq(Line)
        BY <3>2 DEF head
      <4>2. IsJoined(Line, new, head, added, w)
        BY <1>2, <1>3, <3>1, <4>1, Joined, Zenon DEF head
      <4> QED
        BY <4>2, Zenon DEF IsJoined
    <3> QED
      BY <1>2, <1>4, <3>2, <3>3 DEF head
  <2>2. L \in Nat /\ l \in Nat /\ L \in 0..L /\ 1 + l \in Nat
    BY <1>4
  <2> HIDE DEF L, l
  <2>3. \A i \in 1..L : SectionOf(w, i) = SectionOf(ini, i)
    <3>1. \A i \in 1..L : w[i].kind = ini[i].kind /\ w[i].name = ini[i].name
      BY <1>2, <2>1 DEF L
    <3>2. \A i \in 1..(L + 1) : SectionOf(w, i) = SectionOf(ini, i)
      BY <2>1, <2>2, <3>1, SectionsStay, Zenon DEF L
    <3> QED
      BY <2>2, <3>2
  <2>4. ASSUME NEW i \in 1..l PROVE SectionOf(w, L + 1 + i) = Video
    <3>1. L + 1 + i \in 1..(Len(w) + 1)
      BY <2>1, <2>2
    <3>2. w[L + 1].kind = "head" /\ w[L + 1].name = Video
      BY <2>1 DEF Heading
    <3>3. ASSUME NEW j \in ((L + 1) + 1)..(L + 1 + i - 1) PROVE w[j].kind # "head"
      <4>1. j - (L + 1) \in 1..l /\ L + 1 + (j - (L + 1)) = j
        BY <2>2
      <4>2. w[j] = added[j - (L + 1)]
        BY <2>1, <4>1
      <4> QED
        BY <1>8, <4>1, <4>2 DEF l
    <3>4. LastHead(w, L + 1, L + 1 + i)
      BY <2>2, <3>2, <3>3 DEF LastHead, IsHead
    <3> QED
      BY <2>1, <3>1, <3>2, <3>4, SectionIs
  <2>5. \A i \in (L + 1)..(L + (1 + l)) :
          \/ w[i] = Heading(Video)
          \/ \E k \in Missing(ini) :
               w[i] = Setting(k, values[k]) /\ SectionOf(w, i) = Video
    <3> SUFFICES ASSUME NEW i \in (L + 1)..(L + (1 + l))
                 PROVE  \/ w[i] = Heading(Video)
                        \/ \E k \in Missing(ini) :
                             w[i] = Setting(k, values[k]) /\ SectionOf(w, i) = Video
      OBVIOUS
    <3>1. CASE i = L + 1
      BY <2>1, <3>1
    <3>2. CASE i # L + 1
      <4>1. i - (L + 1) \in 1..l /\ L + 1 + (i - (L + 1)) = i
        BY <2>2, <3>2
      <4>2. w[i] = added[i - (L + 1)] /\ SectionOf(w, i) = Video
        BY <2>1, <2>4, <4>1
      <4> QED
        BY <1>8, <4>1, <4>2 DEF l
    <3> QED
      BY <3>1, <3>2
  <2>6. \A k \in Missing(ini) :
          \E i \in (L + 1)..(L + (1 + l)) :
            w[i] = Setting(k, values[k]) /\ SectionOf(w, i) = Video
    <3> SUFFICES ASSUME NEW k \in Missing(ini)
                 PROVE  \E i \in (L + 1)..(L + (1 + l)) :
                          w[i] = Setting(k, values[k]) /\ SectionOf(w, i) = Video
      OBVIOUS
    <3>1. PICK j \in 1..l : added[j] = Setting(k, values[k])
      BY <1>3 DEF l
    <3>2. L + 1 + j \in (L + 1)..(L + (1 + l))
      BY <2>2
    <3> QED
      BY <2>1, <2>4, <3>1, <3>2
  <2>7. \A k \in Missing(ini) : \A i, j \in (L + 1)..(L + (1 + l)) :
          w[i] = Setting(k, values[k]) /\ w[j] = Setting(k, values[k]) => i = j
    <3> SUFFICES ASSUME NEW k \in Missing(ini),
                        NEW i \in (L + 1)..(L + (1 + l)), w[i] = Setting(k, values[k]),
                        NEW j \in (L + 1)..(L + (1 + l)), w[j] = Setting(k, values[k])
                 PROVE  i = j
      OBVIOUS
    <3>1. i # L + 1 /\ j # L + 1
      BY <1>10, <2>1 DEF Missing
    <3>2. /\ i - (L + 1) \in 1..l /\ L + 1 + (i - (L + 1)) = i
          /\ j - (L + 1) \in 1..l /\ L + 1 + (j - (L + 1)) = j
      BY <2>2, <3>1
    <3>3. i - (L + 1) = j - (L + 1)
      BY <1>9, <2>1, <3>2 DEF l
    <3> QED
      BY <3>2, <3>3
  <2>8. Rewritten(ini, w, values, L, 1 + l)
    BY <2>1, <2>2, <2>3, <2>5, <2>6, <2>7 DEF Rewritten, new, L
  <2> QED
    BY <2>2, <2>8 DEF w, L
<1>7. CASE missing # <<>> /\ \E i \in DOMAIN ini : ini[i] = Heading(Video)
  <2> DEFINE L == Len(ini)
             l == Len(added)
  <2>1. end \in 0..L /\ SectionOf(ini, end + 1) = Video
    BY <1>7, EndIsInSection DEF end
  <2>2. L \in Nat /\ l \in Nat /\ end \in Nat /\ end <= L
    BY <1>4, <2>1
  <2>3. /\ w \in Seq(Line) /\ Len(w) = L + l
        /\ \A i \in 1..end : w[i] = new[i]
        /\ \A i \in 1..l : w[end + i] = added[i]
        /\ \A i \in (end + 1)..L : w[i + l] = new[i]
    <3> DEFINE a == SubSeq(new, 1, end)
               c == SubSeq(new, end + 1, Len(new))
    <3>1. w = a \o added \o c
      BY <1>1, <1>7
    <3>2. /\ a \in Seq(Line) /\ Len(a) = end
          /\ \A i \in 1..end : a[i] = new[i]
      BY <1>2, <2>2
    <3>3. /\ c \in Seq(Line) /\ Len(c) = L - end
          /\ \A i \in 1..(L - end) : c[i] = new[end + i]
      BY <1>2, <2>2
    <3> HIDE DEF a, c
    <3>4. /\ w \in Seq(Line) /\ Len(w) = Len(a) + Len(added) + Len(c)
          /\ \A i \in 1..Len(a) : w[i] = a[i]
          /\ \A i \in 1..Len(added) : w[Len(a) + i] = added[i]
          /\ \A i \in 1..Len(c) : w[Len(a) + Len(added) + i] = c[i]
      <4>1. IsJoined(Line, a, added, c, w)
        BY <1>3, <3>1, <3>2, <3>3, Joined, Zenon
      <4> QED
        BY <4>1, Zenon DEF IsJoined
    <3>5. ASSUME NEW i \in (end + 1)..L PROVE w[i + l] = new[i]
      <4>1. i - end \in 1..(L - end) /\ end + (i - end) = i
            /\ end + l + (i - end) = i + l
        BY <2>2
      <4> QED
        BY <3>2, <3>3, <3>4, <4>1
    <3>6. Len(w) = L + l
      BY <2>2, <3>2, <3>3, <3>4
    <3>7. \A i \in 1..end : w[i] = new[i]
      BY <3>2, <3>4
    <3>8. \A i \in 1..l : w[end + i] = added[i]
      BY <3>2, <3>4
    <3> QED
      BY <3>4, <3>5, <3>6, <3>7, <3>8
  <2> HIDE DEF L, l
  <2>4. /\ \A i \in 1..end : w[i].kind = ini[i].kind /\ w[i].name = ini[i].name
        /\ \A i \in (end + 1)..L : w[i + l].kind = ini[i].kind
                                   /\ w[i + l].name = ini[i].name
    <3>1. \A i \in (end + 1)..L : i \in 1..L
      BY <2>2
    <3>2. \A i \in 1..end : i \in 1..L
      BY <2>2
    <3> QED
      BY <1>2, <2>3, <3>1, <3>2 DEF L
  <2>5. ASSUME NEW i \in (end + 1)..(end + l)
        PROVE  i - end \in 1..l /\ w[i] = added[i - end]
    <3>1. i - end \in 1..l /\ end + (i - end) = i
      BY <2>2
    <3> QED
      BY <2>3, <3>1
  <2>6. \A i \in (end + 1)..(end + l) : ~IsHead(w, i)
    BY <1>8, <2>5 DEF IsHead, l
  <2>7. /\ \A i \in 1..(end + 1) : SectionOf(w, i) = SectionOf(ini, i)
        /\ \A i \in (end + 1)..L : SectionOf(w, i + l) = SectionOf(ini, i)
        /\ \A i \in (end + 1)..(end + l) : SectionOf(w, i) = SectionOf(ini, end + 1)
    BY <2>1, <2>2, <2>3, <2>4, <2>6, SectionsStay, Zenon DEF L
  <2>8. \A i \in 1..end : SectionOf(w, i) = SectionOf(ini, i)
    BY <2>2, <2>7
  <2>9. \A i \in (end + 1)..(end + l) :
          \E k \in Missing(ini) :
            w[i] = Setting(k, values[k]) /\ SectionOf(w, i) = Video
    BY <1>8, <2>1, <2>5, <2>7 DEF l
  <2>10. \A k \in Missing(ini) :
          \E i \in (end + 1)..(end + l) :
            w[i] = Setting(k, values[k]) /\ SectionOf(w, i) = Video
    <3> SUFFICES ASSUME NEW k \in Missing(ini)
                 PROVE  \E i \in (end + 1)..(end + l) :
                          w[i] = Setting(k, values[k]) /\ SectionOf(w, i) = Video
      OBVIOUS
    <3>1. PICK j \in 1..l : added[j] = Setting(k, values[k])
      BY <1>3 DEF l
    <3>2. end + j \in (end + 1)..(end + l)
      BY <2>2
    <3> QED
      BY <2>1, <2>3, <2>7, <3>1, <3>2
  <2>11. \A k \in Missing(ini) : \A i, j \in (end + 1)..(end + l) :
          w[i] = Setting(k, values[k]) /\ w[j] = Setting(k, values[k]) => i = j
    <3> SUFFICES ASSUME NEW k \in Missing(ini),
                        NEW i \in (end + 1)..(end + l), w[i] = Setting(k, values[k]),
                        NEW j \in (end + 1)..(end + l), w[j] = Setting(k, values[k])
                 PROVE  i = j
      OBVIOUS
    <3>1. i - end = j - end
      BY <1>9, <2>5 DEF l
    <3> QED
      BY <2>2, <3>1
  <2>12. Rewritten(ini, w, values, end, l)
    BY <2>3, <2>7, <2>8, <2>9, <2>10, <2>11 DEF Rewritten, new, L
  <2> QED
    BY <2>1, <2>2, <2>12 DEF w, L
<1> QED
  BY <1>5, <1>6, <1>7

-----------------------------------------------------------------------------
(* What a rewritten profile keeps and what it says *)

\* The lines of the key k stay its lines; the lines put in are of missing keys.
SameAt(ini, w, values, e, n, k) ==
  /\ \A i \in 1..e : i \in At(w, Video, k) <=> i \in At(ini, Video, k)
  /\ \A i \in (e + 1)..Len(ini) :
       i + n \in At(w, Video, k) <=> i \in At(ini, Video, k)
  /\ \A i \in (e + 1)..(e + n) :
       i \in At(w, Video, k) <=>
         k \in Missing(ini) /\ w[i] = Setting(k, values[k])

\* Where the keys of the canvas are once the section is rewritten: where they
\* were, and in the new lines for those that were missing.
LEMMA RewrittenAt ==
  ASSUME NEW ini \in Seq(Line), NEW values \in NewValues, NEW w,
         NEW e \in 0..Len(ini), NEW n \in Nat, Rewritten(ini, w, values, e, n),
         NEW k
  PROVE  SameAt(ini, w, values, e, n, k)
<1> DEFINE new == Replaced(ini, Video, values)
<1>1. \A i \in 1..Len(ini) : new[i].kind = ini[i].kind /\ new[i].name = ini[i].name
  BY ReplacedLines
<1> HIDE DEF new
<1>2. /\ Len(w) = Len(ini) + n /\ DOMAIN w = 1..Len(w) /\ DOMAIN ini = 1..Len(ini)
      /\ \A i \in 1..e : w[i] = new[i] /\ SectionOf(w, i) = SectionOf(ini, i)
      /\ \A i \in (e + 1)..Len(ini) :
           w[i + n] = new[i] /\ SectionOf(w, i + n) = SectionOf(ini, i)
      /\ \A i \in (e + 1)..(e + n) :
           \/ w[i] = Heading(Video)
           \/ \E h \in Missing(ini) :
                w[i] = Setting(h, values[h]) /\ SectionOf(w, i) = Video
  BY DEF Rewritten, new
<1>3. ASSUME NEW i \in 1..e
      PROVE  i \in At(w, Video, k) <=> i \in At(ini, Video, k)
  <2>1. i \in DOMAIN w /\ i \in DOMAIN ini
    BY <1>2
  <2>2. /\ w[i].kind = ini[i].kind /\ w[i].name = ini[i].name
        /\ SectionOf(w, i) = SectionOf(ini, i)
    BY <1>1, <1>2, <2>1
  <2> QED
    BY <2>1, <2>2, Zenon DEF At
<1>4. ASSUME NEW i \in (e + 1)..Len(ini)
      PROVE  i + n \in At(w, Video, k) <=> i \in At(ini, Video, k)
  <2>1. i + n \in DOMAIN w /\ i \in DOMAIN ini
    BY <1>2
  <2>2. /\ w[i + n].kind = ini[i].kind /\ w[i + n].name = ini[i].name
        /\ SectionOf(w, i + n) = SectionOf(ini, i)
    BY <1>1, <1>2, <2>1
  <2> QED
    BY <2>1, <2>2, Zenon DEF At
<1>5. ASSUME NEW i \in (e + 1)..(e + n)
      PROVE  i \in At(w, Video, k) <=>
               k \in Missing(ini) /\ w[i] = Setting(k, values[k])
  <2>1. i \in DOMAIN w
    BY <1>2
  <2>2. CASE w[i] = Heading(Video)
    <3>1. w[i].kind # "key" /\ w[i] # Setting(k, values[k])
      BY <2>2 DEF Heading, Setting
    <3> QED
      BY <3>1, Zenon DEF At
  <2>3. ASSUME NEW h \in Missing(ini),
               w[i] = Setting(h, values[h]), SectionOf(w, i) = Video
        PROVE  i \in At(w, Video, k) <=>
                 k \in Missing(ini) /\ w[i] = Setting(k, values[k])
    <3>1. w[i].kind = "key" /\ w[i].name = h
      BY <2>3 DEF Setting
    <3>2. i \in At(w, Video, k) <=> k = h
      BY <2>1, <2>3, <3>1, Zenon DEF At
    <3>3. w[i] = Setting(k, values[k]) => k = h
      BY <3>1 DEF Setting
    <3> QED
      BY <2>3, <3>2, <3>3
  <2> QED
    BY <1>2, <2>2, <2>3
<1> QED
  BY <1>3, <1>4, <1>5 DEF SameAt

\* A function on 1..n is a sequence.
LEMMA FunctionIsSeq ==
  ASSUME NEW S, NEW n \in Nat, NEW f \in [1..n -> S]
  PROVE  f \in Seq(S) /\ Len(f) = n
OBVIOUS

\* The keys that ApplyCanvas writes are the canvas names.
LEMMA CanvasDomain == DOMAIN Updates(NoCanvas, "0") = CanvasNames
BY DEF Updates, CanvasNames

\* SetSection leaves the machine's own lines, with their sections and in their
\* order.
LEMMA OwnLinesStay ==
  ASSUME NEW ini \in Seq(Line), NEW values \in NewValues
  PROVE  OwnLines(SetSection(ini, Video, values, CanvasKeys)) = OwnLines(ini)
<1> DEFINE w == SetSection(ini, Video, values, CanvasKeys)
           Tags(f) == [i \in DOMAIN f |-> <<SectionOf(f, i), f[i]>>]
           Canvas(f) == UNION {At(f, Video, k) : k \in CanvasNames}
           Own(f) == {i \in DOMAIN f : f[i] # Heading(Video) /\ i \notin Canvas(f)}
           new == Replaced(ini, Video, values)
<1>1. PICK e \in 0..Len(ini), n \in Nat : Rewritten(ini, w, values, e, n)
  BY SetSectionRewrites
<1>2. OwnLines(w) = Kept(Tags(w), Own(w)) /\ OwnLines(ini) = Kept(Tags(ini), Own(ini))
  BY CanvasDomain, Zenon DEF OwnLines
<1> HIDE DEF w, new
<1>3. /\ w \in Seq(Line) /\ Len(w) = Len(ini) + n
      /\ DOMAIN w = 1..Len(w) /\ DOMAIN ini = 1..Len(ini)
      /\ \A i \in 1..e : w[i] = new[i] /\ SectionOf(w, i) = SectionOf(ini, i)
      /\ \A i \in (e + 1)..Len(ini) :
           w[i + n] = new[i] /\ SectionOf(w, i + n) = SectionOf(ini, i)
      /\ \A i \in (e + 1)..(e + n) :
           \/ w[i] = Heading(Video)
           \/ \E k \in Missing(ini) :
                w[i] = Setting(k, values[k]) /\ SectionOf(w, i) = Video
  BY <1>1 DEF Rewritten, new
<1>4. \A i \in 1..Len(ini) : new[i] = ini[i] \/ i \in Canvas(ini)
  BY ReplacedLines DEF new
<1>5. /\ \A i \in 1..e : i \in Canvas(w) <=> i \in Canvas(ini)
      /\ \A i \in (e + 1)..Len(ini) : i + n \in Canvas(w) <=> i \in Canvas(ini)
      /\ \A i \in (e + 1)..(e + n) :
           (\E k \in Missing(ini) : w[i] = Setting(k, values[k])) => i \in Canvas(w)
  <2>1. Missing(ini) \subseteq CanvasNames
    BY DEF Missing
  <2>2. \A k \in CanvasNames : SameAt(ini, w, values, e, n, k)
    BY <1>1, RewrittenAt, Zenon
  <2> QED
    BY <2>1, <2>2 DEF SameAt
<1>6. \A i \in (e + 1)..(e + n) : i \notin Own(w)
  BY <1>3, <1>5, Zenon
<1>7. \A i \in Canvas(ini) : ini[i].kind = "key"
  BY DEF At
<1>8. ASSUME NEW i \in 1..e
      PROVE  /\ i \in Own(ini) <=> i \in Own(w)
             /\ i \in Own(ini) => Tags(ini)[i] = Tags(w)[i]
  <2>1. i \in DOMAIN ini /\ i \in DOMAIN w
    BY <1>3
  <2>2. CASE i \in Canvas(ini)
    BY <1>5, <2>2
  <2>3. CASE i \notin Canvas(ini)
    <3>1. w[i] = ini[i] /\ SectionOf(w, i) = SectionOf(ini, i)
      BY <1>3, <1>4, <2>1, <2>3
    <3> QED
      BY <1>5, <2>1, <2>3, <3>1
  <2> QED
    BY <2>2, <2>3
<1>9. ASSUME NEW i \in (e + 1)..Len(ini)
      PROVE  /\ i \in Own(ini) <=> i + n \in Own(w)
             /\ i \in Own(ini) => Tags(ini)[i] = Tags(w)[i + n]
  <2>1. i \in DOMAIN ini /\ i + n \in DOMAIN w
    BY <1>3
  <2>2. CASE i \in Canvas(ini)
    BY <1>5, <2>2
  <2>3. CASE i \notin Canvas(ini)
    <3>1. w[i + n] = ini[i] /\ SectionOf(w, i + n) = SectionOf(ini, i)
      BY <1>3, <1>4, <2>1, <2>3
    <3> QED
      BY <1>5, <2>1, <2>3, <3>1
  <2> QED
    BY <2>2, <2>3
<1> DEFINE s == Tags(ini)
           t == Tags(w)
           I == Own(ini)
           J == Own(w)
           Tag == {s[i] : i \in DOMAIN ini} \cup {t[i] : i \in DOMAIN w}
<1>10. s \in Seq(Tag) /\ Len(s) = Len(ini)
  <2>1. s \in [1..Len(ini) -> Tag] /\ Len(ini) \in Nat
    BY <1>3
  <2> HIDE DEF s, t, Tag
  <2> QED
    BY <2>1, FunctionIsSeq, Zenon
<1>11. t \in Seq(Tag) /\ Len(t) = Len(w)
  <2>1. t \in [1..Len(w) -> Tag] /\ Len(w) \in Nat
    BY <1>3
  <2> HIDE DEF s, t, Tag
  <2> QED
    BY <2>1, FunctionIsSeq, Zenon
<1> HIDE DEF s, t, I, J, Tag
<1>12. Kept(s, I) = Kept(t, J)
  <2>1. e \in 0..Len(s) /\ Len(t) = Len(s) + n
    BY <1>3, <1>10, <1>11
  <2>2. \A i \in 1..e : (i \in I <=> i \in J) /\ (i \in I => s[i] = t[i])
    BY <1>8 DEF s, t, I, J
  <2>3. \A i \in (e + 1)..(e + n) : i \notin J
    BY <1>6 DEF J
  <2>4. \A i \in (e + 1)..Len(s) :
          (i \in I <=> i + n \in J) /\ (i \in I => s[i] = t[i + n])
    BY <1>9, <1>10 DEF s, t, I, J
  <2>5. Inserts(s, t, I, J, e, n)
    BY <2>1, <2>2, <2>3, <2>4 DEF Inserts
  <2>6. s \in Seq(Tag) /\ t \in Seq(Tag)
    BY <1>10, <1>11
  <2> QED
    BY <2>5, <2>6, KeptInsert
<1> QED
  BY <1>2, <1>12 DEF s, t, I, J, w

Canvases == [size : Text, fps : Text]

\* No key of the canvas has two lines in its section.
CanvasOnce(ini) ==
  \A k \in CanvasNames : \A i, j \in At(ini, Video, k) : i = j

\* Then what is written is what is read: the first line of a key is replaced,
\* the last one is read.
LEMMA CanvasWritten ==
  ASSUME NEW ini \in Seq(Line), NEW values \in NewValues, CanvasOnce(ini)
  PROVE  LET w == SetSection(ini, Video, values, CanvasKeys)
         IN /\ w \in Seq(Line) /\ CanvasOnce(w)
            /\ \A k \in CanvasNames : Value(w, Video, k) = values[k]
<1> DEFINE w == SetSection(ini, Video, values, CanvasKeys)
           new == Replaced(ini, Video, values)
<1>1. PICK e \in 0..Len(ini), n \in Nat : Rewritten(ini, w, values, e, n)
  BY SetSectionRewrites
<1>2. \A k \in CanvasNames :
        At(ini, Video, k) # {} =>
          /\ Min(At(ini, Video, k)) \in At(ini, Video, k)
          /\ new[Min(At(ini, Video, k))].value = values[k]
  BY ReplacedLines
<1> HIDE DEF w, new
<1>3. /\ w \in Seq(Line) /\ Len(w) = Len(ini) + n
      /\ DOMAIN w = 1..Len(w) /\ DOMAIN ini = 1..Len(ini)
      /\ \A i \in 1..e : w[i] = new[i]
      /\ \A i \in (e + 1)..Len(ini) : w[i + n] = new[i]
      /\ \A k \in Missing(ini) :
           /\ \E i \in (e + 1)..(e + n) : w[i] = Setting(k, values[k])
           /\ \A i, j \in (e + 1)..(e + n) :
                w[i] = Setting(k, values[k]) /\ w[j] = Setting(k, values[k]) => i = j
  BY <1>1 DEF Rewritten, new
<1>4. ASSUME NEW k \in CanvasNames
      PROVE  \E p \in DOMAIN w : At(w, Video, k) = {p} /\ w[p].value = values[k]
  <2> SUFFICES ASSUME SameAt(ini, w, values, e, n, k)
               PROVE  \E p \in DOMAIN w :
                        At(w, Video, k) = {p} /\ w[p].value = values[k]
    BY <1>1, RewrittenAt, Zenon
  <2>1. /\ \A i \in 1..e : i \in At(w, Video, k) <=> i \in At(ini, Video, k)
        /\ \A i \in (e + 1)..Len(ini) :
             i + n \in At(w, Video, k) <=> i \in At(ini, Video, k)
        /\ \A i \in (e + 1)..(e + n) :
             i \in At(w, Video, k) <=>
               k \in Missing(ini) /\ w[i] = Setting(k, values[k])
    BY DEF SameAt
  <2>2. At(w, Video, k) \subseteq 1..Len(w) /\ At(ini, Video, k) \subseteq 1..Len(ini)
    BY <1>3 DEF At
  <2>3. ASSUME NEW i \in 1..Len(w)
        PROVE  \/ i \in 1..e \/ i \in (e + 1)..(e + n)
               \/ i - n \in (e + 1)..Len(ini) /\ (i - n) + n = i
    BY <1>3
  <2>4. CASE At(ini, Video, k) = {}
    <3>1. k \in Missing(ini)
      BY <2>4 DEF Missing
    <3>2. PICK p \in (e + 1)..(e + n) : w[p] = Setting(k, values[k])
      BY <1>3, <3>1
    <3>3. p \in At(w, Video, k)
      BY <2>1, <3>1, <3>2
    <3>4. ASSUME NEW i \in At(w, Video, k) PROVE i = p
      <4>1. i \in 1..Len(w)
        BY <2>2
      <4>2. i \in (e + 1)..(e + n)
        BY <2>1, <2>3, <2>4, <4>1
      <4> QED
        BY <1>3, <2>1, <3>1, <3>2, <4>2
    <3>5. At(w, Video, k) = {p}
      BY <3>3, <3>4
    <3>6. w[p].value = values[k] /\ p \in DOMAIN w
      BY <1>3, <2>2, <3>2, <3>3 DEF Setting
    <3> QED
      BY <3>5, <3>6
  <2>5. CASE At(ini, Video, k) # {}
    <3> DEFINE q == Min(At(ini, Video, k))
    <3>1. q \in At(ini, Video, k) /\ new[q].value = values[k]
      BY <1>2, <2>5
    <3> HIDE DEF q
    <3>2. \A i \in At(ini, Video, k) : i = q
      BY <3>1 DEF CanvasOnce
    <3>3. k \notin Missing(ini)
      BY <2>5 DEF Missing
    <3>4. q \in 1..Len(ini)
      BY <2>2, <3>1
    <3>5. CASE q \in 1..e
      <4>1. q \in At(w, Video, k) /\ w[q].value = values[k] /\ q \in DOMAIN w
        BY <1>3, <2>1, <2>2, <3>1, <3>5
      <4>2. ASSUME NEW i \in At(w, Video, k) PROVE i = q
        <5>1. i \in 1..Len(w)
          BY <2>2
        <5>2. i \in 1..e \/ (i - n \in (e + 1)..Len(ini) /\ (i - n) + n = i)
          BY <2>1, <2>3, <3>3, <5>1
        <5>3. CASE i \in 1..e
          BY <2>1, <3>2, <5>3
        <5>4. CASE i - n \in (e + 1)..Len(ini) /\ (i - n) + n = i
          <6>1. i - n \in At(ini, Video, k)
            BY <2>1, <5>4
          <6>2. i - n = q
            BY <3>2, <6>1
          <6> QED
            BY <3>5, <5>4, <6>2
        <5> QED
          BY <5>2, <5>3, <5>4
      <4> QED
        BY <4>1, <4>2
    <3>6. CASE q \in (e + 1)..Len(ini)
      <4>1. q + n \in At(w, Video, k) /\ w[q + n].value = values[k]
            /\ q + n \in DOMAIN w
        BY <1>3, <2>1, <2>2, <3>1, <3>6
      <4>2. ASSUME NEW i \in At(w, Video, k) PROVE i = q + n
        <5>1. i \in 1..Len(w)
          BY <2>2
        <5>2. i \in 1..e \/ (i - n \in (e + 1)..Len(ini) /\ (i - n) + n = i)
          BY <2>1, <2>3, <3>3, <5>1
        <5>3. CASE i \in 1..e
          <6>1. i = q
            BY <2>1, <3>2, <5>3
          <6> QED
            BY <3>6, <5>3, <6>1
        <5>4. CASE i - n \in (e + 1)..Len(ini) /\ (i - n) + n = i
          <6>1. i - n \in At(ini, Video, k)
            BY <2>1, <5>4
          <6>2. i - n = q
            BY <3>2, <6>1
          <6> QED
            BY <5>4, <6>2
        <5> QED
          BY <5>2, <5>3, <5>4
      <4> QED
        BY <4>1, <4>2
    <3> QED
      BY <3>4, <3>5, <3>6
  <2> QED
    BY <2>4, <2>5
<1>5. CanvasOnce(w)
  BY <1>4 DEF CanvasOnce
<1>6. ASSUME NEW k \in CanvasNames PROVE Value(w, Video, k) = values[k]
  <2>1. PICK p \in DOMAIN w : At(w, Video, k) = {p} /\ w[p].value = values[k]
    BY <1>4
  <2>2. Max({p}) = p
    <3>1. Len(w) \in Nat /\ {p} \in SUBSET (1..Len(w)) /\ {p} # {}
      BY <1>3
    <3>2. Max({p}) \in {p}
      BY <3>1, Extremes, Zenon
    <3> QED
      BY <3>2
  <2>3. Value(w, Video, k) = w[Max(At(w, Video, k))].value
    BY <2>1 DEF Value
  <2> QED
    BY <2>1, <2>2, <2>3
<1> QED
  BY <1>3, <1>5, <1>6 DEF w

\* What is read from a file is a text.
LEMMA ValueIsText ==
  ASSUME NEW ini \in Seq(Line), NEW k
  PROVE  Value(ini, Video, k) \in Text
<1>1. CASE At(ini, Video, k) = {}
  BY <1>1 DEF Value, NoValue, Text, Words
<1>2. CASE At(ini, Video, k) # {}
  <2> DEFINE i == Max(At(ini, Video, k))
  <2>1. At(ini, Video, k) \in SUBSET (1..Len(ini)) /\ Len(ini) \in Nat
    BY DEF At
  <2>2. i \in 1..Len(ini)
    BY <1>2, <2>1, Extremes
  <2> HIDE DEF i
  <2>3. ini[i].value \in Text
    <3>1. ini[i] \in Line
      BY <2>2
    <3> QED
      BY <3>1 DEF Line
  <2>4. Value(ini, Video, k) = ini[i].value
    BY <1>2, Zenon DEF Value, i
  <2> QED
    BY <2>3, <2>4
<1> QED
  BY <1>1, <1>2

\* A canvas that is read has a rate, and its parts are texts.
LEMMA CanvasIsText ==
  ASSUME NEW ini \in Seq(Line)
  PROVE  ReadCanvas(ini) \in Canvases /\ ReadCanvas(ini).fps # NoValue
BY ValueIsText DEF ReadCanvas, Canvases, NoValue, Text, Words

\* What ApplyCanvas writes for a canvas.
LEMMA UpdatesAreValues ==
  ASSUME NEW canvas \in Canvases
  PROVE  /\ Updates(canvas, "0") \in NewValues
         /\ Updates(canvas, "0")["BaseCX"] = canvas.size
         /\ Updates(canvas, "0")["FPSCommon"] = canvas.fps
BY DEF Updates, Canvases, NewValues, CanvasNames, Text, Words

\* ApplyCanvas leaves the machine's own lines; the canvas that it writes is the
\* one that is read.
LEMMA CanvasApplied ==
  ASSUME NEW ini \in Seq(Line), NEW want \in Canvases
  PROVE  /\ ApplyCanvas(ini, want) \in Seq(Line)
         /\ OwnLines(ApplyCanvas(ini, want)) = OwnLines(ini)
         /\ CanvasOnce(ini) =>
              /\ CanvasOnce(ApplyCanvas(ini, want))
              /\ Valid(want) /\ want.fps # NoValue =>
                   ReadCanvas(ApplyCanvas(ini, want)) = want
<1> DEFINE values == Updates(want, "0")
           w      == SetSection(ini, Video, values, CanvasKeys)
<1>1. CASE ~Valid(want)
  BY <1>1 DEF ApplyCanvas
<1>2. CASE Valid(want)
  <2>1. ApplyCanvas(ini, want) = w
    BY <1>2 DEF ApplyCanvas
  <2>2. /\ values \in NewValues
        /\ values["BaseCX"] = want.size /\ values["FPSCommon"] = want.fps
    BY UpdatesAreValues
  <2> HIDE DEF values
  <2>3. w \in Seq(Line)
    BY <2>2, SetSectionRewrites DEF Rewritten
  <2>4. OwnLines(w) = OwnLines(ini)
    BY <2>2, OwnLinesStay
  <2>5. ASSUME CanvasOnce(ini), want.fps # NoValue
        PROVE  ReadCanvas(w) = want
    <3>1. Value(w, Video, "BaseCX") = want.size /\ Value(w, Video, "FPSCommon") = want.fps
      BY <2>2, <2>5, CanvasWritten DEF CanvasNames
    <3> HIDE DEF w
    <3> QED
      BY <2>5, <3>1 DEF ReadCanvas, Canvases
  <2>6. CanvasOnce(ini) => CanvasOnce(w)
    BY <2>2, CanvasWritten
  <2> QED
    BY <2>1, <2>3, <2>4, <2>5, <2>6
<1> QED
  BY <1>1, <1>2

-----------------------------------------------------------------------------
(* Profiles of any lines, on any machines *)

ProfilesAreLines ==
  /\ \A m \in Machines : Profiles[m] \subseteq Seq(Line) \cup {NoProfile}
  /\ VideoPages \subseteq NewValues

Files == Seq(Line) \cup {NoProfile}

ProfileInv == profile \in [Machines -> Files] /\ online.canvas \in Canvases

\* A reception leaves a file a file, with the machine's own lines; it never
\* creates one.
LEMMA WithCanvasFile ==
  ASSUME NEW ini \in Files, online.canvas \in Canvases
  PROVE  /\ WithCanvas(ini) \in Files
         /\ ini # NoProfile => WithCanvas(ini) = ApplyCanvas(ini, online.canvas)
         /\ ini # NoProfile => OwnLines(WithCanvas(ini)) = OwnLines(ini)
         /\ ini = NoProfile => WithCanvas(ini) = NoProfile
BY CanvasApplied DEF WithCanvas, Files

\* Every machine starts with a file of lines, or none.
LEMMA ProfileInvInit ==
  ASSUME ProfilesAreLines, Init
  PROVE  ProfileInv
<1>1. online.canvas \in Canvases
  BY DEF Init, NoCanvas, Canvases, NoValue, Text, Words
<1>2. DOMAIN profile = Machines /\ profile = [m \in Machines |-> profile[m]]
  BY DEF Init
<1>3. \A m \in Machines : profile[m] \in Files
  BY DEF Init, ProfilesAreLines, Files
<1> QED
  BY <1>1, <1>2, <1>3 DEF ProfileInv

\* The canvas that is published is one of texts.
LEMMA PublishedCanvasIsText ==
  ASSUME ProfileInv, NEW m \in Machines
  PROVE  PublishedCanvas(m) \in Canvases
BY CanvasIsText DEF ProfileInv, PublishedCanvas, Files

\* What a step does to a profile: nothing, the canvas online, or a page of OBS.
LEMMA ProfileStep ==
  ASSUME ProfilesAreLines, ProfileInv, [Next]_vars
  PROVE  \/ UNCHANGED profile
         \/ \E m \in Machines :
              profile' = [profile EXCEPT ![m] = WithCanvas(profile[m])]
              /\ UNCHANGED online
         \/ \E m \in Machines, page \in VideoPages :
              /\ profile[m] # NoProfile /\ UNCHANGED online
              /\ profile' = [profile EXCEPT ![m] =
                               SetSection(profile[m], Video, page, CanvasKeys)]
<1>1. CASE UNCHANGED vars
  BY <1>1 DEF vars
<1>2. ASSUME NEW m \in Machines, ReceiveVersion(m) \/ ReceiveStops(m)
      PROVE  /\ UNCHANGED online
             /\ \/ UNCHANGED profile
                \/ profile' = [profile EXCEPT ![m] = WithCanvas(profile[m])]
  BY <1>2 DEF ReceiveVersion, ReceiveStops
<1>3. ASSUME NEW m \in Machines, PublishVersion(m) \/ EditOverlay(m)
      PROVE  UNCHANGED profile
  BY <1>3 DEF PublishVersion, EditOverlay
<1>4. ASSUME NEW m \in Machines, EditCanvas(m)
      PROVE  \E page \in VideoPages :
               /\ profile[m] # NoProfile /\ UNCHANGED online
               /\ profile' = [profile EXCEPT ![m] =
                                SetSection(profile[m], Video, page, CanvasKeys)]
  BY <1>4 DEF EditCanvas
<1> QED
  BY <1>1, <1>2, <1>3, <1>4 DEF Next

\* Every step leaves a file a file.
LEMMA ProfileInvNext ==
  ASSUME ProfilesAreLines, ProfileInv, [Next]_vars
  PROVE  ProfileInv'
<1>1. profile' \in [Machines -> Files]
  <2>1. CASE UNCHANGED profile
    BY <2>1 DEF ProfileInv
  <2>2. ASSUME NEW m \in Machines,
               profile' = [profile EXCEPT ![m] = WithCanvas(profile[m])]
        PROVE  profile' \in [Machines -> Files]
    <3>1. WithCanvas(profile[m]) \in Files
      BY WithCanvasFile DEF ProfileInv
    <3> QED
      BY <2>2, <3>1 DEF ProfileInv
  <2>3. ASSUME NEW m \in Machines, NEW page \in VideoPages, profile[m] # NoProfile,
               profile' = [profile EXCEPT ![m] =
                             SetSection(profile[m], Video, page, CanvasKeys)]
        PROVE  profile' \in [Machines -> Files]
    <3>1. profile[m] \in Seq(Line) /\ page \in NewValues
      BY <2>3 DEF ProfileInv, Files, ProfilesAreLines
    <3>2. SetSection(profile[m], Video, page, CanvasKeys) \in Seq(Line)
      BY <3>1, SetSectionRewrites DEF Rewritten
    <3> QED
      BY <2>3, <3>2 DEF ProfileInv, Files
  <2> QED
    BY <2>1, <2>2, <2>3, ProfileStep
<1>2. online'.canvas \in Canvases
  <2>1. CASE UNCHANGED online
    BY <2>1 DEF ProfileInv
  <2>2. ASSUME NEW m \in Machines, PublishVersion(m)
        PROVE  online'.canvas \in Canvases
    <3>1. online'.canvas = PublishedCanvas(m)
      BY <2>2 DEF PublishVersion
    <3> QED
      BY <3>1, PublishedCanvasIsText
  <2>3. ASSUME NEW m \in Machines,
               \/ ReceiveVersion(m) \/ ReceiveStops(m)
               \/ EditOverlay(m) \/ EditCanvas(m)
        PROVE  UNCHANGED online
    BY <2>3 DEF ReceiveVersion, ReceiveStops, EditOverlay, EditCanvas
  <2>4. CASE UNCHANGED vars
    BY <2>1, <2>4 DEF vars
  <2> QED
    BY <2>1, <2>2, <2>3, <2>4 DEF Next
<1> QED
  BY <1>1, <1>2 DEF ProfileInv

\* Whatever the profiles are, and whatever their users set, no step changes a
\* line of a profile that is not about the canvas, nor its section, nor the
\* order of these lines.
THEOREM EncodersAreKept ==
  ASSUME ProfilesAreLines
  PROVE  Spec => ProfileIsKept
<1> DEFINE Step == \A m \in Machines :
             profile'[m] # profile[m] => OwnLines(profile'[m]) = OwnLines(profile[m])
<1>1. ASSUME ProfileInv, [Next]_vars PROVE Step
  <2>1. CASE UNCHANGED profile
    BY <2>1
  <2>2. ASSUME NEW m \in Machines,
               profile' = [profile EXCEPT ![m] = WithCanvas(profile[m])]
        PROVE  Step
    <3>1. OwnLines(WithCanvas(profile[m])) = OwnLines(profile[m])
      BY <1>1, WithCanvasFile DEF ProfileInv
    <3> QED
      BY <1>1, <2>2, <3>1 DEF ProfileInv
  <2>3. ASSUME NEW m \in Machines, NEW page \in VideoPages, profile[m] # NoProfile,
               profile' = [profile EXCEPT ![m] =
                             SetSection(profile[m], Video, page, CanvasKeys)]
        PROVE  Step
    <3>1. profile[m] \in Seq(Line) /\ page \in NewValues
      BY <1>1, <2>3 DEF ProfileInv, Files, ProfilesAreLines
    <3>2. OwnLines(SetSection(profile[m], Video, page, CanvasKeys))
            = OwnLines(profile[m])
      BY <3>1, OwnLinesStay
    <3> QED
      BY <1>1, <2>3, <3>2 DEF ProfileInv
  <2> QED
    BY <1>1, <2>1, <2>2, <2>3, ProfileStep
<1> QED
  BY <1>1, ProfileInvInit, ProfileInvNext, PTL DEF Spec, ProfileIsKept

-----------------------------------------------------------------------------
(* The canvas *)

\* No profile has two lines for a key of the canvas, and OBS has a size.
CanvasesAreSet ==
  /\ \A m \in Machines : \A ini \in Profiles[m] : ini # NoProfile => CanvasOnce(ini)
  /\ \A page \in VideoPages : page["BaseCX"] # NoValue

VersionsInv ==
  /\ online.version \in Nat
  /\ DOMAIN applied = Machines /\ DOMAIN touched = Machines
  /\ \A m \in Machines :
       applied[m].version \in Nat /\ applied[m].version <= online.version

\* Nothing is online, and nobody has recorded anything.
LEMMA VersionsInvInit == Init => VersionsInv
BY DEF Init, VersionsInv

\* Versions only grow, and a machine records the one online.
LEMMA VersionsInvNext ==
  ASSUME VersionsInv, [Next]_vars
  PROVE  VersionsInv'
<1> USE DEF VersionsInv
<1>1. CASE UNCHANGED vars
  BY <1>1 DEF vars
<1>2. ASSUME NEW m \in Machines,
             \/ ReceiveVersion(m) \/ ReceiveStops(m) \/ PublishVersion(m)
             \/ EditOverlay(m) \/ EditCanvas(m)
      PROVE  VersionsInv'
  <2>1. online'.version \in Nat /\ online'.version >= online.version
        /\ \/ UNCHANGED applied
           \/ \E d : applied' = [applied EXCEPT ![m] =
                                   [version |-> online'.version, digest |-> d]]
    BY <1>2 DEF ReceiveVersion, ReceiveStops, PublishVersion, EditOverlay, EditCanvas
  <2>2. DOMAIN touched' = Machines
    BY <1>2 DEF ReceiveVersion, ReceiveStops, PublishVersion, EditOverlay, EditCanvas
  <2>3. ASSUME NEW n \in Machines
        PROVE  applied'[n].version \in {applied[n].version, online'.version}
    BY <2>1
  <2> QED
    BY <2>1, <2>2, <2>3
<1> QED
  BY <1>1, <1>2 DEF Next

OnceInv == \A m \in Machines : profile[m] # NoProfile => CanvasOnce(profile[m])

\* Who has the version online has a canvas if there is one, even if it is
\* another since: the next publication does not fall back on the one online.
ValidInv ==
  /\ online.version = 0 => ~Valid(online.canvas)
  /\ Valid(online.canvas) => online.canvas.fps # NoValue
  /\ \A m \in Machines :
       /\ applied[m].version = online.version
       /\ Valid(online.canvas) /\ profile[m] # NoProfile
       => Valid(ReadCanvas(profile[m]))

CanvasInv == ProfileInv /\ VersionsInv /\ OnceInv /\ ValidInv /\ SameCanvas

\* Nobody is in step at the start.
LEMMA CanvasInvInit ==
  ASSUME ProfilesAreLines, CanvasesAreSet, Init
  PROVE  CanvasInv
<1>1. ProfileInv
  BY ProfileInvInit
<1>2. VersionsInv
  BY VersionsInvInit
<1>3. OnceInv
  BY DEF Init, OnceInv, CanvasesAreSet
<1>4. ValidInv
  BY DEF Init, ValidInv, Valid, NoCanvas
<1>5. SameCanvas
  BY DEF Init, SameCanvas, InStep
<1> QED
  BY <1>1, <1>2, <1>3, <1>4, <1>5 DEF CanvasInv

\* What a machine has after it wrote the canvas online.
LEMMA CanvasReceived ==
  ASSUME CanvasInv, NEW m \in Machines, profile[m] # NoProfile
  PROVE  /\ CanvasOnce(WithCanvas(profile[m]))
         /\ Valid(online.canvas) => ReadCanvas(WithCanvas(profile[m])) = online.canvas
<1>1. /\ profile[m] \in Seq(Line) /\ online.canvas \in Canvases
      /\ CanvasOnce(profile[m])
      /\ Valid(online.canvas) => online.canvas.fps # NoValue
  BY DEF CanvasInv, ProfileInv, Files, OnceInv, ValidInv
<1>2. WithCanvas(profile[m]) = ApplyCanvas(profile[m], online.canvas)
  BY DEF WithCanvas
<1> QED
  BY <1>1, <1>2, CanvasApplied

\* m receives, whole or not.
LEMMA CanvasInvReceive ==
  ASSUME CanvasInv, NEW m \in Machines,
         UNCHANGED online,
         \/ UNCHANGED <<profile, applied, touched>>
         \/ /\ profile' = [profile EXCEPT ![m] = WithCanvas(profile[m])]
            /\ \/ UNCHANGED <<applied, touched>>
               \/ \E d : /\ applied' = [applied EXCEPT ![m] =
                                          [version |-> online.version, digest |-> d]]
                         /\ touched' = [touched EXCEPT ![m] = FALSE]
  PROVE  OnceInv' /\ ValidInv' /\ SameCanvas'
<1> USE DEF CanvasInv
<1>1. CASE UNCHANGED <<profile, applied, touched>>
  BY <1>1 DEF OnceInv, ValidInv, SameCanvas, InStep
<1>2. ASSUME profile' = [profile EXCEPT ![m] = WithCanvas(profile[m])],
             \/ UNCHANGED <<applied, touched>>
             \/ \E d : /\ applied' = [applied EXCEPT ![m] =
                                        [version |-> online.version, digest |-> d]]
                       /\ touched' = [touched EXCEPT ![m] = FALSE]
      PROVE  OnceInv' /\ ValidInv' /\ SameCanvas'
  <2>1. /\ \A n \in Machines \ {m} : profile'[n] = profile[n]
        /\ profile'[m] = WithCanvas(profile[m])
    BY <1>2 DEF ProfileInv
  <2>2. profile[m] = NoProfile => profile'[m] = NoProfile
    BY <2>1 DEF WithCanvas
  <2>3. profile[m] # NoProfile =>
          /\ CanvasOnce(profile'[m])
          /\ Valid(online.canvas) => ReadCanvas(profile'[m]) = online.canvas
    BY <2>1, CanvasReceived
  <2>4. /\ \A n \in Machines \ {m} :
             applied'[n] = applied[n] /\ touched'[n] = touched[n]
        /\ applied'[m].version \in {applied[m].version, online.version}
        /\ DOMAIN applied' = Machines /\ DOMAIN touched' = Machines
    BY <1>2 DEF VersionsInv
  <2>6. OnceInv'
    BY <2>1, <2>2, <2>3 DEF OnceInv
  <2>7. ValidInv'
    <3>1. ASSUME NEW n \in Machines, applied'[n].version = online.version,
                 Valid(online.canvas), profile'[n] # NoProfile
          PROVE  Valid(ReadCanvas(profile'[n]))
      <4>1. CASE n = m
        BY <2>2, <2>3, <3>1, <4>1
      <4>2. CASE n # m
        BY <2>1, <2>4, <3>1, <4>2 DEF ValidInv
      <4> QED
        BY <4>1, <4>2
    <3> QED
      BY <3>1 DEF ValidInv
  <2>8. SameCanvas'
    <3>1. ASSUME NEW n \in Machines, InStep(n)', profile'[n] # NoProfile,
                 Valid(online.canvas)
          PROVE  ReadCanvas(profile'[n]) = online.canvas
      <4>1. CASE n = m
        BY <2>2, <2>3, <3>1, <4>1
      <4>2. CASE n # m
        BY <2>1, <2>4, <3>1, <4>2 DEF SameCanvas, InStep
      <4> QED
        BY <4>1, <4>2
    <3> QED
      BY <3>1 DEF SameCanvas
  <2> QED
    BY <2>6, <2>7, <2>8
<1> QED
  BY <1>1, <1>2

\* A publication takes the canvas from the publisher's file.
LEMMA CanvasInvPublish ==
  ASSUME CanvasInv, NEW m \in Machines, PublishVersion(m)
  PROVE  OnceInv' /\ ValidInv' /\ SameCanvas'
<1> USE DEF CanvasInv
<1>1. /\ UNCHANGED profile
      /\ online'.version = online.version + 1 /\ online'.canvas = PublishedCanvas(m)
      /\ online.version \in {0, applied[m].version}
      /\ applied' = [applied EXCEPT ![m] = [version |-> online.version + 1,
                                            digest |-> Digest(m)]]
      /\ touched' = [touched EXCEPT ![m] = FALSE]
  BY DEF PublishVersion
<1>2. /\ online.version \in Nat
      /\ \A n \in Machines : applied[n].version \in Nat
                             /\ applied[n].version <= online.version
  BY DEF VersionsInv
<1>3. /\ applied'[m].version = online.version + 1
      /\ \A n \in Machines \ {m} :
           applied'[n].version \in Nat /\ applied'[n].version < online'.version
      /\ DOMAIN applied' = Machines /\ DOMAIN touched' = Machines
  BY <1>1, <1>2 DEF VersionsInv
<1>5. OnceInv'
  BY <1>1 DEF OnceInv
<1>6. profile[m] # NoProfile /\ Valid(online'.canvas) =>
        ReadCanvas(profile[m]) = online'.canvas
  <2>1. CASE profile[m] # NoProfile /\ Valid(ReadCanvas(profile[m]))
    BY <1>1, <2>1 DEF PublishedCanvas
  <2>2. CASE profile[m] # NoProfile /\ ~Valid(ReadCanvas(profile[m]))
    <3>1. online'.canvas = online.canvas
      BY <1>1, <2>2 DEF PublishedCanvas
    <3>2. ~Valid(online.canvas)
      BY <1>1, <2>2 DEF ValidInv
    <3> QED
      BY <3>1, <3>2
  <2> QED
    BY <2>1, <2>2
<1>7. Valid(online'.canvas) => online'.canvas.fps # NoValue
  <2>1. CASE profile[m] # NoProfile /\ Valid(ReadCanvas(profile[m]))
    <3>1. profile[m] \in Seq(Line)
      BY <2>1 DEF ProfileInv, Files
    <3> QED
      BY <1>1, <2>1, <3>1, CanvasIsText DEF PublishedCanvas
  <2>2. CASE ~(profile[m] # NoProfile /\ Valid(ReadCanvas(profile[m])))
    BY <1>1, <2>2 DEF PublishedCanvas, ValidInv
  <2> QED
    BY <2>1, <2>2
<1>8. \A n \in Machines \ {m} : applied'[n].version # online'.version
  BY <1>1, <1>2, <1>3
<1>9. ValidInv'
  BY <1>1, <1>2, <1>6, <1>7, <1>8 DEF ValidInv
<1>10. SameCanvas'
  BY <1>1, <1>6, <1>8 DEF SameCanvas, InStep
<1> QED
  BY <1>5, <1>9, <1>10

\* An edit of the scenes leaves the files.
LEMMA CanvasInvOverlay ==
  ASSUME CanvasInv, NEW m \in Machines, EditOverlay(m)
  PROVE  OnceInv' /\ ValidInv' /\ SameCanvas'
<1> USE DEF CanvasInv
<1>1. UNCHANGED <<online, profile, applied>>
      /\ touched' = [touched EXCEPT ![m] = TRUE]
  BY DEF EditOverlay
<1>2. OnceInv' /\ ValidInv'
  BY <1>1 DEF OnceInv, ValidInv
<1>3. \A n \in Machines : ~touched'[n] => ~touched[n]
  BY <1>1 DEF VersionsInv
<1>4. SameCanvas'
  BY <1>1, <1>3 DEF SameCanvas, InStep
<1> QED
  BY <1>2, <1>4

\* An edit of the canvas rewrites one file, and its machine is out of step.
LEMMA CanvasInvCanvas ==
  ASSUME ProfilesAreLines, CanvasesAreSet, CanvasInv, NEW m \in Machines, EditCanvas(m)
  PROVE  OnceInv' /\ ValidInv' /\ SameCanvas'
<1> USE DEF CanvasInv
<1>1. PICK page \in VideoPages :
        profile' = [profile EXCEPT ![m] =
                      SetSection(profile[m], Video, page, CanvasKeys)]
  BY DEF EditCanvas
<1>2. /\ UNCHANGED <<online, applied>> /\ profile[m] # NoProfile
      /\ touched' = [touched EXCEPT ![m] = TRUE]
  BY DEF EditCanvas
<1> DEFINE w == SetSection(profile[m], Video, page, CanvasKeys)
<1>3. profile'[m] = w /\ \A n \in Machines \ {m} : profile'[n] = profile[n]
  BY <1>1 DEF ProfileInv
<1>4. /\ touched'[m] /\ \A n \in Machines \ {m} : touched'[n] = touched[n]
      /\ DOMAIN touched' = Machines
  BY <1>2 DEF VersionsInv
<1>5. CanvasOnce(w) /\ Valid(ReadCanvas(w))
  <2>1. /\ profile[m] \in Seq(Line) /\ page \in NewValues /\ CanvasOnce(profile[m])
        /\ page["BaseCX"] # NoValue
    BY <1>2 DEF ProfileInv, Files, ProfilesAreLines, CanvasesAreSet, OnceInv
  <2>2. CanvasOnce(w) /\ Value(w, Video, "BaseCX") = page["BaseCX"]
    BY <2>1, CanvasWritten DEF CanvasNames
  <2> HIDE DEF w
  <2> QED
    BY <2>1, <2>2 DEF Valid, ReadCanvas
<1> HIDE DEF w
<1>7. OnceInv'
  BY <1>3, <1>5 DEF OnceInv
<1>8. ValidInv'
  BY <1>2, <1>3, <1>5 DEF ValidInv
<1>9. SameCanvas'
  BY <1>2, <1>3, <1>4 DEF SameCanvas, InStep
<1> QED
  BY <1>7, <1>8, <1>9

\* Every step keeps the invariant.
LEMMA CanvasInvNext ==
  ASSUME ProfilesAreLines, CanvasesAreSet, CanvasInv, [Next]_vars
  PROVE  CanvasInv'
<1>1. ProfileInv' /\ VersionsInv'
  BY ProfileInvNext, VersionsInvNext DEF CanvasInv
<1>2. OnceInv' /\ ValidInv' /\ SameCanvas'
  <2>1. CASE UNCHANGED vars
    BY <2>1 DEF vars, CanvasInv, OnceInv, ValidInv, SameCanvas, InStep
  <2>2. ASSUME NEW m \in Machines, ReceiveVersion(m)
        PROVE  OnceInv' /\ ValidInv' /\ SameCanvas'
    BY <2>2, CanvasInvReceive DEF ReceiveVersion
  <2>3. ASSUME NEW m \in Machines, ReceiveStops(m)
        PROVE  OnceInv' /\ ValidInv' /\ SameCanvas'
    BY <2>3, CanvasInvReceive DEF ReceiveStops
  <2> QED
    BY <2>1, <2>2, <2>3, CanvasInvPublish, CanvasInvOverlay, CanvasInvCanvas DEF Next
<1> QED
  BY <1>1, <1>2 DEF CanvasInv

\* The machines in step have the canvas that is online, whatever lines their
\* profiles have, as long as no profile has a key of the canvas twice.
THEOREM CanvasIsShared ==
  ASSUME ProfilesAreLines, CanvasesAreSet
  PROVE  Spec => []SameCanvas
<1>1. CanvasInv => SameCanvas
  BY DEF CanvasInv
<1> QED
  BY <1>1, CanvasInvInit, CanvasInvNext, PTL DEF Spec

-----------------------------------------------------------------------------
(* Paths *)

NoBackslash(s) == \A i \in 1..Len(s) : s[i] # "\\"
Trimmed(s) == s = <<>> \/ s[Len(s)] # Slash

\* normalizePath gives one kind of separators, and drops the last one.
LEMMA NormalIs ==
  ASSUME NEW P, Slash \in P, NEW s \in Seq(P)
  PROVE  /\ Normal(s) \in Seq(P) /\ Len(Normal(s)) <= Len(s)
         /\ \A i \in 1..Len(Normal(s)) :
              Normal(s)[i] = IF s[i] = "\\" THEN Slash ELSE s[i]
         /\ NoBackslash(Normal(s))
<1> DEFINE t == [i \in DOMAIN s |-> IF s[i] = "\\" THEN Slash ELSE s[i]]
<1>1. Normal(s) = IF t # <<>> /\ t[Len(t)] = Slash
                  THEN SubSeq(t, 1, Len(t) - 1) ELSE t
  BY Zenon DEF Normal, Last, Front
<1>2. /\ t \in Seq(P) /\ Len(t) = Len(s) /\ Len(s) \in Nat
      /\ \A i \in 1..Len(s) : t[i] = IF s[i] = "\\" THEN Slash ELSE s[i]
  <2>1. t \in [1..Len(s) -> P] /\ Len(s) \in Nat
    OBVIOUS
  <2>2. \A i \in 1..Len(s) : t[i] = IF s[i] = "\\" THEN Slash ELSE s[i]
    OBVIOUS
  <2> HIDE DEF t
  <2> QED
    BY <2>1, <2>2, FunctionIsSeq, Zenon
<1>3. Slash # "\\"
  BY DEF Slash
<1> HIDE DEF t
<1>4. CASE t # <<>> /\ t[Len(t)] = Slash
  <2>1. Normal(s) = SubSeq(t, 1, Len(t) - 1) /\ Len(t) >= 1
    BY <1>1, <1>2, <1>4
  <2>2. /\ Normal(s) \in Seq(P) /\ Len(Normal(s)) = Len(s) - 1
        /\ \A i \in 1..(Len(s) - 1) : Normal(s)[i] = t[i]
    BY <1>2, <2>1
  <2> QED
    BY <1>2, <1>3, <2>1, <2>2 DEF NoBackslash
<1>5. CASE ~(t # <<>> /\ t[Len(t)] = Slash)
  <2>1. Normal(s) = t
    BY <1>1, <1>5
  <2> QED
    BY <1>2, <1>3, <2>1 DEF NoBackslash
<1> QED
  BY <1>4, <1>5

\* A text that is normal already stays.
LEMMA NormalStays ==
  ASSUME NEW P, NEW s \in Seq(P), NoBackslash(s), Trimmed(s)
  PROVE  Normal(s) = s
<1> DEFINE t == [i \in DOMAIN s |-> IF s[i] = "\\" THEN Slash ELSE s[i]]
<1>1. Normal(s) = IF t # <<>> /\ t[Len(t)] = Slash
                  THEN SubSeq(t, 1, Len(t) - 1) ELSE t
  BY Zenon DEF Normal, Last, Front
<1>2. t = s
  BY DEF NoBackslash
<1> HIDE DEF t
<1> QED
  BY <1>1, <1>2 DEF Trimmed

\* HasFolder compares the pieces of the folder one by one.
LEMMA HasFolderIs ==
  ASSUME NEW P, Slash \in P, NEW s \in Seq(P), NEW d \in Seq(P)
  PROVE  HasFolder(s, d) <=>
           /\ Len(Normal(d)) <= Len(Normal(s))
           /\ \A i \in 1..Len(Normal(d)) : Lower[Normal(d)[i]] = Lower[Normal(s)[i]]
<1> DEFINE a == Folded(Normal(d))
           b == Folded(Normal(s))
<1>1. Normal(s) \in Seq(P) /\ Normal(d) \in Seq(P)
  BY NormalIs
<1> DEFINE L == {Lower[Normal(d)[i]] : i \in 1..Len(Normal(d))}
                \cup {Lower[Normal(s)[i]] : i \in 1..Len(Normal(s))}
<1>2. /\ a \in Seq(L) /\ Len(a) = Len(Normal(d))
      /\ \A i \in 1..Len(a) : a[i] = Lower[Normal(d)[i]]
  <2>1. a = [i \in 1..Len(Normal(d)) |-> Lower[Normal(d)[i]]]
    BY <1>1 DEF Folded
  <2>2. a \in [1..Len(Normal(d)) -> L] /\ Len(Normal(d)) \in Nat
    BY <1>1, <2>1
  <2> HIDE DEF a, L
  <2>3. a \in Seq(L) /\ Len(a) = Len(Normal(d))
    BY <2>2, FunctionIsSeq, Zenon
  <2> QED
    BY <2>1, <2>3
<1>3. /\ b \in Seq(L) /\ Len(b) = Len(Normal(s))
      /\ \A i \in 1..Len(b) : b[i] = Lower[Normal(s)[i]]
  <2>1. b = [i \in 1..Len(Normal(s)) |-> Lower[Normal(s)[i]]]
    BY <1>1 DEF Folded
  <2>2. b \in [1..Len(Normal(s)) -> L] /\ Len(Normal(s)) \in Nat
    BY <1>1, <2>1
  <2> HIDE DEF b, L
  <2>3. b \in Seq(L) /\ Len(b) = Len(Normal(s))
    BY <2>2, FunctionIsSeq, Zenon
  <2> QED
    BY <2>1, <2>3
<1>4. HasFolder(s, d) <=>
        Len(a) <= Len(b) /\ SubSeq(a, 1, Len(a)) = SubSeq(b, 1, Len(a))
  BY Zenon DEF HasFolder, IsPrefix
<1> HIDE DEF a, b, L
<1>5. ASSUME Len(a) <= Len(b)
      PROVE  SubSeq(a, 1, Len(a)) = SubSeq(b, 1, Len(a)) <=>
               \A i \in 1..Len(a) : a[i] = b[i]
  <2>1. /\ SubSeq(a, 1, Len(a)) \in Seq(L) /\ Len(SubSeq(a, 1, Len(a))) = Len(a)
        /\ \A i \in 1..Len(a) : SubSeq(a, 1, Len(a))[i] = a[i]
    BY <1>2
  <2>2. /\ SubSeq(b, 1, Len(a)) \in Seq(L) /\ Len(SubSeq(b, 1, Len(a))) = Len(a)
        /\ \A i \in 1..Len(a) : SubSeq(b, 1, Len(a))[i] = b[i]
    BY <1>2, <1>3, <1>5
  <2> QED
    BY <2>1, <2>2
<1> QED
  BY <1>1, <1>2, <1>3, <1>4, <1>5

\* The beginnings of a text, each one piece longer than the one before.
LEMMA Starts ==
  ASSUME NEW P, NEW s \in Seq(P)
  PROVE  /\ SubSeq(s, 1, 0) = <<>> /\ SubSeq(s, 1, Len(s)) = s /\ s \o <<>> = s
         /\ \A k \in 1..Len(s) :
              SubSeq(s, 1, k) = SubSeq(s, 1, k - 1) \o <<s[k]>>
OBVIOUS

\* Two sequences with the same items are equal.
LEMMA SameItems ==
  ASSUME NEW P, NEW a \in Seq(P), NEW b \in Seq(P), Len(a) = Len(b),
         \A i \in 1..Len(a) : a[i] = b[i]
  PROVE  a = b
OBVIOUS

\* FlattenSeq goes through the sequences one after the other.
Accumulates(g, q, N) ==
  /\ N \in Nat \ {0} /\ Len(q) = N
  /\ g = [i \in 1..N |-> g[i]]
  /\ g[1] = q[1] /\ \A i \in 2..N : g[i] = g[i - 1] \o q[i]

\* What accumulates so is what FlattenSeq returns.
LEMMA Flattened ==
  ASSUME NEW q, NEW N, NEW g, Accumulates(g, q, N)
  PROVE  FlattenSeq(q) = g[N]
<1> USE DEF Accumulates
<1> DEFINE Loop(f) == f = [i \in 1..Len(q) |->
                             IF i = 1 THEN q[i] ELSE f[i - 1] \o q[i]]
           f0 == CHOOSE f : Loop(f)
<1>1. Loop(g)
  <2>1. ASSUME NEW i \in 1..N
        PROVE  g[i] = IF i = 1 THEN q[i] ELSE g[i - 1] \o q[i]
    <3>1. CASE i = 1
      BY <3>1
    <3>2. CASE i # 1
      <4>1. i \in 2..N
        BY <3>2
      <4> QED
        BY <3>2, <4>1
    <3> QED
      BY <3>1, <3>2
  <2> QED
    BY <2>1
<1>2. Loop(f0)
  BY <1>1, Zenon
<1>3. FlattenSeq(q) = f0[N]
  <2>1. Len(q) # 0
    OBVIOUS
  <2> QED
    BY <2>1, Zenon DEF FlattenSeq
<1> HIDE DEF f0
<1>4. \A i \in 1..N : f0[i] = IF i = 1 THEN q[i] ELSE f0[i - 1] \o q[i]
  BY <1>2
<1>5. \A i \in 1..N : f0[i] = g[i]
  <2> DEFINE G == {i \in 1..N : f0[i] = g[i]}
  <2>1. 1 \in G
    BY <1>4
  <2>2. ASSUME NEW i \in (1 + 1)..N, i - 1 \in G PROVE i \in G
    <3>1. i \in 1..N /\ i # 1 /\ i \in 2..N
      OBVIOUS
    <3>2. f0[i] = f0[i - 1] \o q[i]
      BY <1>4, <3>1
    <3> QED
      BY <2>2, <3>1, <3>2
  <2> HIDE DEF G
  <2>3. 1 \in Nat /\ N \in Nat /\ 1 <= N
    OBVIOUS
  <2>4. \A i \in 1..N : i \in G
    BY <2>1, <2>2, <2>3, Climb, Zenon
  <2> QED
    BY <2>4 DEF G
<1> QED
  BY <1>3, <1>5

NoToken(s) == \A i \in 1..Len(s) : s[i] # AssetsToken

\* Expand puts the folder where the token is, and copies the rest.
LEMMA ExpandToken ==
  ASSUME NEW P, NEW r \in Seq(P), NoToken(r), NEW d, Normal(d) \in Seq(P),
         AssetsToken \in P
  PROVE  Expand(<<AssetsToken>> \o r, d) = Normal(d) \o r
<1> DEFINE o == <<AssetsToken>> \o r
           D == Normal(d)
           q == [i \in DOMAIN o |-> IF o[i] = AssetsToken THEN Normal(d) ELSE <<o[i]>>]
           N == Len(r) + 1
           w == D \o r
           g == [i \in 1..N |-> SubSeq(w, 1, Len(D) + (i - 1))]
<1>1. /\ o \in Seq(P) /\ Len(o) = N /\ DOMAIN o = 1..N /\ N \in Nat \ {0}
      /\ o[1] = AssetsToken /\ \A i \in 2..N : o[i] = r[i - 1]
  OBVIOUS
<1>2. /\ Len(q) = N /\ q[1] = D
      /\ \A i \in 2..N : q[i] = <<r[i - 1]>>
  <2>1. q \in [1..N -> Seq(P)]
    BY <1>1
  <2>2. q[1] = D
    BY <1>1
  <2>3. ASSUME NEW i \in 2..N PROVE q[i] = <<r[i - 1]>>
    BY <1>1 DEF NoToken
  <2> HIDE DEF q
  <2>4. Len(q) = N
    BY <1>1, <2>1
  <2> QED
    BY <2>2, <2>3, <2>4
<1>3. /\ w \in Seq(P) /\ Len(w) = Len(D) + Len(r) /\ Len(D) \in Nat
      /\ \A i \in 1..Len(D) : w[i] = D[i]
      /\ \A i \in 1..Len(r) : w[Len(D) + i] = r[i]
  BY JoinedTwo DEF IsPair
<1> HIDE DEF w, D
<1>4. g[1] = q[1]
  <2>1. g[1] = SubSeq(w, 1, Len(D))
    BY <1>1, <1>3
  <2>2. SubSeq(w, 1, Len(D)) = D
    <3>1. /\ SubSeq(w, 1, Len(D)) \in Seq(P) /\ Len(SubSeq(w, 1, Len(D))) = Len(D)
          /\ \A i \in 1..Len(D) : SubSeq(w, 1, Len(D))[i] = D[i]
      BY <1>3
    <3>2. D \in Seq(P)
      BY DEF D
    <3> QED
      BY <3>1, <3>2, SameItems
  <2> QED
    BY <1>2, <2>1, <2>2
<1>5. ASSUME NEW i \in 2..N PROVE g[i] = g[i - 1] \o q[i]
  <2> DEFINE k == Len(D) + (i - 1)
  <2>1. i \in 1..N /\ i - 1 \in 1..N /\ i - 1 \in 1..Len(r)
    BY <1>1
  <2>2. k \in 1..Len(w) /\ w[k] = r[i - 1] /\ Len(D) + ((i - 1) - 1) = k - 1
    <3> DEFINE j == i - 1
    <3>1. j \in 1..Len(r) /\ k = Len(D) + j
      BY <2>1
    <3> HIDE DEF j, k
    <3>2. k \in 1..Len(w) /\ w[k] = r[j] /\ Len(D) + (j - 1) = k - 1
      BY <1>3, <3>1
    <3> QED
      BY <3>2 DEF j
  <2>3. g[i] = SubSeq(w, 1, k) /\ g[i - 1] = SubSeq(w, 1, k - 1)
    BY <2>1, <2>2
  <2> HIDE DEF k
  <2>4. SubSeq(w, 1, k) = SubSeq(w, 1, k - 1) \o <<w[k]>>
    BY <1>3, <2>2, Starts
  <2>5. q[i] = <<r[i - 1]>>
    BY <1>2
  <2> HIDE DEF g, q
  <2> QED
    BY <2>2, <2>3, <2>4, <2>5
<1>6. FlattenSeq(q) = g[N]
  <2>1. DOMAIN g = 1..N /\ g = [i \in 1..N |-> g[i]]
    OBVIOUS
  <2> HIDE DEF g, q, N
  <2> QED
    <3>1. Accumulates(g, q, N)
      BY <1>1, <1>2, <1>4, <1>5, <2>1 DEF Accumulates
    <3> QED
      BY <3>1, Flattened, Zenon
<1>7. g[N] = w
  <2>1. g[N] = SubSeq(w, 1, Len(w))
    BY <1>1, <1>3
  <2>2. SubSeq(w, 1, Len(w)) = w
    BY <1>3, Starts
  <2> QED
    BY <2>1, <2>2
<1> QED
  BY <1>6, <1>7, Zenon DEF Expand, w, D

\* Without a token a text is copied.
LEMMA ExpandNothing ==
  ASSUME NEW P, NEW s \in Seq(P), NoToken(s), NEW d
  PROVE  Expand(s, d) = s
<1> DEFINE q == [i \in DOMAIN s |-> IF s[i] = AssetsToken THEN Normal(d) ELSE <<s[i]>>]
           N == Len(s)
           g == [i \in 1..N |-> SubSeq(s, 1, i)]
<1>1. q = [i \in 1..N |-> <<s[i]>>] /\ N \in Nat
  BY DEF NoToken
<1>2. /\ Len(q) = N
      /\ \A i \in 1..N : q[i] = <<s[i]>>
  <2>1. q \in [1..N -> Seq(P)]
    <3>1. \A i \in 1..N : <<s[i]>> \in Seq(P)
      OBVIOUS
    <3> HIDE DEF q
    <3> QED
      BY <1>1, <3>1
  <2> HIDE DEF q, N
  <2> QED
    BY <1>1, <2>1
<1>3. CASE N = 0
  <2>1. s = <<>>
    BY <1>3
  <2>2. q = <<>>
    BY <1>1, <1>3
  <2>3. FlattenSeq(q) = q
    BY <1>2, <1>3, Zenon DEF FlattenSeq
  <2> QED
    BY <2>1, <2>2, <2>3, Zenon DEF Expand
<1>4. CASE N # 0
  <2>1. g[1] = q[1]
    <3>1. 1 \in 1..N /\ g[1] = SubSeq(s, 1, 1)
      BY <1>1, <1>4
    <3>2. SubSeq(s, 1, 1) = <<s[1]>>
      <4>1. SubSeq(s, 1, 1) = SubSeq(s, 1, 0) \o <<s[1]>> /\ SubSeq(s, 1, 0) = <<>>
        <5>1. 1 \in 1..Len(s) /\ 1 - 1 = 0
          BY <3>1
        <5> QED
          BY <5>1, Starts
      <4>2. <<>> \o <<s[1]>> = <<s[1]>>
        OBVIOUS
      <4> QED
        BY <4>1, <4>2
    <3> QED
      BY <1>2, <3>1, <3>2
  <2>2. ASSUME NEW i \in 2..N PROVE g[i] = g[i - 1] \o q[i]
    <3>1. g[i] = SubSeq(s, 1, i) /\ g[i - 1] = SubSeq(s, 1, i - 1)
      BY <1>1
    <3>2. SubSeq(s, 1, i) = SubSeq(s, 1, i - 1) \o <<s[i]>>
      BY Starts
    <3>3. q[i] = <<s[i]>>
      BY <1>1, <1>2
    <3> HIDE DEF g, q
    <3> QED
      BY <3>1, <3>2, <3>3
  <2>3. FlattenSeq(q) = g[N]
    <3>1. DOMAIN g = 1..N /\ g = [i \in 1..N |-> g[i]] /\ N \in Nat \ {0}
      BY <1>1, <1>4
    <3> HIDE DEF g, q, N
    <3> QED
      BY <1>2, <2>1, <2>2, <3>1, Flattened DEF Accumulates
  <2>4. g[N] = s
    <3>1. g[N] = SubSeq(s, 1, N)
      BY <1>1, <1>4
    <3> QED
      BY <3>1
  <2> QED
    BY <2>3, <2>4, Zenon DEF Expand
<1> QED
  BY <1>3, <1>4

\* Texts: no token, at most one separator at the end, and in the folder of m or
\* in the folder of no machine; an absolute path looks like one.
FarPath(P, s) ==
  /\ s \in Seq(P) /\ NoToken(s)
  /\ \A n \in Machines : ~HasFolder(s, Dir[n])
  /\ Absolute(s) => LooksLikePath(s)

OwnPath(P, s, m) ==
  /\ s \in Seq(P) /\ NoToken(s)
  /\ HasFolder(s, Dir[m]) /\ Trimmed(Normal(s))

PathOf(P, s, m) == OwnPath(P, s, m) \/ FarPath(P, s)

\* The folders are named, and the users do not type the token.
PathsAreTexts(P) ==
  /\ Slash \in P /\ AssetsToken \in P /\ AssetsToken # Slash
  /\ \A m \in Machines :
       /\ Dir[m] \in Seq(P) /\ NoToken(Dir[m])
       /\ Normal(Dir[m]) # <<>> /\ Trimmed(Normal(Dir[m]))
       /\ \A s \in Typed[m] : PathOf(P, s, m)

\* What is published of a path of the folder.
TokenPath(P, o) ==
  \E r \in Seq(P) :
    /\ o = <<AssetsToken>> \o r
    /\ NoToken(r) /\ NoBackslash(r) /\ Trimmed(r)

\* The folder of a machine, normalised, is a text without separators of Windows
\* and without the token.
LEMMA FolderIs ==
  ASSUME NEW P, PathsAreTexts(P), NEW m \in Machines
  PROVE  /\ Dir[m] # <<>> /\ Normal(Dir[m]) \in Seq(P)
         /\ Len(Normal(Dir[m])) \in Nat \ {0}
         /\ NoBackslash(Normal(Dir[m])) /\ NoToken(Normal(Dir[m]))
<1>1. /\ Slash \in P /\ AssetsToken # Slash
      /\ Dir[m] \in Seq(P) /\ NoToken(Dir[m]) /\ Normal(Dir[m]) # <<>>
  BY DEF PathsAreTexts
<1>2. /\ Normal(Dir[m]) \in Seq(P) /\ Len(Normal(Dir[m])) <= Len(Dir[m])
      /\ \A i \in 1..Len(Normal(Dir[m])) :
           Normal(Dir[m])[i] = IF Dir[m][i] = "\\" THEN Slash ELSE Dir[m][i]
      /\ NoBackslash(Normal(Dir[m]))
  BY <1>1, NormalIs
<1>3. NoToken(Normal(Dir[m]))
  BY <1>1, <1>2 DEF NoToken
<1>4. Len(Normal(Dir[m])) \in Nat \ {0}
  BY <1>1, <1>2
<1>5. Dir[m] # <<>>
  BY <1>1, <1>2, <1>4
<1> QED
  BY <1>2, <1>3, <1>4, <1>5

\* Tokenize, of a path of the folder and of another.
LEMMA Tokenized ==
  ASSUME NEW P, PathsAreTexts(P), NEW m \in Machines, NEW s, PathOf(P, s, m)
  PROVE  /\ OwnPath(P, s, m) => TokenPath(P, Tokenize(s, Dir[m]))
         /\ FarPath(P, s) => Tokenize(s, Dir[m]) = s
<1> DEFINE D == Normal(Dir[m])
           c == Normal(s)
           r == SubSeq(c, Len(D) + 1, Len(c))
<1>1. /\ Dir[m] # <<>> /\ D \in Seq(P) /\ Len(D) \in Nat \ {0}
      /\ Slash \in P /\ AssetsToken # Slash /\ Dir[m] \in Seq(P)
  BY FolderIs DEF PathsAreTexts
<1>2. ASSUME OwnPath(P, s, m) PROVE TokenPath(P, Tokenize(s, Dir[m]))
  <2>1. s \in Seq(P) /\ NoToken(s) /\ HasFolder(s, Dir[m]) /\ Trimmed(c)
    BY <1>2 DEF OwnPath
  <2>2. /\ c \in Seq(P) /\ Len(c) <= Len(s) /\ NoBackslash(c)
        /\ \A i \in 1..Len(c) : c[i] = IF s[i] = "\\" THEN Slash ELSE s[i]
    BY <1>1, <2>1, NormalIs
  <2>3. NoToken(c)
    BY <1>1, <2>1, <2>2 DEF NoToken
  <2>4. Tokenize(s, Dir[m]) = <<AssetsToken>> \o r
    BY <1>1, <2>1 DEF Tokenize
  <2>5. Len(D) <= Len(c)
    BY <1>1, <2>1, HasFolderIs
  <2> HIDE DEF D, c
  <2>6. /\ r \in Seq(P) /\ Len(r) = Len(c) - Len(D)
        /\ \A i \in 1..Len(r) : r[i] = c[Len(D) + i]
    BY <1>1, <2>2, <2>5
  <2> HIDE DEF r
  <2>7. NoToken(r) /\ NoBackslash(r) /\ Trimmed(r)
    <3>1. \A i \in 1..Len(r) : Len(D) + i \in 1..Len(c)
      BY <1>1, <2>2, <2>5, <2>6
    <3>2. NoToken(r) /\ NoBackslash(r)
      BY <2>2, <2>3, <2>6, <3>1 DEF NoToken, NoBackslash
    <3>3. ASSUME r # <<>> PROVE r[Len(r)] # Slash
      <4>1. Len(r) \in 1..Len(r) /\ Len(D) + Len(r) = Len(c) /\ c # <<>>
        BY <1>1, <2>2, <2>5, <2>6, <3>3
      <4>2. r[Len(r)] = c[Len(c)]
        BY <2>6, <4>1
      <4> QED
        BY <2>1, <4>1, <4>2 DEF Trimmed
    <3> QED
      BY <3>2, <3>3 DEF Trimmed
  <2> QED
    BY <2>4, <2>6, <2>7 DEF TokenPath
<1>3. ASSUME FarPath(P, s) PROVE Tokenize(s, Dir[m]) = s
  BY <1>3 DEF FarPath, Tokenize
<1> QED
  BY <1>2, <1>3

\* What comes out of Expand is a path of the machine, and Tokenize gives it back.
LEMMA RoundTrip ==
  ASSUME NEW P, PathsAreTexts(P), NEW m \in Machines, NEW o,
         TokenPath(P, o) \/ FarPath(P, o)
  PROVE  /\ PathOf(P, Expand(o, Dir[m]), m)
         /\ Tokenize(Expand(o, Dir[m]), Dir[m]) = o
<1> DEFINE D == Normal(Dir[m])
<1>1. /\ Dir[m] # <<>> /\ D \in Seq(P) /\ Len(D) \in Nat \ {0}
      /\ NoBackslash(D) /\ NoToken(D) /\ Trimmed(D)
      /\ Slash \in P /\ AssetsToken \in P /\ Dir[m] \in Seq(P)
  BY FolderIs DEF PathsAreTexts
<1>2. CASE FarPath(P, o)
  <2>1. Expand(o, Dir[m]) = o
    BY <1>2, ExpandNothing DEF FarPath
  <2>2. PathOf(P, o, m)
    BY <1>2 DEF PathOf
  <2> QED
    BY <1>2, <2>1, <2>2, Tokenized
<1>3. CASE TokenPath(P, o)
  <2>1. PICK r \in Seq(P) :
          /\ o = <<AssetsToken>> \o r
          /\ NoToken(r) /\ NoBackslash(r) /\ Trimmed(r)
    BY <1>3 DEF TokenPath
  <2> DEFINE s == D \o r
  <2>2. Expand(o, Dir[m]) = s
    BY <1>1, <2>1, ExpandToken
  <2> HIDE DEF D
  <2>3. /\ s \in Seq(P) /\ Len(s) = Len(D) + Len(r)
        /\ \A i \in 1..Len(D) : s[i] = D[i]
        /\ \A i \in 1..Len(r) : s[Len(D) + i] = r[i]
    BY <1>1, JoinedTwo DEF IsPair
  <2> HIDE DEF s
  <2>4. ASSUME NEW i \in 1..Len(s)
        PROVE  i \in 1..Len(D) \/ (i - Len(D) \in 1..Len(r) /\ Len(D) + (i - Len(D)) = i)
    BY <1>1, <2>3
  <2>5. NoToken(s) /\ NoBackslash(s)
    <3>1. ASSUME NEW i \in 1..Len(s) PROVE s[i] # AssetsToken /\ s[i] # "\\"
      <4>1. CASE i \in 1..Len(D)
        BY <1>1, <2>3, <4>1 DEF NoToken, NoBackslash
      <4>2. CASE i - Len(D) \in 1..Len(r) /\ Len(D) + (i - Len(D)) = i
        <5> DEFINE j == i - Len(D)
        <5>1. j \in 1..Len(r) /\ s[i] = r[j]
          BY <2>3, <4>2
        <5> HIDE DEF j
        <5> QED
          BY <2>1, <5>1 DEF NoToken, NoBackslash
      <4> QED
        BY <2>4, <4>1, <4>2
    <3> QED
      BY <3>1 DEF NoToken, NoBackslash
  <2>6. Trimmed(s)
    <3>1. CASE r = <<>>
      <4>1. Len(s) = Len(D) /\ s[Len(s)] = D[Len(D)] /\ D # <<>>
        BY <1>1, <2>3, <3>1
      <4> QED
        BY <1>1, <4>1 DEF Trimmed
    <3>2. CASE r # <<>>
      <4>1. Len(r) \in 1..Len(r) /\ Len(s) = Len(D) + Len(r)
        BY <1>1, <2>3, <3>2
      <4>2. s[Len(s)] = r[Len(r)]
        BY <2>3, <4>1
      <4> QED
        BY <2>1, <3>2, <4>2 DEF Trimmed
    <3> QED
      BY <3>1, <3>2
  <2>7. Normal(s) = s
    BY <2>3, <2>5, <2>6, NormalStays
  <2>8. HasFolder(s, Dir[m])
    <3>1. Len(D) <= Len(s) /\ \A i \in 1..Len(D) : Lower[D[i]] = Lower[s[i]]
      BY <1>1, <2>3
    <3> QED
      BY <1>1, <2>3, <2>7, <3>1, HasFolderIs DEF D
  <2>9. OwnPath(P, s, m)
    BY <2>3, <2>5, <2>6, <2>7, <2>8 DEF OwnPath
  <2>10. Tokenize(s, Dir[m]) = <<AssetsToken>> \o SubSeq(s, Len(D) + 1, Len(s))
    BY <1>1, <2>7, <2>8 DEF Tokenize, D
  <2>11. SubSeq(s, Len(D) + 1, Len(s)) = r
    <3> DEFINE z == SubSeq(s, Len(D) + 1, Len(s))
    <3>1. /\ z \in Seq(P) /\ Len(z) = Len(r)
          /\ \A i \in 1..Len(r) : z[i] = s[Len(D) + i]
      BY <1>1, <2>3
    <3> HIDE DEF z
    <3>2. z = r
      <4>1. r \in Seq(P) /\ \A i \in 1..Len(r) : z[i] = r[i]
        BY <2>3, <3>1
      <4> QED
        BY <3>1, <4>1, SameItems
    <3> QED
      BY <3>2 DEF z
  <2> QED
    BY <2>1, <2>2, <2>9, <2>10, <2>11 DEF PathOf
<1> QED
  BY <1>2, <1>3

\* The scenes online are the path of a member of the team, with its folder taken
\* out, or one that its publisher was warned of.
OnlinePath(P) ==
  \/ TokenPath(P, online.overlay)
  \/ /\ FarPath(P, online.overlay)
     /\ Absolute(online.overlay) => online.overlay \in warned

\* Who is in step would publish the scenes that are online.
OverlayInv(P) ==
  /\ VersionsInv
  /\ DOMAIN shown = Machines /\ \A m \in Machines : PathOf(P, shown[m], m)
  /\ online.version # 0 => OnlinePath(P)
  /\ \A m \in Machines : InStep(m) => Tokenize(shown[m], Dir[m]) = online.overlay

\* The scenes start without a path.
LEMMA OverlayInvInit ==
  ASSUME NEW P, PathsAreTexts(P), Init
  PROVE  OverlayInv(P)
<1>1. \A m \in Machines : shown[m] = <<>>
  BY DEF Init
<1>2. FarPath(P, <<>>)
  <2>1. <<>> \in Seq(P) /\ NoToken(<<>>) /\ ~Absolute(<<>>)
    BY DEF NoToken, Absolute
  <2>2. ASSUME NEW n \in Machines PROVE ~HasFolder(<<>>, Dir[n])
    <3>1. /\ Slash \in P /\ Dir[n] \in Seq(P) /\ Len(Normal(Dir[n])) \in Nat \ {0}
      BY FolderIs DEF PathsAreTexts
    <3>2. Len(Normal(<<>>)) = 0
      <4>1. Normal(<<>>) \in Seq(P) /\ Len(Normal(<<>>)) <= Len(<<>>)
        BY <2>1, <3>1, NormalIs
      <4> QED
        BY <4>1
    <3> DEFINE e == <<>>
    <3>3. e \in Seq(P) /\ Len(Normal(e)) = 0
      BY <2>1, <3>2
    <3> HIDE DEF e
    <3>4. HasFolder(e, Dir[n]) => Len(Normal(Dir[n])) <= Len(Normal(e))
      BY <3>1, <3>3, HasFolderIs
    <3>5. ~HasFolder(e, Dir[n])
      BY <3>1, <3>3, <3>4
    <3> QED
      BY <3>5 DEF e
  <2> QED
    BY <2>1, <2>2 DEF FarPath
<1>3. DOMAIN shown = Machines /\ \A m \in Machines : PathOf(P, shown[m], m)
  BY <1>1, <1>2 DEF Init, PathOf
<1>4. online.version = 0 /\ \A m \in Machines : ~InStep(m)
  BY DEF Init, InStep
<1> QED
  BY <1>3, <1>4, VersionsInvInit DEF OverlayInv

\* m receives, whole or not.
LEMMA OverlayReceived ==
  ASSUME NEW P, PathsAreTexts(P), OverlayInv(P), NEW m \in Machines, SaveScenes(m)
  PROVE  /\ \A n \in Machines \ {m} : shown'[n] = shown[n]
         /\ DOMAIN shown' = Machines
         /\ PathOf(P, shown'[m], m) /\ Tokenize(shown'[m], Dir[m]) = online.overlay
<1>1. online.version # 0
  BY DEF SaveScenes, UpToDate
<1>2. shown' = [shown EXCEPT ![m] = Expand(online.overlay, Dir[m])]
  BY DEF SaveScenes
<1>3. TokenPath(P, online.overlay) \/ FarPath(P, online.overlay)
  BY <1>1 DEF OverlayInv, OnlinePath
<1> QED
  BY <1>2, <1>3, RoundTrip DEF OverlayInv

\* Every step keeps the invariant.
LEMMA OverlayInvNext ==
  ASSUME NEW P, PathsAreTexts(P), OverlayInv(P), [Next]_vars
  PROVE  OverlayInv(P)'
<1> DEFINE Goal == /\ DOMAIN shown' = Machines
                   /\ \A m \in Machines : PathOf(P, shown'[m], m)
                   /\ online'.version # 0 => OnlinePath(P)'
                   /\ \A m \in Machines :
                        InStep(m)' => Tokenize(shown'[m], Dir[m]) = online'.overlay
<1>1. VersionsInv' /\ VersionsInv
  BY VersionsInvNext DEF OverlayInv
<1>2. ASSUME UNCHANGED vars PROVE Goal
  <2>1. UNCHANGED <<online, shown, applied, touched, warned>>
    BY <1>2 DEF vars
  <2> QED
    BY <2>1 DEF OverlayInv, OnlinePath, InStep
<1>3. ASSUME NEW m \in Machines, ReceiveVersion(m) \/ ReceiveStops(m) PROVE Goal
  <2>1. /\ SaveScenes(m) /\ UNCHANGED <<online, warned>>
        /\ \A n \in Machines \ {m} :
             applied'[n] = applied[n] /\ touched'[n] = touched[n]
    BY <1>1, <1>3 DEF ReceiveVersion, ReceiveStops, VersionsInv
  <2>2. /\ \A n \in Machines \ {m} : shown'[n] = shown[n]
        /\ DOMAIN shown' = Machines
        /\ PathOf(P, shown'[m], m) /\ Tokenize(shown'[m], Dir[m]) = online.overlay
    BY <2>1, OverlayReceived
  <2>3. \A n \in Machines : PathOf(P, shown'[n], n)
    BY <2>2 DEF OverlayInv
  <2>4. online'.version # 0 => OnlinePath(P)'
    BY <2>1 DEF OverlayInv, OnlinePath
  <2>5. ASSUME NEW n \in Machines, InStep(n)'
        PROVE  Tokenize(shown'[n], Dir[n]) = online'.overlay
    <3>1. CASE n = m
      BY <2>1, <2>2, <3>1
    <3>2. CASE n # m
      BY <2>1, <2>2, <2>5, <3>2 DEF OverlayInv, InStep
    <3> QED
      BY <3>1, <3>2
  <2> QED
    BY <2>2, <2>3, <2>4, <2>5
<1>4. ASSUME NEW m \in Machines, PublishVersion(m) PROVE Goal
  <2>1. /\ UNCHANGED shown
        /\ online'.version = online.version + 1
        /\ online'.overlay = Tokenize(shown[m], Dir[m])
        /\ applied' = [applied EXCEPT ![m] = [version |-> online.version + 1,
                                              digest |-> Digest(m)]]
        /\ warned' = {s \in {Tokenize(shown[m], Dir[m])} : Foreign(s, Dir[m])}
    BY <1>4 DEF PublishVersion
  <2>2. PathOf(P, shown[m], m)
    BY DEF OverlayInv
  <2>3. OnlinePath(P)'
    <3>1. CASE OwnPath(P, shown[m], m)
      <4>1. TokenPath(P, Tokenize(shown[m], Dir[m]))
        BY <2>2, <3>1, Tokenized
      <4> QED
        BY <2>1, <4>1 DEF OnlinePath
    <3>2. CASE FarPath(P, shown[m])
      <4>1. online'.overlay = shown[m]
        BY <2>1, <2>2, <3>2, Tokenized
      <4>2. Absolute(shown[m]) => Foreign(shown[m], Dir[m])
        BY <3>2 DEF FarPath, Foreign
      <4>3. Absolute(shown[m]) => shown[m] \in warned'
        BY <2>1, <4>1, <4>2
      <4> QED
        BY <3>2, <4>1, <4>3 DEF OnlinePath
    <3> QED
      BY <2>2, <3>1, <3>2 DEF PathOf
  <2>4. ASSUME NEW n \in Machines, InStep(n)'
        PROVE  Tokenize(shown'[n], Dir[n]) = online'.overlay
    <3>1. CASE n = m
      BY <2>1, <3>1
    <3>2. CASE n # m
      <4>1. applied'[n].version = applied[n].version
        BY <2>1, <3>2
      <4>2. applied[n].version <= online.version /\ applied[n].version \in Nat
            /\ online.version \in Nat
        BY <1>1 DEF VersionsInv
      <4> QED
        BY <2>1, <2>4, <4>1, <4>2 DEF InStep
    <3> QED
      BY <3>1, <3>2
  <2> QED
    BY <2>1, <2>3, <2>4 DEF OverlayInv
<1>5. ASSUME NEW m \in Machines, EditOverlay(m) PROVE Goal
  <2>1. PICK s \in Typed[m] : shown' = [shown EXCEPT ![m] = s]
    BY <1>5 DEF EditOverlay
  <2>2. /\ UNCHANGED <<online, applied, warned>>
        /\ touched' = [touched EXCEPT ![m] = TRUE]
    BY <1>5 DEF EditOverlay
  <2>3. PathOf(P, s, m)
    BY DEF PathsAreTexts
  <2>4. /\ DOMAIN shown' = Machines
        /\ \A n \in Machines : PathOf(P, shown'[n], n)
    BY <2>1, <2>3 DEF OverlayInv
  <2>5. ASSUME NEW n \in Machines, InStep(n)'
        PROVE  Tokenize(shown'[n], Dir[n]) = online'.overlay
    <3>1. n # m /\ touched'[n] = touched[n]
      BY <1>1, <2>2, <2>5 DEF InStep, VersionsInv
    <3> QED
      BY <2>1, <2>2, <2>5, <3>1 DEF OverlayInv, InStep
  <2> QED
    BY <2>2, <2>4, <2>5 DEF OverlayInv, OnlinePath
<1>6. ASSUME NEW m \in Machines, EditCanvas(m) PROVE Goal
  <2>1. /\ UNCHANGED <<online, shown, applied, warned>>
        /\ touched' = [touched EXCEPT ![m] = TRUE]
    BY <1>6 DEF EditCanvas
  <2>2. \A n \in Machines : InStep(n)' => InStep(n)
    BY <1>1, <2>1 DEF InStep, VersionsInv
  <2> QED
    BY <2>1, <2>2 DEF OverlayInv, OnlinePath
<1>7. Goal
  BY <1>2, <1>3, <1>4, <1>5, <1>6 DEF Next, OverlayInv
<1> QED
  BY <1>1, <1>7 DEF OverlayInv

\* Two machines that would publish the same scenes show the same file.
LEMMA SameOverlayOfInv ==
  ASSUME NEW P, PathsAreTexts(P), OverlayInv(P)
  PROVE  SameOverlay
<1> SUFFICES ASSUME NEW m \in Machines, NEW n \in Machines, InStep(m), InStep(n),
                    ~Sibling(shown[m], Dir[m]), ~Sibling(shown[n], Dir[n])
             PROVE
      \/ /\ Inside(shown[m], Dir[m]) /\ Inside(shown[n], Dir[n])
         /\ Rest(shown[m], Dir[m]) = Rest(shown[n], Dir[n])
      \/ /\ ~Inside(shown[m], Dir[m]) /\ shown[m] = shown[n]
         /\ Absolute(shown[m]) => shown[m] \in warned
  BY DEF SameOverlay
<1> DEFINE dm == Dir[m]
           dn == Dir[n]
           s  == shown[m]
           t  == shown[n]
<1>1. /\ Slash \in P /\ PathOf(P, s, m) /\ PathOf(P, t, n)
      /\ Tokenize(s, dm) = online.overlay /\ Tokenize(t, dn) = online.overlay
      /\ OnlinePath(P)
  BY DEF OverlayInv, InStep, PathsAreTexts
<1>2. /\ dm # <<>> /\ dm \in Seq(P) /\ Normal(dm) \in Seq(P)
      /\ Len(Normal(dm)) \in Nat \ {0}
      /\ dn # <<>> /\ dn \in Seq(P) /\ Normal(dn) \in Seq(P)
      /\ Len(Normal(dn)) \in Nat \ {0}
  BY FolderIs DEF PathsAreTexts
<1>3. /\ OwnPath(P, s, m) <=> HasFolder(s, dm)
      /\ OwnPath(P, t, n) <=> HasFolder(t, dn)
      /\ HasFolder(s, dm) \/ FarPath(P, s)
      /\ HasFolder(t, dn) \/ FarPath(P, t)
  BY <1>1 DEF PathOf, OwnPath, FarPath
<1>4. ASSUME NEW o, TokenPath(P, o) PROVE ~FarPath(P, o)
  <2>1. PICK r \in Seq(P) : o = <<AssetsToken>> \o r
    BY <1>4 DEF TokenPath
  <2>2. Len(o) = 1 + Len(r) /\ o[1] = AssetsToken
    <3>1. AssetsToken \in P
      BY DEF PathsAreTexts
    <3> QED
      BY <2>1, <3>1
  <2>3. 1 \in 1..Len(o)
    BY <2>2
  <2> QED
    BY <2>2, <2>3 DEF FarPath, NoToken
<1>5. HasFolder(s, dm) <=> HasFolder(t, dn)
  <2>1. OwnPath(P, s, m) => TokenPath(P, online.overlay)
    BY <1>1, Tokenized
  <2>2. OwnPath(P, t, n) => TokenPath(P, online.overlay)
    BY <1>1, Tokenized
  <2>3. FarPath(P, s) => s = online.overlay
    BY <1>1, Tokenized
  <2>4. FarPath(P, t) => t = online.overlay
    BY <1>1, Tokenized
  <2> QED
    BY <1>3, <1>4, <2>1, <2>2, <2>3, <2>4
<1>6. CASE HasFolder(s, dm) /\ HasFolder(t, dn)
  <2>1. Inside(s, dm) /\ Inside(t, dn)
    BY <1>2, <1>6 DEF Sibling
  <2> DEFINE cs == Normal(s)
             ct == Normal(t)
             a  == Len(Normal(dm))
             b  == Len(Normal(dn))
  <2>2. cs \in Seq(P) /\ ct \in Seq(P)
    BY <1>1, <1>3, <1>6, NormalIs DEF OwnPath
  <2>3. a <= Len(cs) /\ b <= Len(ct) /\ a \in Nat /\ b \in Nat
    BY <1>1, <1>2, <1>3, <1>6, HasFolderIs DEF OwnPath
  <2> DEFINE x == SubSeq(cs, a + 1, Len(cs))
             y == SubSeq(ct, b + 1, Len(ct))
  <2>4. <<AssetsToken>> \o x = <<AssetsToken>> \o y
    BY <1>1, <1>2, <1>6 DEF Tokenize
  <2> DEFINE f == SubSeq(cs, a + 2, Len(cs))
             g == SubSeq(ct, b + 2, Len(ct))
  <2>5. Rest(s, dm) = f /\ Rest(t, dn) = g
    BY DEF Rest
  <2> HIDE DEF cs, ct, a, b
  <2>6. /\ x \in Seq(P) /\ Len(x) = Len(cs) - a
        /\ \A i \in 1..Len(x) : x[i] = cs[a + i]
        /\ y \in Seq(P) /\ Len(y) = Len(ct) - b
        /\ \A i \in 1..Len(y) : y[i] = ct[b + i]
    BY <2>2, <2>3
  <2> HIDE DEF x, y
  <2>7. x = y
    <3> DEFINE tx == <<AssetsToken>> \o x
               ty == <<AssetsToken>> \o y
    <3>1. /\ Len(tx) = 1 + Len(x) /\ \A i \in 1..Len(x) : tx[1 + i] = x[i]
          /\ Len(ty) = 1 + Len(y) /\ \A i \in 1..Len(y) : ty[1 + i] = y[i]
      <4>1. AssetsToken \in P
        BY DEF PathsAreTexts
      <4> QED
        BY <2>6, <4>1
    <3>2. tx = ty
      BY <2>4
    <3>3. Len(x) \in Nat /\ Len(y) \in Nat
      BY <2>6
    <3> HIDE DEF tx, ty
    <3>4. Len(x) = Len(y) /\ \A i \in 1..Len(x) : x[i] = y[i]
      BY <3>1, <3>2, <3>3
    <3> QED
      BY <2>6, <3>4, SameItems
  <2>8. f = g
    <3>1. CASE Len(x) = 0
      <4>1. a + 2 > Len(cs) /\ b + 2 > Len(ct)
        BY <2>2, <2>3, <2>6, <2>7, <3>1
      <4>2. f = <<>> /\ g = <<>>
        BY <2>2, <2>3, <4>1
      <4> QED
        BY <4>2
    <3>2. CASE Len(x) # 0
      <4>1. /\ f \in Seq(P) /\ Len(f) = Len(x) - 1
            /\ \A i \in 1..Len(f) : f[i] = cs[a + 1 + i]
        BY <2>2, <2>3, <2>6, <3>2
      <4>2. /\ g \in Seq(P) /\ Len(g) = Len(x) - 1
            /\ \A i \in 1..Len(g) : g[i] = ct[b + 1 + i]
        <5>1. Len(x) = Len(ct) - b /\ Len(x) # 0
          BY <2>6, <2>7, <3>2
        <5> HIDE DEF f, x
        <5> QED
          BY <2>2, <2>3, <5>1
      <4> HIDE DEF f, g
      <4>3. ASSUME NEW i \in 1..Len(f) PROVE f[i] = g[i]
        <5>1. i + 1 \in 1..Len(x) /\ i \in 1..Len(g)
          BY <2>6, <4>1, <4>2
        <5>2. x[i + 1] = cs[a + (i + 1)] /\ y[i + 1] = ct[b + (i + 1)]
          BY <2>6, <2>7, <5>1
        <5>3. a + 1 + i = a + (i + 1) /\ b + 1 + i = b + (i + 1)
          BY <2>3
        <5> QED
          BY <2>7, <4>1, <4>2, <5>1, <5>2, <5>3
      <4> QED
        BY <4>1, <4>2, <4>3, SameItems
    <3> QED
      BY <3>1, <3>2
  <2> QED
    BY <2>1, <2>5, <2>8
<1>7. CASE ~HasFolder(s, dm) /\ ~HasFolder(t, dn)
  <2>1. FarPath(P, s) /\ FarPath(P, t)
    BY <1>3, <1>7
  <2>2. s = online.overlay /\ t = online.overlay
    BY <1>1, <2>1, Tokenized
  <2>3. ASSUME Inside(s, dm) PROVE FALSE
    <3> DEFINE D == Normal(dm)
               c == Normal(s)
    <3>1. c \in Seq(P) /\ s \in Seq(P)
      BY <1>1, <2>1, NormalIs DEF FarPath
    <3>2. /\ Len(Append(D, Slash)) = Len(D) + 1
          /\ DOMAIN Append(D, Slash) = 1..(Len(D) + 1)
          /\ \A i \in 1..Len(D) : Append(D, Slash)[i] = D[i]
      BY <1>1, <1>2
    <3>3. /\ Len(c) >= Len(Append(D, Slash))
          /\ \A i \in DOMAIN Append(D, Slash) :
               Lower[c[i]] = Lower[Append(D, Slash)[i]]
      BY <2>3 DEF Inside
    <3> HIDE DEF D, c
    <3>4. Len(D) <= Len(c) /\ \A i \in 1..Len(D) : Lower[D[i]] = Lower[c[i]]
      <4>1. Len(D) \in Nat /\ Len(c) \in Nat
        BY <1>2, <3>1 DEF D
      <4>2. \A i \in 1..Len(D) : i \in 1..(Len(D) + 1)
        BY <4>1
      <4> QED
        BY <3>2, <3>3, <4>1, <4>2
    <3> QED
      BY <1>1, <1>2, <1>7, <3>1, <3>4, HasFolderIs DEF D, c
  <2>4. Absolute(s) => s \in warned
    BY <1>1, <1>4, <2>1, <2>2 DEF OnlinePath
  <2> QED
    BY <2>2, <2>3, <2>4
<1> QED
  BY <1>5, <1>6, <1>7

\* The machines in step show the same file of their own folders, for any team,
\* folders and paths: whoever published, and from whichever machine the path had
\* come before.  The paths are those of PathsAreTexts.
THEOREM OverlayIsShared ==
  ASSUME NEW P, PathsAreTexts(P)
  PROVE  Spec => []SameOverlay
<1>1. Init => OverlayInv(P)
  BY OverlayInvInit
<1>2. OverlayInv(P) /\ [Next]_vars => OverlayInv(P)'
  BY OverlayInvNext
<1>3. OverlayInv(P) => SameOverlay
  BY SameOverlayOfInv
<1> QED
  BY <1>1, <1>2, <1>3, PTL DEF Spec

=============================================================================
