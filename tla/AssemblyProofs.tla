--------------------------- MODULE AssemblyProofs ---------------------------
(***************************************************************************)
(* Assembly's theorems: what stages of one segment hand on to one another, *)
(* and what the chains of a relay are made of.  Bytes and bounds are looked*)
(* at apart, then as emissions, then along the calls of a run; chains as   *)
(* they are built, stage by stage, and then as they are scanned.           *)
(***************************************************************************)
EXTENDS Assembly, SequenceTheorems, WellFoundedInduction, TLAPS

Item  == 1..Words
Pages == Seq(Item)

First(b, i)  == IF i = 1 THEN 1 ELSE b[i - 1] + 1
Pieces(o, b) == [i \in 1..Len(b) |-> SubSeq(o, First(b, i), b[i])]
EndOf(b)     == IF b # <<>> THEN b[Len(b)] ELSE 0
Rest(o, b)   == SubSeq(o, EndOf(b) + 1, Len(o))

(* The bounds b frame bytes of o.                                          *)
Within(o, b) ==
  /\ \A i \in 1..Len(b) : b[i] \in 1..Len(o)
  /\ \A i, j \in 1..Len(b) : i < j => b[i] < b[j]

(* Bounds are where the bytes of a piece end.                              *)
LEMMA FirstIs ==
  ASSUME NEW o, NEW b, Within(o, b), Len(o) \in Nat, Len(b) \in Nat, NEW i \in 1..Len(b)
  PROVE  /\ First(b, i) \in 1..Len(o) /\ b[i] \in 1..Len(o) /\ First(b, i) <= b[i]
<1> DEFINE m == Len(b)
           l == Len(o)
           x == b[i]
           y == b[i - 1]
<1>1. l \in Nat /\ m \in Nat /\ i \in 1..m
  OBVIOUS
<1>2. x \in 1..l
  BY DEF Within
<1>3. i # 1 => y \in 1..l /\ y < x
  <2>1. i # 1 => i - 1 \in 1..m /\ i - 1 < i
    BY <1>1
  <2> QED
    BY <1>1, <2>1 DEF Within
<1>4. First(b, i) = IF i = 1 THEN 1 ELSE y + 1
  BY DEF First
<1> HIDE DEF m, l, x, y
<1>5. First(b, i) \in 1..l /\ First(b, i) <= x
  BY <1>1, <1>2, <1>3, <1>4
<1> QED
  BY <1>2, <1>5 DEF l, x

(* The pieces are pages, and none is empty.                                *)
LEMMA PiecesAre ==
  ASSUME NEW o \in Seq(Item), NEW b \in Seq(Nat), Within(o, b)
  PROVE  /\ Pieces(o, b) \in Seq(Pages) /\ Len(Pieces(o, b)) = Len(b)
         /\ \A i \in 1..Len(b) :
              /\ Pieces(o, b)[i] = SubSeq(o, First(b, i), b[i])
              /\ Pieces(o, b)[i] \in Pages /\ Pieces(o, b)[i] # <<>>
<1>1. Len(o) \in Nat /\ Len(b) \in Nat
  OBVIOUS
<1> DEFINE p == Pieces(o, b)
           m == Len(b)
<1>2. ASSUME NEW i \in 1..m
      PROVE  p[i] = SubSeq(o, First(b, i), b[i]) /\ p[i] \in Pages /\ p[i] # <<>>
  <2> DEFINE f == First(b, i)
             x == b[i]
  <2>1. f \in 1..Len(o) /\ x \in 1..Len(o) /\ f <= x
    BY <1>1, FirstIs
  <2>2. p[i] = SubSeq(o, f, x)
    BY DEF Pieces
  <2> HIDE DEF f, x
  <2>3. SubSeq(o, f, x) \in Seq(Item) /\ Len(SubSeq(o, f, x)) = x - f + 1
    BY <1>1, <2>1
  <2>4. Len(SubSeq(o, f, x)) # 0
    BY <1>1, <2>1, <2>3
  <2>5. SubSeq(o, f, x) # <<>>
    BY <2>4, EmptySeq
  <2> QED
    BY <2>2, <2>3, <2>5 DEF Pages, f, x
<1>3. p = [i \in 1..m |-> p[i]]
  BY DEF Pieces
<1> HIDE DEF p
<1>4. p \in [1..m -> Pages]
  BY <1>2, <1>3
<1>5. p \in Seq(Pages) /\ Len(p) = m
  BY <1>1, <1>4, SeqDef, LenProperties
<1> QED
  BY <1>2, <1>5 DEF p, m

(* Two sequences of pages are one when they are piece by piece.            *)
LEMMA SamePages ==
  ASSUME NEW v \in Seq(Pages), NEW w \in Seq(Pages), Len(v) = Len(w),
         \A i \in 1..Len(v) : v[i] = w[i]
  PROVE  v = w
<1> DEFINE T == Pages
<1>1. v \in Seq(T) /\ w \in Seq(T)
  OBVIOUS
<1> HIDE DEF T
<1> QED
  BY <1>1, SeqEqual

(* A part of a sequence, and of what it becomes when x follows.            *)
LEMMA PartIs ==
  ASSUME NEW o \in Seq(Item), NEW m \in Nat \ {0}, NEW n \in Nat, n <= Len(o)
  PROVE  /\ SubSeq(o, m, n) \in Seq(Item)
         /\ Len(SubSeq(o, m, n)) = IF m <= n THEN n - m + 1 ELSE 0
         /\ \A i \in 1..(n - m + 1) : SubSeq(o, m, n)[i] = o[m + i - 1]
OBVIOUS

(* What two sequences of bytes are, put together.                          *)
LEMMA JoinIs ==
  ASSUME NEW o \in Seq(Item), NEW x \in Seq(Item)
  PROVE  /\ o \o x \in Seq(Item) /\ Len(o \o x) = Len(o) + Len(x)
         /\ Len(o) \in Nat /\ Len(x) \in Nat
         /\ \A i \in 1..Len(o) : (o \o x)[i] = o[i]
         /\ \A i \in 1..Len(x) : (o \o x)[Len(o) + i] = x[i]
OBVIOUS

(* A part of the first of two sequences stays it when they are joined.     *)
LEMMA PartStays ==
  ASSUME NEW o \in Seq(Item), NEW x \in Seq(Item), NEW m \in Nat \ {0}, NEW n \in Nat, n <= Len(o)
  PROVE  SubSeq(o \o x, m, n) = SubSeq(o, m, n)
<1> DEFINE z == o \o x
           l == Len(o)
<1>1. z \in Seq(Item) /\ l \in Nat /\ Len(z) = l + Len(x) /\ Len(x) \in Nat
      /\ \A i \in 1..l : z[i] = o[i]
  BY JoinIs
<1>2. n <= l /\ n <= Len(z)
  BY <1>1
<1> HIDE DEF z, l
<1>3. /\ SubSeq(z, m, n) \in Seq(Item)
      /\ Len(SubSeq(z, m, n)) = IF m <= n THEN n - m + 1 ELSE 0
      /\ \A i \in 1..(n - m + 1) : SubSeq(z, m, n)[i] = z[m + i - 1]
  BY <1>1, <1>2, PartIs
<1>4. /\ SubSeq(o, m, n) \in Seq(Item)
      /\ Len(SubSeq(o, m, n)) = IF m <= n THEN n - m + 1 ELSE 0
      /\ \A i \in 1..(n - m + 1) : SubSeq(o, m, n)[i] = o[m + i - 1]
  BY PartIs
<1> DEFINE u == SubSeq(z, m, n)
           v == SubSeq(o, m, n)
           k == IF m <= n THEN n - m + 1 ELSE 0
<1>5. \A i \in 1..k : i \in 1..(n - m + 1) /\ m + i - 1 \in 1..l
  BY <1>1, <1>2
<1>6. \A i \in 1..k : u[i] = v[i]
  BY <1>1, <1>3, <1>4, <1>5, Zenon
<1>7. u \in Seq(Item) /\ v \in Seq(Item) /\ Len(u) = k /\ Len(v) = k
  BY <1>3, <1>4
<1> HIDE DEF u, v, k
<1>8. u = v
  BY <1>6, <1>7, SeqEqual
<1> QED
  BY <1>8 DEF u, v, z

(* A part of the second of two sequences is found behind the first.        *)
LEMMA PartShifts ==
  ASSUME NEW o \in Seq(Item), NEW x \in Seq(Item), NEW m \in Nat \ {0}, NEW n \in Nat, n <= Len(x)
  PROVE  SubSeq(o \o x, Len(o) + m, Len(o) + n) = SubSeq(x, m, n)
<1> DEFINE z == o \o x
           l == Len(o)
<1>1. z \in Seq(Item) /\ l \in Nat /\ Len(z) = l + Len(x) /\ Len(x) \in Nat
      /\ \A i \in 1..Len(x) : z[l + i] = x[i]
  BY JoinIs
<1>2. n <= Len(x) /\ l + n <= Len(z) /\ l + m \in Nat \ {0} /\ l + n \in Nat
  BY <1>1
<1> HIDE DEF z, l
<1> DEFINE u == SubSeq(z, l + m, l + n)
           v == SubSeq(x, m, n)
           k == IF m <= n THEN n - m + 1 ELSE 0
<1>3. /\ u \in Seq(Item)
      /\ Len(u) = IF l + m <= l + n THEN (l + n) - (l + m) + 1 ELSE 0
      /\ \A i \in 1..((l + n) - (l + m) + 1) : u[i] = z[l + m + i - 1]
  BY <1>1, <1>2, PartIs
<1>4. /\ v \in Seq(Item) /\ Len(v) = k
      /\ \A i \in 1..(n - m + 1) : v[i] = x[m + i - 1]
  BY PartIs
<1> HIDE DEF u, v
<1>5. Len(u) = k /\ \A i \in 1..k : u[i] = z[l + (m + i - 1)] /\ v[i] = x[m + i - 1]
  BY <1>1, <1>3, <1>4
<1>6. \A i \in 1..k : m + i - 1 \in 1..Len(x)
  BY <1>1, <1>2
<1>7. \A i \in 1..k : u[i] = v[i]
  BY <1>1, <1>5, <1>6
<1> HIDE DEF k
<1>8. u = v
  BY <1>3, <1>4, <1>5, <1>7, SeqEqual
<1> QED
  BY <1>8 DEF u, v, z, l

(* Where the last piece ends.                                              *)
LEMMA EndIs ==
  ASSUME NEW o \in Seq(Item), NEW b \in Seq(Nat), Within(o, b)
  PROVE  /\ EndOf(b) \in 0..Len(o) /\ (EndOf(b) = 0 <=> b = <<>>) /\ (b = <<>> <=> Len(b) = 0)
         /\ (b # <<>> => EndOf(b) = b[Len(b)])
         /\ Len(o) \in Nat /\ Len(b) \in Nat
         /\ \A i \in 1..Len(b) : b[i] <= EndOf(b)
<1>1. Len(o) \in Nat /\ Len(b) \in Nat /\ (b = <<>> <=> Len(b) = 0)
  BY EmptySeq
<1>2. CASE b = <<>>
  BY <1>1, <1>2 DEF EndOf
<1>3. CASE b # <<>>
  <2> DEFINE m == Len(b)
             l == Len(o)
             x == b[m]
  <2>1. m \in 1..m /\ m \in Nat /\ l \in Nat
    BY <1>1, <1>3
  <2>2. x \in 1..l /\ \A i \in 1..m : i < m => b[i] < x
    BY <2>1 DEF Within
  <2>3. \A i \in 1..m : b[i] \in 1..l
    BY DEF Within
  <2>4. EndOf(b) = x
    BY <1>3 DEF EndOf
  <2> HIDE DEF m, l, x
  <2>5. \A i \in 1..m : b[i] <= x
    <3> TAKE i \in 1..m
    <3>1. CASE i = m
      BY <2>2, <3>1 DEF x
    <3>2. CASE i < m
      <4>1. b[i] < x /\ b[i] \in 1..l
        BY <2>2, <2>3, <3>2
      <4> QED
        BY <2>1, <2>2, <4>1
    <3> QED
      BY <2>1, <3>1, <3>2
  <2>6. EndOf(b) \in 0..l /\ EndOf(b) # 0
    BY <2>1, <2>2, <2>4
  <2> QED
    BY <1>1, <1>3, <2>4, <2>5, <2>6 DEF m, l, x
<1> QED
  BY <1>2, <1>3

(* More bytes leave the pieces alone.                                      *)
LEMMA Grows ==
  ASSUME NEW o \in Seq(Item), NEW b \in Seq(Nat), Within(o, b), NEW x \in Seq(Item)
  PROVE  /\ Within(o \o x, b) /\ Pieces(o \o x, b) = Pieces(o, b)
         /\ Rest(o \o x, b) = Rest(o, b) \o x
<1> DEFINE z == o \o x
           l == Len(o)
           m == Len(b)
<1>1. /\ z \in Seq(Item) /\ Len(z) = l + Len(x) /\ l \in Nat /\ Len(x) \in Nat /\ m \in Nat
      /\ \A i \in 1..l : z[i] = o[i]
      /\ \A i \in 1..Len(x) : z[l + i] = x[i]
  BY JoinIs, EndIs
<1>2. Within(z, b)
  <2>1. \A i \in 1..m : b[i] \in 1..l
    BY DEF Within
  <2>2. 1..l \subseteq 1..Len(z)
    BY <1>1
  <2> QED
    BY <2>1, <2>2, Zenon DEF Within
<1>3. Pieces(z, b) = Pieces(o, b)
  <2>1. /\ Pieces(z, b) \in Seq(Pages) /\ Len(Pieces(z, b)) = m
        /\ \A i \in 1..m : Pieces(z, b)[i] = SubSeq(z, First(b, i), b[i])
    BY <1>1, <1>2, PiecesAre, Zenon
  <2>2. /\ Pieces(o, b) \in Seq(Pages) /\ Len(Pieces(o, b)) = m
        /\ \A i \in 1..m : Pieces(o, b)[i] = SubSeq(o, First(b, i), b[i])
    BY PiecesAre, Zenon
  <2>3. \A i \in 1..m : SubSeq(z, First(b, i), b[i]) = SubSeq(o, First(b, i), b[i])
    <3> TAKE i \in 1..m
    <3> DEFINE f == First(b, i)
               n == b[i]
    <3>1. f \in 1..l /\ n \in 1..l
      BY <1>1, FirstIs
    <3> HIDE DEF f, n
    <3>2. f \in Nat \ {0} /\ n \in Nat /\ n <= Len(o)
      BY <1>1, <3>1
    <3>3. SubSeq(o \o x, f, n) = SubSeq(o, f, n)
      BY <3>2, PartStays
    <3> QED
      BY <3>3 DEF f, n
  <2>4. \A i \in 1..m : Pieces(z, b)[i] = Pieces(o, b)[i]
    BY <2>1, <2>2, <2>3, Zenon
  <2> DEFINE u == Pieces(z, b)
             v == Pieces(o, b)
  <2>5. u \in Seq(Pages) /\ v \in Seq(Pages) /\ Len(u) = Len(v) /\ \A i \in 1..Len(u) : u[i] = v[i]
    BY <2>1, <2>2, <2>4
  <2> HIDE DEF u, v
  <2>6. u = v
    BY <2>5, SamePages, Zenon
  <2> QED
    BY <2>6 DEF u, v
<1>4. Rest(z, b) = Rest(o, b) \o x
  <2> DEFINE e == EndOf(b)
  <2>1. e \in 0..l
    BY EndIs
  <2> HIDE DEF e, z, l
  <2>2. e + 1 \in Nat \ {0} /\ Len(z) \in Nat /\ l <= Len(z) /\ l \in Nat /\ l <= Len(o)
    BY <1>1, <2>1 DEF l
  <2>0. Len(z) <= Len(z) /\ z \in Seq(Item) /\ o \in Seq(Item)
    BY <1>1, <2>2
  <2> DEFINE u == SubSeq(z, e + 1, Len(z))
             v == SubSeq(o, e + 1, l)
  <2>3. /\ u \in Seq(Item)
        /\ Len(u) = IF e + 1 <= Len(z) THEN Len(z) - (e + 1) + 1 ELSE 0
        /\ \A i \in 1..(Len(z) - (e + 1) + 1) : u[i] = z[e + 1 + i - 1]
    BY <2>0, <2>2, PartIs, ZenonT(40)
  <2>4. /\ v \in Seq(Item)
        /\ Len(v) = IF e + 1 <= l THEN l - (e + 1) + 1 ELSE 0
        /\ \A i \in 1..(l - (e + 1) + 1) : v[i] = o[e + 1 + i - 1]
    BY <2>0, <2>2, PartIs, ZenonT(40)
  <2> HIDE DEF u, v
  <2>5. Len(u) = l - e + Len(x) /\ \A i \in 1..(l - e + Len(x)) : u[i] = z[e + i]
    <3>1. Len(z) = l + Len(x) /\ Len(x) \in Nat /\ l \in Nat
      BY <1>1, <2>2
    <3>2. Len(z) - (e + 1) + 1 = l - e + Len(x) /\ e + 1 >= 1
          /\ (~(e + 1 <= Len(z)) => l - e + Len(x) = 0)
      BY <2>1, <3>1
    <3>3. Len(u) = l - e + Len(x)
      BY <2>3, <3>2
    <3>4. ASSUME NEW i \in 1..(l - e + Len(x)) PROVE u[i] = z[e + i]
      <4>1. i \in 1..(Len(z) - (e + 1) + 1) /\ e + 1 + i - 1 = e + i
        BY <2>1, <3>1, <3>2
      <4> QED
        BY <2>3, <4>1
    <3> QED
      BY <3>3, <3>4
  <2>6. Len(v) = l - e /\ \A i \in 1..(l - e) : v[i] = o[e + i]
    BY <1>1, <2>1, <2>4
  <2> DEFINE w == v \o x
  <2>7. /\ w \in Seq(Item) /\ Len(w) = Len(v) + Len(x)
        /\ \A i \in 1..Len(v) : w[i] = v[i]
        /\ \A i \in 1..Len(x) : w[Len(v) + i] = x[i]
    BY <2>4, JoinIs, Zenon
  <2> HIDE DEF w
  <2>8. \A i \in 1..Len(u) : u[i] = w[i]
    <3> TAKE i \in 1..Len(u)
    <3> DEFINE k == l - e
    <3>1. k \in Nat /\ e + k = l /\ e \in Nat
      BY <1>1, <2>1
    <3>2. CASE i <= k
      <4>1. i \in 1..k /\ e + i \in 1..l /\ i \in 1..(k + Len(x)) /\ i \in 1..Len(v)
        BY <1>1, <2>6, <3>1, <3>2
      <4>2. u[i] = z[e + i] /\ z[e + i] = o[e + i]
        BY <1>1, <2>5, <4>1
      <4>3. w[i] = v[i] /\ v[i] = o[e + i]
        BY <2>6, <2>7, <4>1
      <4> QED
        BY <4>2, <4>3
    <3>3. CASE i > k
      <4> DEFINE j == i - k
      <4>1. j \in 1..Len(x) /\ k + j = i /\ l + j = e + i /\ i \in 1..(k + Len(x))
        BY <1>1, <2>5, <3>1, <3>3
      <4> HIDE DEF j
      <4>2. u[i] = z[e + i] /\ z[l + j] = x[j]
        BY <1>1, <2>5, <4>1
      <4>3. w[Len(v) + j] = x[j] /\ Len(v) + j = i
        BY <2>6, <2>7, <4>1
      <4> QED
        BY <4>1, <4>2, <4>3
    <3> QED
      BY <2>5, <3>1, <3>2, <3>3
  <2>9. u = w
    <3>1. Len(u) = Len(w)
      BY <1>1, <2>1, <2>5, <2>6, <2>7
    <3> QED
      BY <2>3, <2>7, <2>8, <3>1, SeqEqual
  <2> QED
    BY <2>9 DEF u, v, w, z, e, l, Rest
<1> QED
  BY <1>2, <1>3, <1>4 DEF z

(* What is behind the last piece.                                          *)
LEMMA RestIs ==
  ASSUME NEW o \in Seq(Item), NEW b \in Seq(Nat), Within(o, b)
  PROVE  Rest(o, b) \in Pages /\ (Rest(o, b) = <<>> <=> EndOf(b) = Len(o))
<1> DEFINE e == EndOf(b)
           l == Len(o)
           r == SubSeq(o, e + 1, l)
<1>1. e \in 0..l /\ l \in Nat
  BY EndIs
<1>2. Rest(o, b) = r
  BY DEF Rest
<1> HIDE DEF e
<1>3. e + 1 \in Nat \ {0} /\ l \in Nat /\ l <= Len(o)
  BY <1>1
<1> HIDE DEF l
<1>4. r \in Seq(Item) /\ Len(r) = IF e + 1 <= l THEN l - (e + 1) + 1 ELSE 0
  BY <1>3, PartIs
<1> HIDE DEF r
<1>5. r = <<>> <=> Len(r) = 0
  BY <1>4, EmptySeq
<1>6. Len(r) = 0 <=> e = l
  BY <1>1, <1>4
<1> QED
  BY <1>2, <1>4, <1>5, <1>6 DEF e, l, Pages

(* A cut makes a piece of the rest.                                        *)
LEMMA CutsOffRest ==
  ASSUME NEW o \in Seq(Item), NEW b \in Seq(Nat), Within(o, b), EndOf(b) < Len(o)
  PROVE  LET c == Append(b, Len(o))
         IN  /\ c \in Seq(Nat) /\ c # <<>> /\ Within(o, c) /\ EndOf(c) = Len(o)
             /\ Pieces(o, c) = Append(Pieces(o, b), Rest(o, b))
<1> DEFINE l == Len(o)
           m == Len(b)
           c == Append(b, l)
           e == EndOf(b)
<1>1. l \in Nat /\ m \in Nat /\ e \in 0..l /\ e < l /\ \A i \in 1..m : b[i] <= e
  BY EndIs
<1>2. \A i \in 1..m : b[i] \in 1..l
  BY DEF Within
<1>3. \A i, j \in 1..m : i < j => b[i] < b[j]
  BY DEF Within
<1>4. (m = 0 => e = 0) /\ (m # 0 => e = b[m])
  BY EndIs
<1> HIDE DEF e, l
<1>5. /\ c \in Seq(Nat) /\ Len(c) = m + 1 /\ c[m + 1] = l
      /\ \A i \in 1..m : c[i] = b[i]
  BY <1>1
<1> HIDE DEF c, m
<1>6. c # <<>>
  <2>1. Len(c) # 0
    BY <1>1, <1>5
  <2> QED
    BY <1>5, <2>1, EmptySeq
<1>7. Within(o, c)
  <2>1. ASSUME NEW i \in 1..Len(c) PROVE c[i] \in 1..l
    <3>1. i \in 1..m \/ i = m + 1
      BY <1>1, <1>5
    <3>2. l \in 1..l
      BY <1>1
    <3> QED
      BY <1>2, <1>5, <3>1, <3>2
  <2>2. ASSUME NEW i \in 1..Len(c), NEW j \in 1..Len(c), i < j PROVE c[i] < c[j]
    <3>1. i \in 1..m /\ (j \in 1..m \/ j = m + 1)
      BY <1>1, <1>5, <2>2
    <3>2. CASE j \in 1..m
      BY <1>3, <1>5, <2>2, <3>1, <3>2
    <3>3. CASE j = m + 1
      <4>1. c[i] = b[i] /\ b[i] <= e /\ b[i] \in 1..l /\ c[j] = l
        BY <1>1, <1>2, <1>5, <3>1, <3>3
      <4> QED
        BY <1>1, <4>1
    <3> QED
      BY <3>1, <3>2, <3>3
  <2> QED
    BY <2>1, <2>2, Zenon DEF Within, l
<1>8. EndOf(c) = l
  BY <1>5, <1>6 DEF EndOf
<1>9. Pieces(o, c) = Append(Pieces(o, b), Rest(o, b))
  <2> DEFINE u == Pieces(o, c)
             v == Pieces(o, b)
             r == Rest(o, b)
             w == Append(v, r)
  <2>1. /\ u \in Seq(Pages) /\ Len(u) = Len(c)
        /\ \A i \in 1..Len(c) : u[i] = SubSeq(o, First(c, i), c[i])
    BY <1>5, <1>7, PiecesAre, Zenon
  <2>2. /\ v \in Seq(Pages) /\ Len(v) = m
        /\ \A i \in 1..m : v[i] = SubSeq(o, First(b, i), b[i])
    BY PiecesAre, Zenon DEF m
  <2>3. r \in Pages /\ r = SubSeq(o, e + 1, l)
    BY RestIs DEF Rest, e, l
  <2> HIDE DEF u, v, r
  <2> DEFINE T == Pages
  <2>4. v \in Seq(T) /\ r \in T
    BY <2>2, <2>3
  <2> HIDE DEF T
  <2>5. /\ w \in Seq(T) /\ Len(w) = Len(v) + 1 /\ w[Len(v) + 1] = r
        /\ \A i \in 1..Len(v) : w[i] = v[i]
    BY <2>4
  <2> HIDE DEF w
  <2>6. w \in Seq(Pages) /\ Len(w) = m + 1 /\ w[m + 1] = r /\ \A i \in 1..m : w[i] = v[i]
    BY <2>2, <2>5, Zenon DEF T
  <2>7. \A i \in 1..m : u[i] = w[i]
    <3> TAKE i \in 1..m
    <3>1. i \in 1..Len(c) /\ c[i] = b[i]
      BY <1>1, <1>5
    <3>2. First(c, i) = First(b, i)
      <4>1. i # 1 => i - 1 \in 1..m
        BY <1>1
      <4>2. i # 1 => c[i - 1] = b[i - 1]
        BY <1>5, <4>1
      <4> QED
        BY <4>2, Zenon DEF First
    <3>3. u[i] = SubSeq(o, First(b, i), b[i])
      BY <2>1, <3>1, <3>2, Zenon
    <3> QED
      BY <2>2, <2>6, <3>3, Zenon
  <2>8. u[m + 1] = r
    <3>1. m + 1 \in 1..Len(c) /\ (m + 1 = 1 <=> m = 0) /\ (m # 0 => m \in 1..m)
      BY <1>1, <1>5
    <3>2. First(c, m + 1) = e + 1
      <4>1. CASE m = 0
        <5>1. First(c, m + 1) = 1 /\ e = 0
          BY <1>4, <3>1, <4>1 DEF First
        <5> QED
          BY <5>1
      <4>2. CASE m # 0
        <5>1. m + 1 - 1 = m
          BY <1>1
        <5>2. First(c, m + 1) = c[m] + 1
          BY <3>1, <4>2, <5>1 DEF First
        <5>3. c[m] = b[m] /\ b[m] = e
          BY <1>4, <1>5, <3>1, <4>2
        <5> QED
          BY <5>2, <5>3
      <4> QED
        BY <4>1, <4>2
    <3>3. u[m + 1] = SubSeq(o, First(c, m + 1), c[m + 1])
      BY <2>1, <3>1
    <3> QED
      BY <1>5, <2>3, <3>2, <3>3, Zenon
  <2>9. \A i \in 1..Len(u) : u[i] = w[i]
    <3> TAKE i \in 1..Len(u)
    <3>1. i \in 1..m \/ i = m + 1
      BY <1>1, <1>5, <2>1
    <3> QED
      BY <2>6, <2>7, <2>8, <3>1, Zenon
  <2>10. Len(u) = Len(w)
    BY <1>5, <2>1, <2>6
  <2>11. u = w
    BY <2>1, <2>6, <2>9, <2>10, SamePages, Zenon
  <2> QED
    BY <2>11 DEF u, v, r, w
<1> QED
  BY <1>5, <1>6, <1>7, <1>8, <1>9, Zenon DEF c, l

(* The first k pieces of another sequence of bytes, and what was there:    *)
(* materialise.                                                            *)
Prefix(sb, k)     == IF k = 0 THEN 0 ELSE sb[k]
Moved(so, sb, k, o)  == SubSeq(so, 1, Prefix(sb, k)) \o o
Shifted(sb, k, b) == SubSeq(sb, 1, k) \o [i \in 1..Len(b) |-> b[i] + Prefix(sb, k)]

(* What the first k units of an emission and another behind them are, with *)
(* the other's boundaries shifted to lie behind.                           *)
LEMMA ShiftedIs ==
  ASSUME NEW so \in Seq(Item), NEW sb \in Seq(Nat), Within(so, sb), NEW k \in 0..Len(sb),
         NEW o \in Seq(Item), NEW b \in Seq(Nat), Within(o, b)
  PROVE  LET q == Prefix(sb, k)
             c == Shifted(sb, k, b)
             z == Moved(so, sb, k, o)
         IN  /\ q \in 0..Len(so) /\ q \in Nat /\ k \in Nat /\ Len(b) \in Nat
             /\ z \in Seq(Item) /\ Len(z) = q + Len(o) /\ Len(SubSeq(so, 1, q)) = q
             /\ c \in Seq(Nat) /\ Len(c) = k + Len(b)
             /\ \A i \in 1..k : c[i] = sb[i] /\ sb[i] \in 1..q
             /\ \A i \in 1..Len(b) : c[k + i] = b[i] + q
<1> DEFINE q == Prefix(sb, k)
           m == Len(b)
           l == Len(so)
           head == SubSeq(so, 1, q)
           hb == SubSeq(sb, 1, k)
           tb == [i \in 1..m |-> b[i] + q]
           c == Shifted(sb, k, b)
           z == Moved(so, sb, k, o)
<1>1. k \in Nat /\ m \in Nat /\ l \in Nat /\ k <= Len(sb) /\ Len(sb) \in Nat
  BY EndIs
<1>2. q \in 0..l /\ q \in Nat
  <2>1. k # 0 => k \in 1..Len(sb)
    BY <1>1
  <2>2. k # 0 => sb[k] \in 1..l
    BY <2>1 DEF Within
  <2>3. q = IF k = 0 THEN 0 ELSE sb[k]
    BY DEF Prefix
  <2> HIDE DEF q
  <2> QED
    BY <1>1, <2>2, <2>3
<1>3. \A i \in 1..k : sb[i] \in 1..q
  <2> TAKE i \in 1..k
  <2>1. k # 0 /\ i \in 1..Len(sb) /\ k \in 1..Len(sb) /\ (i < k \/ i = k)
    BY <1>1
  <2> DEFINE x == sb[i]
             y == sb[k]
  <2>2. x \in 1..l /\ (i < k => x < y) /\ (i = k => x = y)
    BY <2>1 DEF Within
  <2>3. q = y
    BY <2>1 DEF Prefix
  <2> HIDE DEF x, y, q
  <2>4. x \in 1..q
    BY <1>1, <1>2, <2>1, <2>2, <2>3
  <2> QED
    BY <2>4 DEF x
<1>4. z = head \o o /\ c = hb \o tb
  BY DEF Moved, Shifted
<1> HIDE DEF q, z, c
<1>5. head \in Seq(Item) /\ Len(head) = q
  BY <1>1, <1>2, PartIs
<1>6. hb \in Seq(Nat) /\ Len(hb) = k /\ \A i \in 1..k : hb[i] = sb[i]
  BY <1>1
<1>7. tb \in Seq(Nat) /\ Len(tb) = m /\ \A i \in 1..m : tb[i] = b[i] + q
  <2>1. \A i \in 1..m : b[i] \in Nat
    OBVIOUS
  <2>2. \A i \in 1..m : b[i] + q \in Nat
    BY <1>2, <2>1
  <2> HIDE DEF m
  <2>3. tb \in [1..m -> Nat]
    BY <2>2
  <2>4. \A i \in 1..m : tb[i] = b[i] + q
    OBVIOUS
  <2> HIDE DEF tb
  <2>5. tb \in Seq(Nat) /\ Len(tb) = m
    BY <1>1, <2>3, SeqDef, LenProperties
  <2> QED
    BY <2>4, <2>5
<1> HIDE DEF head, hb, tb, m
<1>8. z \in Seq(Item) /\ Len(z) = q + Len(o)
  BY <1>4, <1>5, JoinIs
<1>9. hb \in Seq(Nat) /\ tb \in Seq(Nat)
  BY <1>6, <1>7
<1>10. /\ hb \o tb \in Seq(Nat) /\ Len(hb \o tb) = Len(hb) + Len(tb)
       /\ \A i \in 1..Len(hb) : (hb \o tb)[i] = hb[i]
       /\ \A i \in 1..Len(tb) : (hb \o tb)[Len(hb) + i] = tb[i]
  BY <1>9
<1>11. /\ c \in Seq(Nat) /\ Len(c) = k + m
       /\ \A i \in 1..k : c[i] = sb[i]
       /\ \A i \in 1..m : c[k + i] = b[i] + q
  <2>1. Len(hb) = k /\ Len(tb) = m
    BY <1>6, <1>7
  <2>2. /\ c \in Seq(Nat) /\ Len(c) = k + m
        /\ \A i \in 1..k : c[i] = hb[i]
        /\ \A i \in 1..m : c[k + i] = tb[i]
    BY <1>4, <1>10, <2>1, Zenon
  <2> QED
    BY <1>6, <1>7, <2>2, Zenon
<1> QED
  BY <1>1, <1>2, <1>3, <1>5, <1>8, <1>11, Zenon DEF q, c, z, m, head, l

(* The units of an emission moved behind k others are those k, and then    *)
(* its own.                                                                *)
LEMMA Shifts ==
  ASSUME NEW so \in Seq(Item), NEW sb \in Seq(Nat), Within(so, sb), NEW k \in 0..Len(sb),
         NEW o \in Seq(Item), NEW b \in Seq(Nat), Within(o, b)
  PROVE  LET c == Shifted(sb, k, b)
             z == Moved(so, sb, k, o)
         IN  /\ Within(z, c) /\ EndOf(c) = Prefix(sb, k) + EndOf(b)
             /\ Rest(z, c) = Rest(o, b)
             /\ Pieces(z, c) = SubSeq(Pieces(so, sb), 1, k) \o Pieces(o, b)
<1> DEFINE q == Prefix(sb, k)
           m == Len(b)
           l == Len(o)
           e == EndOf(b)
           head == SubSeq(so, 1, q)
           c == Shifted(sb, k, b)
           z == Moved(so, sb, k, o)
<1>1. /\ q \in 0..Len(so) /\ q \in Nat /\ k \in Nat /\ m \in Nat /\ l \in Nat
      /\ z \in Seq(Item) /\ Len(z) = q + l /\ Len(head) = q
      /\ c \in Seq(Nat) /\ Len(c) = k + m
  BY ShiftedIs
<1>2. \A i \in 1..k : c[i] = sb[i] /\ sb[i] \in 1..q
  BY ShiftedIs
<1>3. \A i \in 1..m : c[k + i] = b[i] + q
  BY ShiftedIs
<1>4. \A i \in 1..m : b[i] \in 1..l
  BY DEF Within
<1>5. \A i, j \in 1..m : i < j => b[i] < b[j]
  BY DEF Within
<1>6. \A i, j \in 1..k : i < j => sb[i] < sb[j]
  <2>1. \A i \in 1..k : i \in 1..Len(sb)
    OBVIOUS
  <2> QED
    BY <2>1 DEF Within
<1>7. e \in 0..l /\ (m = 0 => e = 0) /\ (m # 0 => e = b[m])
  BY EndIs
<1>8. k # 0 => q = sb[k]
  BY DEF Prefix
<1>9. k = 0 => q = 0
  BY DEF Prefix
<1>10. z = head \o o /\ head \in Seq(Item) /\ \A i \in 1..q : head[i] = so[i]
  <2>1. q <= Len(so)
    BY <1>1
  <2> HIDE DEF q
  <2>2. SubSeq(so, 1, q) \in Seq(Item) /\ \A i \in 1..q : SubSeq(so, 1, q)[i] = so[i]
    BY <1>1, <2>1
  <2> QED
    BY <2>2 DEF Moved, q
<1> HIDE DEF q, m, l, e, head, c, z
<1>11. ASSUME NEW i \in 1..Len(c) PROVE i \in 1..k \/ \E j \in 1..m : i = k + j
  <2>1. i \in 1..k \/ (i - k \in 1..m /\ i = k + (i - k))
    BY <1>1
  <2> QED
    BY <2>1
<1>12. Within(z, c)
  <2>1. ASSUME NEW i \in 1..Len(c) PROVE c[i] \in 1..Len(z)
    <3>1. CASE i \in 1..k
      <4>1. c[i] \in 1..q
        BY <1>2, <3>1
      <4> QED
        BY <1>1, <4>1
    <3>2. CASE \E j \in 1..m : i = k + j
      <4>1. PICK j \in 1..m : i = k + j
        BY <3>2
      <4> DEFINE y == b[j]
      <4>2. c[i] = y + q /\ y \in 1..l
        BY <1>3, <1>4, <4>1
      <4> HIDE DEF y
      <4> QED
        BY <1>1, <4>2
    <3> QED
      BY <1>11, <3>1, <3>2
  <2>2. ASSUME NEW i \in 1..Len(c), NEW j \in 1..Len(c), i < j PROVE c[i] < c[j]
    <3>1. CASE j \in 1..k
      <4>1. i \in 1..k
        BY <1>1, <2>2, <3>1
      <4> QED
        BY <1>2, <1>6, <2>2, <3>1, <4>1
    <3>2. CASE \E n \in 1..m : j = k + n
      <4>1. PICK n \in 1..m : j = k + n
        BY <3>2
      <4> DEFINE y == b[n]
      <4>2. c[j] = y + q /\ y \in 1..l
        BY <1>3, <1>4, <4>1
      <4>3. CASE i \in 1..k
        <5>1. c[i] \in 1..q
          BY <1>2, <4>3
        <5> HIDE DEF y
        <5> QED
          BY <1>1, <4>2, <5>1
      <4>4. CASE \E h \in 1..m : i = k + h
        <5>1. PICK h \in 1..m : i = k + h
          BY <4>4
        <5>2. h < n
          BY <1>1, <2>2, <4>1, <5>1
        <5> DEFINE x == b[h]
        <5>3. c[i] = x + q /\ x \in 1..l /\ x < y
          BY <1>3, <1>4, <1>5, <5>1, <5>2
        <5> HIDE DEF x, y
        <5> QED
          BY <1>1, <4>2, <5>3
      <4> QED
        BY <1>11, <4>3, <4>4
    <3> QED
      BY <1>11, <3>1, <3>2
  <2> QED
    BY <2>1, <2>2, Zenon DEF Within
<1>13. EndOf(c) = q + e
  <2>1. c = <<>> <=> Len(c) = 0
    BY <1>1, EmptySeq
  <2>2. CASE m = 0
    <3>1. CASE k = 0
      <4>1. EndOf(c) = 0
        BY <1>1, <2>1, <2>2, <3>1 DEF EndOf
      <4> QED
        BY <1>7, <1>9, <2>2, <3>1, <4>1
    <3>2. CASE k # 0
      <4>1. Len(c) = k /\ k \in 1..k /\ c # <<>>
        BY <1>1, <2>1, <2>2, <3>2
      <4>2. EndOf(c) = c[k]
        BY <4>1 DEF EndOf
      <4>3. c[k] = q
        BY <1>2, <1>8, <3>2, <4>1
      <4> QED
        BY <1>1, <1>7, <2>2, <4>2, <4>3
    <3> QED
      BY <3>1, <3>2
  <2>3. CASE m # 0
    <3>1. Len(c) = k + m /\ m \in 1..m /\ c # <<>>
      BY <1>1, <2>1, <2>3
    <3>2. EndOf(c) = c[k + m]
      BY <3>1 DEF EndOf
    <3>3. c[k + m] = e + q
      BY <1>3, <1>7, <2>3, <3>1
    <3> QED
      BY <1>1, <1>7, <3>2, <3>3
  <2> QED
    BY <2>2, <2>3
<1>14. Rest(z, c) = Rest(o, b)
  <2>1. Rest(z, c) = SubSeq(z, q + (e + 1), q + l)
    <3>1. EndOf(c) + 1 = q + (e + 1)
      BY <1>1, <1>7, <1>13
    <3> QED
      BY <1>1, <3>1 DEF Rest
  <2>2. e + 1 \in Nat \ {0} /\ l \in Nat /\ l <= Len(o)
    BY <1>1, <1>7 DEF l
  <2>3. SubSeq(head \o o, Len(head) + (e + 1), Len(head) + l) = SubSeq(o, e + 1, l)
    BY <1>10, <2>2, PartShifts, Zenon
  <2> QED
    BY <1>1, <1>10, <2>1, <2>3 DEF Rest, e, l
<1>15. Pieces(z, c) = SubSeq(Pieces(so, sb), 1, k) \o Pieces(o, b)
  <2> DEFINE u == Pieces(z, c)
             v == Pieces(o, b)
             r == Pieces(so, sb)
             w == SubSeq(r, 1, k) \o v
             t == SubSeq(r, 1, k)
  <2>1. /\ u \in Seq(Pages) /\ Len(u) = Len(c)
        /\ \A i \in 1..Len(c) : u[i] = SubSeq(z, First(c, i), c[i])
    BY <1>1, <1>12, PiecesAre, Zenon
  <2>2. /\ v \in Seq(Pages) /\ Len(v) = m
        /\ \A i \in 1..m : v[i] = SubSeq(o, First(b, i), b[i])
    BY PiecesAre, Zenon DEF m
  <2>3. /\ r \in Seq(Pages) /\ Len(r) = Len(sb)
        /\ \A i \in 1..Len(sb) : r[i] = SubSeq(so, First(sb, i), sb[i])
    BY PiecesAre, Zenon
  <2> DEFINE T == Pages
  <2>4. v \in Seq(T) /\ r \in Seq(T) /\ k \in 0..Len(r)
    BY <2>2, <2>3
  <2> HIDE DEF T, u, v, r
  <2>5. t \in Seq(T) /\ Len(t) = k /\ \A i \in 1..k : t[i] = r[i]
    BY <2>4
  <2>6. w = t \o v
    OBVIOUS
  <2> HIDE DEF t, w
  <2>7. t \in Seq(T) /\ v \in Seq(T)
    BY <2>4, <2>5
  <2>8. /\ t \o v \in Seq(T) /\ Len(t \o v) = Len(t) + Len(v)
        /\ \A i \in 1..Len(t) : (t \o v)[i] = t[i]
        /\ \A i \in 1..Len(v) : (t \o v)[Len(t) + i] = v[i]
    BY <2>7
  <2>9. Len(t) = k /\ Len(v) = m
    BY <2>2, <2>5
  <2>10. /\ w \in Seq(Pages) /\ Len(w) = k + m
         /\ \A i \in 1..k : w[i] = r[i]
         /\ \A i \in 1..m : w[k + i] = v[i]
    BY <2>5, <2>6, <2>8, <2>9, Zenon DEF T
  <2>11. \A i \in 1..k : u[i] = w[i]
    <3> TAKE i \in 1..k
    <3> DEFINE f == First(sb, i)
               n == sb[i]
    <3>1. i \in 1..Len(c) /\ i \in 1..Len(sb)
      BY <1>1
    <3>2. c[i] = n /\ n \in 1..q
      BY <1>2
    <3>3. f \in 1..Len(so) /\ f <= n
      BY <3>1, EndIs, FirstIs
    <3>4. First(c, i) = f
      <4>1. i # 1 => i - 1 \in 1..k
        BY <1>1
      <4>2. i # 1 => c[i - 1] = sb[i - 1]
        BY <1>2, <4>1
      <4> QED
        BY <4>2, Zenon DEF First
    <3>5. u[i] = SubSeq(z, f, n)
      BY <2>1, <3>1, <3>2, <3>4, Zenon
    <3>6. w[i] = SubSeq(so, f, n)
      BY <2>3, <2>10, <3>1, Zenon
    <3> HIDE DEF f, n
    <3>7. f \in Nat \ {0} /\ n \in Nat /\ n <= q /\ n <= Len(head) /\ q <= Len(so) /\ Len(so) \in Nat
      <4>1. Len(so) \in Nat
        BY EndIs
      <4>2. f \in Nat \ {0} /\ n \in Nat /\ n <= q
        BY <1>1, <3>2, <3>3, <4>1
      <4> QED
        BY <1>1, <4>1, <4>2
    <3>8. SubSeq(head \o o, f, n) = SubSeq(head, f, n)
      BY <1>10, <3>7, PartStays
    <3>9. head \o SubSeq(so, q + 1, Len(so)) = so
      <4>1. SubSeq(so, 1, q) \o SubSeq(so, q + 1, Len(so)) = SubSeq(so, 1, Len(so))
        <5>1. 1 \in 1..Len(so) + 1 /\ q \in (1 - 1)..Len(so) /\ Len(so) \in q..Len(so)
          BY <1>1, <3>7
        <5> QED
          BY <5>1, ConcatAdjacentSubSeq
      <4>2. SubSeq(so, 1, Len(so)) = so
        BY SubSeqFull
      <4> QED
        BY <4>1, <4>2 DEF head
    <3>10. SubSeq(head \o SubSeq(so, q + 1, Len(so)), f, n) = SubSeq(head, f, n)
      <4>1. SubSeq(so, q + 1, Len(so)) \in Seq(Item)
        BY <1>1, <3>7, PartIs
      <4> QED
        BY <1>10, <3>7, <4>1, PartStays
    <3> QED
      BY <1>10, <3>5, <3>6, <3>8, <3>9, <3>10, Zenon
  <2>12. \A i \in 1..m : u[k + i] = w[k + i]
    <3> TAKE i \in 1..m
    <3> DEFINE f == First(b, i)
               n == b[i]
    <3>1. k + i \in 1..Len(c) /\ i \in 1..Len(b)
      BY <1>1 DEF m
    <3>2. c[k + i] = n + q /\ n \in 1..l
      BY <1>3, <1>4
    <3>3. f \in 1..Len(o) /\ f <= n
      BY <3>1, EndIs, FirstIs
    <3>4. First(c, k + i) = q + f
      <4>1. CASE i = 1
        <5>1. f = 1
          BY <4>1 DEF First
        <5>2. CASE k = 0
          <6>1. First(c, k + i) = 1
            BY <4>1, <5>2 DEF First
          <6> QED
            BY <1>9, <5>1, <5>2, <6>1
        <5>3. CASE k # 0
          <6>1. k + i # 1 /\ k + i - 1 = k /\ k \in 1..k
            BY <1>1, <4>1, <5>3
          <6>2. First(c, k + i) = c[k] + 1
            BY <6>1 DEF First
          <6>3. c[k] = q
            BY <1>2, <1>8, <5>3, <6>1
          <6> QED
            BY <1>1, <5>1, <6>2, <6>3
        <5> QED
          BY <5>2, <5>3
      <4>2. CASE i # 1
        <5>1. k + i # 1 /\ k + i - 1 = k + (i - 1) /\ i - 1 \in 1..m
          BY <1>1, <4>2
        <5> DEFINE y == b[i - 1]
        <5>2. First(c, k + i) = c[k + (i - 1)] + 1 /\ f = y + 1
          BY <4>2, <5>1 DEF First
        <5>3. c[k + (i - 1)] = y + q /\ y \in 1..l
          BY <1>3, <1>4, <5>1
        <5> HIDE DEF y, f
        <5> QED
          BY <1>1, <5>2, <5>3
      <4> QED
        BY <4>1, <4>2
    <3>5. u[k + i] = SubSeq(z, q + f, n + q)
      BY <2>1, <3>1, <3>2, <3>4, Zenon
    <3>6. w[k + i] = SubSeq(o, f, n)
      BY <2>2, <2>10, Zenon
    <3> HIDE DEF f, n
    <3>7. f \in Nat \ {0} /\ n \in Nat /\ n <= Len(o) /\ n + q = q + n
      BY <1>1, <3>2, <3>3 DEF l
    <3>8. SubSeq(head \o o, Len(head) + f, Len(head) + n) = SubSeq(o, f, n)
      BY <1>10, <3>7, PartShifts
    <3> QED
      BY <1>1, <1>10, <3>5, <3>6, <3>7, <3>8, Zenon
  <2>13. \A i \in 1..Len(u) : u[i] = w[i]
    <3> TAKE i \in 1..Len(u)
    <3>1. i \in 1..k \/ \E j \in 1..m : i = k + j
      BY <1>11, <2>1
    <3> QED
      BY <2>11, <2>12, <3>1, Zenon
  <2>14. Len(u) = Len(w)
    BY <1>1, <2>1, <2>10
  <2>15. u = w
    BY <2>1, <2>10, <2>13, <2>14, SamePages, Zenon
  <2> QED
    BY <2>15 DEF u, v, r, w
<1> QED
  BY <1>12, <1>13, <1>14, <1>15, Zenon DEF q, e, c, z

-----------------------------------------------------------------------------
(* Emissions, and what is behind the last bound of one.                    *)
Emits   == {"pending", "passthrough", "buffered"}
Results == [out : Seq(Item), bounds : Seq(Nat), emit : Emits]
Fit(e)  == e \in Results /\ Ascending(e)
rest(e) == SubSeq(e.out, LastEnd(e) + 1, Len(e.out))

(* Every byte of e is in a unit.                                           *)
Handed(e) == Framed(e) => LastEnd(e) = Len(e.out)

(* What fits is read as its bytes and its boundaries say.                  *)
LEMMA Fits ==
  ASSUME NEW e, Fit(e)
  PROVE  /\ e.out \in Seq(Item) /\ e.bounds \in Seq(Nat) /\ e.emit \in Emits
         /\ Within(e.out, e.bounds) /\ units(e) = Pieces(e.out, e.bounds)
         /\ LastEnd(e) = EndOf(e.bounds) /\ rest(e) = Rest(e.out, e.bounds)
<1>1. e.out \in Seq(Item) /\ e.bounds \in Seq(Nat) /\ e.emit \in Emits
  BY DEF Fit, Results
<1>2. Within(e.out, e.bounds)
  BY Zenon DEF Fit, Ascending, Within
<1>3. units(e) = Pieces(e.out, e.bounds)
  BY Zenon DEF units, Pieces, First
<1>4. LastEnd(e) = EndOf(e.bounds)
  BY Zenon DEF LastEnd, EndOf, Framed
<1> QED
  BY <1>1, <1>2, <1>3, <1>4, Zenon DEF rest, Rest

(* What is known of every emission.                                        *)
LEMMA Known ==
  ASSUME NEW e, Fit(e)
  PROVE  /\ units(e) \in Seq(Pages) /\ Len(units(e)) = Len(e.bounds) /\ Len(e.bounds) \in Nat
         /\ \A i \in 1..Len(e.bounds) : units(e)[i] \in Pages /\ units(e)[i] # <<>>
         /\ rest(e) \in Pages /\ (rest(e) = <<>> <=> LastEnd(e) = Len(e.out))
         /\ LastEnd(e) \in 0..Len(e.out) /\ (LastEnd(e) = 0 <=> ~Framed(e))
         /\ Len(e.out) \in Nat /\ (Framed(e) <=> Len(e.bounds) # 0)
         /\ (e.out = <<>> <=> Len(e.out) = 0)
<1>1. /\ e.out \in Seq(Item) /\ e.bounds \in Seq(Nat) /\ e.emit \in Emits
      /\ Within(e.out, e.bounds) /\ units(e) = Pieces(e.out, e.bounds)
      /\ LastEnd(e) = EndOf(e.bounds) /\ rest(e) = Rest(e.out, e.bounds)
  BY Fits, Zenon
<1> DEFINE o == e.out
           b == e.bounds
<1>2. o \in Seq(Item) /\ b \in Seq(Nat) /\ Within(o, b)
  BY <1>1
<1>3. Framed(e) <=> b # <<>>
  BY DEF Framed
<1> HIDE DEF o, b
<1>4. /\ Pieces(o, b) \in Seq(Pages) /\ Len(Pieces(o, b)) = Len(b)
      /\ \A i \in 1..Len(b) : Pieces(o, b)[i] \in Pages /\ Pieces(o, b)[i] # <<>>
  BY <1>2, PiecesAre, Zenon
<1>5. Rest(o, b) \in Pages /\ (Rest(o, b) = <<>> <=> EndOf(b) = Len(o))
  BY <1>2, RestIs, Zenon
<1>6. /\ EndOf(b) \in 0..Len(o) /\ (EndOf(b) = 0 <=> b = <<>>) /\ (b = <<>> <=> Len(b) = 0)
      /\ Len(o) \in Nat /\ Len(b) \in Nat
  BY <1>2, EndIs, Zenon
<1>7. o = <<>> <=> Len(o) = 0
  BY <1>2, EmptySeq
<1> QED
  BY <1>1, <1>3, <1>4, <1>5, <1>6, <1>7, Zenon DEF o, b

(* More of what is said makes more of the rest.                            *)
LEMMA Says1 ==
  ASSUME NEW e, Fit(e), NEW d \in Results, NEW x \in Seq(Item),
         d.out = e.out \o x, d.bounds = e.bounds
  PROVE  Fit(d) /\ units(d) = units(e) /\ rest(d) = rest(e) \o x
<1>1. /\ e.out \in Seq(Item) /\ e.bounds \in Seq(Nat)
      /\ Within(e.out, e.bounds) /\ units(e) = Pieces(e.out, e.bounds)
      /\ rest(e) = Rest(e.out, e.bounds)
  BY Fits, Zenon
<1>2. /\ Within(e.out \o x, e.bounds) /\ Pieces(e.out \o x, e.bounds) = Pieces(e.out, e.bounds)
      /\ Rest(e.out \o x, e.bounds) = Rest(e.out, e.bounds) \o x
  BY <1>1, Grows, Zenon
<1>3. Within(d.out, d.bounds)
  BY <1>2, Zenon
<1>4. Fit(d)
  BY <1>3, Zenon DEF Fit, Ascending, Within
<1>5. units(d) = Pieces(d.out, d.bounds) /\ rest(d) = Rest(d.out, d.bounds)
  BY <1>4, Fits, Zenon
<1> QED
  BY <1>1, <1>2, <1>4, <1>5, Zenon

(* An emission with the bytes and boundaries of another says the same.     *)
LEMMA Says0 ==
  ASSUME NEW e, Fit(e), NEW d \in Results, d.out = e.out, d.bounds = e.bounds
  PROVE  Fit(d) /\ units(d) = units(e) /\ rest(d) = rest(e)
<1>1. Fit(d)
  BY Zenon DEF Fit, Ascending
<1>2. units(d) = units(e)
  BY Zenon DEF units
<1>3. LastEnd(d) = LastEnd(e)
  BY Zenon DEF LastEnd, Framed
<1> QED
  BY <1>1, <1>2, <1>3, Zenon DEF rest

(* A cut leaves nothing open.                                              *)
LEMMA ClosedIs ==
  ASSUME NEW e, Fit(e)
  PROVE  /\ Fit(close(e)) /\ close(e).out = e.out /\ close(e).emit = e.emit
         /\ rest(close(e)) = <<>> /\ LastEnd(close(e)) = Len(e.out)
         /\ units(close(e)) = IF rest(e) = <<>> THEN units(e) ELSE Append(units(e), rest(e))
         /\ (Framed(e) => Framed(close(e)))
<1>1. /\ e.out \in Seq(Item) /\ e.bounds \in Seq(Nat) /\ e.emit \in Emits
      /\ Within(e.out, e.bounds) /\ units(e) = Pieces(e.out, e.bounds)
      /\ LastEnd(e) = EndOf(e.bounds) /\ rest(e) = Rest(e.out, e.bounds)
  BY Fits, Zenon
<1>2. /\ rest(e) = <<>> <=> LastEnd(e) = Len(e.out)
      /\ LastEnd(e) \in 0..Len(e.out) /\ Len(e.out) \in Nat
  BY Known, Zenon
<1>3. CASE ~(LastEnd(e) < Len(e.out))
  <2>1. close(e) = e
    BY <1>3, Zenon DEF close
  <2>2. LastEnd(e) = Len(e.out)
    BY <1>2, <1>3
  <2> QED
    BY <1>2, <2>1, <2>2, Zenon
<1>4. CASE LastEnd(e) < Len(e.out)
  <2> DEFINE o == e.out
             b == e.bounds
             c == Append(b, Len(o))
             d == [e EXCEPT !.bounds = c]
  <2>1. close(e) = d
    BY <1>4, Zenon DEF close
  <2>2. o \in Seq(Item) /\ b \in Seq(Nat) /\ Within(o, b) /\ EndOf(b) < Len(o)
    BY <1>1, <1>4
  <2>3. /\ c \in Seq(Nat) /\ c # <<>> /\ Within(o, c) /\ EndOf(c) = Len(o)
        /\ Pieces(o, c) = Append(Pieces(o, b), Rest(o, b))
    <3> HIDE DEF o, b
    <3> QED
      BY <2>2, CutsOffRest, Zenon
  <2> HIDE DEF c
  <2>4. d \in Results /\ d.out = o /\ d.bounds = c /\ d.emit = e.emit
    BY <1>1, <2>3 DEF Fit, Results
  <2> HIDE DEF d
  <2>5. Fit(d)
    BY <2>3, <2>4, Zenon DEF Fit, Ascending, Within
  <2>6. units(d) = Pieces(o, c) /\ LastEnd(d) = Len(o)
    BY <2>3, <2>4, <2>5, Fits, Zenon
  <2>7. rest(d) = <<>>
    BY <2>4, <2>5, <2>6, Known, Zenon
  <2>8. Framed(d)
    BY <2>3, <2>4, Zenon DEF Framed
  <2>9. rest(e) # <<>>
    <3>1. LastEnd(e) # Len(e.out)
      BY <1>2, <1>4
    <3> QED
      BY <1>2, <3>1, Zenon
  <2> QED
    BY <1>1, <2>1, <2>3, <2>4, <2>5, <2>6, <2>7, <2>8, <2>9, Zenon DEF o, b
<1> QED
  BY <1>3, <1>4

(* materialise puts the first k units of another in front.                 *)
LEMMA MaterialisedIs ==
  ASSUME NEW e, Fit(e), NEW f, Fit(f), NEW k \in 0..Len(f.bounds)
  PROVE  LET m == materialise(f, k, e)
         IN  /\ Fit(m) /\ m.emit = e.emit /\ rest(m) = rest(e)
             /\ units(m) = SubSeq(units(f), 1, k) \o units(e)
<1> DEFINE m == materialise(f, k, e)
           c == Shifted(f.bounds, k, e.bounds)
           z == Moved(f.out, f.bounds, k, e.out)
<1>1. /\ e.out \in Seq(Item) /\ e.bounds \in Seq(Nat) /\ e.emit \in Emits
      /\ Within(e.out, e.bounds) /\ units(e) = Pieces(e.out, e.bounds)
      /\ rest(e) = Rest(e.out, e.bounds)
  BY Fits, Zenon
<1>2. /\ f.out \in Seq(Item) /\ f.bounds \in Seq(Nat)
      /\ Within(f.out, f.bounds) /\ units(f) = Pieces(f.out, f.bounds)
  BY Fits, Zenon
<1>3. z \in Seq(Item) /\ c \in Seq(Nat)
  BY <1>1, <1>2, ShiftedIs, Zenon
<1>4. /\ Within(z, c) /\ Rest(z, c) = Rest(e.out, e.bounds)
      /\ Pieces(z, c) = SubSeq(Pieces(f.out, f.bounds), 1, k) \o Pieces(e.out, e.bounds)
  BY <1>1, <1>2, Shifts, ZenonT(40)
<1>5. m = [e EXCEPT !.out = z, !.bounds = c]
  BY DEF materialise, Moved, Shifted, Prefix
<1> HIDE DEF m, c, z
<1>6. m \in Results /\ m.out = z /\ m.bounds = c /\ m.emit = e.emit
  BY <1>1, <1>3, <1>5 DEF Fit, Results
<1>7. Fit(m)
  BY <1>4, <1>6, Zenon DEF Fit, Ascending, Within
<1>8. units(m) = Pieces(z, c) /\ rest(m) = Rest(z, c)
  BY <1>6, <1>7, Fits, Zenon
<1> QED
  BY <1>1, <1>2, <1>4, <1>6, <1>7, <1>8, Zenon DEF m

(* Parts of a sequence of units.                                           *)
LEMMA PagesAre ==
  ASSUME NEW v \in Seq(Pages)
  PROVE  /\ Len(v) \in Nat /\ (v = <<>> <=> Len(v) = 0)
         /\ SubSeq(v, 1, 0) = <<>> /\ SubSeq(v, 1, Len(v)) = v
         /\ SubSeq(v, Len(v) + 1, Len(v)) = <<>>
         /\ <<>> \o v = v /\ v \o <<>> = v
         /\ \A p \in Pages : Append(v, p) # <<>>
<1> DEFINE T == Pages
<1>1. v \in Seq(T)
  OBVIOUS
<1> HIDE DEF T
<1>2. Len(v) \in Nat /\ (v = <<>> <=> Len(v) = 0)
  BY <1>1, EmptySeq
<1>3. SubSeq(v, 1, Len(v)) = v
  BY <1>1, SubSeqFull
<1>4. SubSeq(v, 1, 0) = <<>> /\ SubSeq(v, Len(v) + 1, Len(v)) = <<>>
  BY <1>1, <1>2, SubSeqEmpty
<1>5. <<>> \o v = v /\ v \o <<>> = v
  BY <1>1
<1>6. \A p \in T : Append(v, p) # <<>>
  BY <1>1
<1> QED
  BY <1>2, <1>3, <1>4, <1>5, <1>6 DEF T

(* What is left of the units from the u-th on, taken one at a time.        *)
LEMMA PagesFrom ==
  ASSUME NEW v \in Seq(Pages), NEW u \in 1..Len(v)
  PROVE  LET t == SubSeq(v, u, Len(v))
         IN  /\ t \in Seq(Pages) /\ t # <<>> /\ Len(t) = Len(v) - u + 1
             /\ Head(t) = v[u] /\ v[u] \in Pages
             /\ Tail(t) = SubSeq(v, u + 1, Len(v))
             /\ Append(SubSeq(v, 1, u - 1), v[u]) = SubSeq(v, 1, u)
<1> DEFINE T == Pages
           t == SubSeq(v, u, Len(v))
           w == SubSeq(v, u + 1, Len(v))
           l == Len(v)
<1>1. v \in Seq(T)
  OBVIOUS
<1> HIDE DEF T
<1>2. u \in Nat \ {0} /\ l \in Nat /\ u <= l /\ v[u] \in T
  BY <1>1
<1>3. t \in Seq(T) /\ Len(t) = l - u + 1 /\ \A i \in 1..(l - u + 1) : t[i] = v[u + i - 1]
  BY <1>1
<1>4. t # <<>>
  <2>1. Len(t) # 0
    BY <1>2, <1>3
  <2> QED
    BY <1>3, <2>1, EmptySeq
<1>5. Head(t) = v[u]
  BY <1>2, <1>3, <1>4
<1>6. /\ w \in Seq(T) /\ Len(w) = IF u + 1 <= l THEN l - u ELSE 0
      /\ \A i \in 1..(l - u) : w[i] = v[u + 1 + i - 1]
  BY <1>1
<1>7. Tail(t) = w
  <2> HIDE DEF t, w
  <2>1. /\ Tail(t) \in Seq(T) /\ Len(Tail(t)) = Len(t) - 1
        /\ \A i \in 1..(Len(t) - 1) : Tail(t)[i] = t[i + 1]
    BY <1>3, <1>4
  <2> DEFINE r == Tail(t)
  <2> HIDE DEF r
  <2>2. r \in Seq(T) /\ Len(r) = l - u /\ Len(w) = l - u
    BY <1>2, <1>3, <1>6, <2>1 DEF r
  <2>3. \A i \in 1..(l - u) : r[i] = w[i]
    <3> TAKE i \in 1..(l - u)
    <3>1. i \in 1..(Len(t) - 1) /\ i + 1 \in 1..(l - u + 1) /\ u + (i + 1) - 1 = u + 1 + i - 1
      BY <1>2, <1>3
    <3>2. r[i] = t[i + 1] /\ t[i + 1] = v[u + (i + 1) - 1]
      BY <1>3, <2>1, <3>1 DEF r
    <3>3. w[i] = v[u + 1 + i - 1]
      BY <1>6
    <3> QED
      BY <3>1, <3>2, <3>3
  <2>4. r = w
    BY <1>6, <2>2, <2>3, SeqEqual
  <2> QED
    BY <2>4 DEF r
<1>8. Append(SubSeq(v, 1, u - 1), v[u]) = SubSeq(v, 1, u)
  BY <1>1, <1>2
<1> QED
  BY <1>2, <1>3, <1>4, <1>5, <1>7, <1>8 DEF T

(* What a stage is handed: its units, or the whole for one.                *)
LEMMA EmittedIs ==
  ASSUME NEW e, Fit(e), Handed(e)
  PROVE  /\ EmittedUnits(e) \in Seq(Pages)
         /\ EmittedUnits(e) = <<>> <=> e.out = <<>>
         /\ Framed(e) => EmittedUnits(e) = units(e)
         /\ ~Framed(e) => EmittedUnits(e) = IF e.out = <<>> THEN <<>> ELSE <<e.out>>
         /\ ~Framed(e) => units(e) = <<>> /\ rest(e) = e.out
         /\ e.out = <<>> => EmittedUnits(e) = units(e)
<1>1. /\ units(e) \in Seq(Pages) /\ Len(units(e)) = Len(e.bounds) /\ Len(e.bounds) \in Nat
      /\ LastEnd(e) = 0 <=> ~Framed(e)
      /\ Framed(e) <=> Len(e.bounds) # 0
      /\ e.out = <<>> <=> Len(e.out) = 0
  BY Known, Zenon
<1>2. units(e) = <<>> <=> ~Framed(e)
  <2>1. units(e) = <<>> <=> Len(units(e)) = 0
    BY <1>1, PagesAre, Zenon
  <2> QED
    BY <1>1, <2>1, Zenon
<1>3. e.out \in Seq(Item)
  BY Fits, Zenon
<1>4. <<e.out>> \in Seq(Pages) /\ <<e.out>> # <<>>
  BY <1>3 DEF Pages
<1>5. ~Framed(e) => rest(e) = e.out
  <2>1. SubSeq(e.out, 1, Len(e.out)) = e.out
    BY <1>3, SubSeqFull
  <2>2. ~Framed(e) => LastEnd(e) + 1 = 1
    BY <1>1
  <2> QED
    BY <2>1, <2>2, Zenon DEF rest
<1>6. Framed(e) => e.out # <<>>
  BY <1>1, Zenon DEF Handed
<1> QED
  BY <1>1, <1>2, <1>4, <1>5, <1>6, Zenon DEF EmittedUnits

-----------------------------------------------------------------------------
(* A stage's run: what it reads, s; what it writes, d; the call c; the     *)
(* unit u it hears; whether it rewrote something, cp; and whether all it   *)
(* heard came back untouched, v.                                           *)
Calls    == {"bytes", "eof", "tick"}
Empty(e) == e.out = <<>> /\ e.bounds = <<>>

Run(s, d, c, u, cp, v) ==
  /\ Handed(s)
  /\ c = "bytes" => s.out # <<>> /\ (Framed(s) => u <= Len(s.bounds)) /\ (~Framed(s) => u = 1)
  /\ c = "tick" => Empty(s)
  /\ c \in Calls /\ d.emit # "buffered" /\ (Framed(s) => ~cp) => Empty(d)
  /\ c \in Calls /\ v => d.emit # "buffered" /\ (Framed(s) => ~cp)
  /\ c = "done" /\ d.emit # "passthrough" => Handed(d)
  /\ c = "done" /\ s.out # <<>> /\ v => d.emit = "passthrough" /\ d.out = <<>>

(* The same in units: Pipeline's view of itself, of a run's parts.         *)
HeardIn(s, c, u) ==
  IF c = "tick" \/ (c = "eof" /\ Framed(s)) THEN <<>>
  ELSE IF Framed(s) THEN units(s)[u] ELSE s.out

TodoIn(s, c, u) ==
  CASE c = "none"                -> EmittedUnits(s)
    [] c = "bytes"               -> SubSeq(EmittedUnits(s), u, Len(EmittedUnits(s)))
    [] c = "eof" /\ ~Framed(s)   -> EmittedUnits(s)
    [] OTHER                     -> <<>>

BackIn(s, c, u, cp) ==
  IF ~Framed(s) \/ cp THEN <<>>
  ELSE SubSeq(units(s), 1, IF c = "bytes" THEN u - 1 ELSE Len(units(s)))

OutIn(s, d, c, u, cp) ==
  CASE c \in Calls -> BackIn(s, c, u, cp) \o units(d)
    [] c = "done"  -> EmittedUnits(IF d.emit = "passthrough" THEN s ELSE d)
    [] OTHER       -> <<>>

(* What of the input belongs to the open unit, and a unit closed.          *)
KeptIn(d, x)   == IF d.emit = "passthrough" THEN x ELSE <<>>
ClosedOn(w, x) == IF x = <<>> THEN w ELSE Append(w, x)

(* What is heard is the first of what is still to be heard.                *)
LEMMA HeardIs ==
  ASSUME NEW s, NEW d, NEW c \in Calls, NEW u \in Nat \ {0}, NEW cp, NEW v,
         Fit(s), Run(s, d, c, u, cp, v)
  PROVE  LET t == TodoIn(s, c, u)
         IN  /\ HeardIn(s, c, u) = (IF t = <<>> THEN <<>> ELSE Head(t))
             /\ HeardIn(s, c, u) \in Seq(Item)
             /\ c = "bytes" => t # <<>> /\ HeardIn(s, c, u) # <<>>
             /\ c = "bytes" /\ Framed(s) =>
                  /\ Tail(t) = SubSeq(units(s), u + 1, Len(units(s)))
                  /\ HeardIn(s, c, u) = units(s)[u] /\ u \in 1..Len(units(s))
             /\ ~(c = "bytes" /\ Framed(s)) =>
                  /\ t = <<>> \/ Tail(t) = <<>>
                  /\ t = IF HeardIn(s, c, u) = <<>> THEN <<>> ELSE <<HeardIn(s, c, u)>>
             /\ ~Framed(s) => HeardIn(s, c, u) = s.out
<1> DEFINE t == TodoIn(s, c, u)
           x == HeardIn(s, c, u)
           w == units(s)
           h == EmittedUnits(s)
<1>1. Handed(s)
  BY DEF Run
<1>2. /\ h \in Seq(Pages)
      /\ h = <<>> <=> s.out = <<>>
      /\ Framed(s) => h = w
      /\ ~Framed(s) => h = IF s.out = <<>> THEN <<>> ELSE <<s.out>>
  BY <1>1, EmittedIs, Zenon
<1>3. /\ w \in Seq(Pages) /\ Len(w) = Len(s.bounds) /\ s.out \in Seq(Item)
      /\ \A i \in 1..Len(s.bounds) : w[i] \in Pages /\ w[i] # <<>>
      /\ Len(s.bounds) \in Nat
  BY Known, Fits, Zenon
<1>4. <<>> \in Seq(Item)
  OBVIOUS
<1>5. <<s.out>> # <<>> /\ Head(<<s.out>>) = s.out /\ Tail(<<s.out>>) = <<>>
      /\ SubSeq(<<s.out>>, 1, 1) = <<s.out>> /\ Len(<<s.out>>) = 1
  <2> DEFINE o == s.out
  <2> HIDE DEF o
  <2>1. <<o>> # <<>> /\ Head(<<o>>) = o /\ Tail(<<o>>) = <<>>
        /\ SubSeq(<<o>>, 1, 1) = <<o>> /\ Len(<<o>>) = 1
    <3>1. o \in Pages
      BY <1>3 DEF o, Pages
    <3> DEFINE T == Pages
               q == <<o>>
    <3>2. q \in Seq(T) /\ Len(q) = 1 /\ q[1] = o /\ q # <<>>
      BY <3>1
    <3>3. Head(q) = o
      BY <3>2
    <3>4. Tail(q) = <<>>
      OBVIOUS
    <3> HIDE DEF q, T
    <3>5. SubSeq(q, 1, 1) = q
      BY <3>2, SubSeqFull
    <3> QED
      BY <3>2, <3>3, <3>4, <3>5 DEF q
  <2> QED
    BY <2>1 DEF o
<1>6. CASE c = "tick"
  <2>1. t = <<>> /\ x = <<>> /\ c # "bytes" /\ c # "none" /\ c # "eof"
    BY <1>6, Zenon DEF TodoIn, HeardIn
  <2>2. s.out = <<>>
    BY <1>6, Zenon DEF Run, Empty
  <2> QED
    BY <1>4, <2>1, <2>2, Zenon
<1>7. CASE c = "eof" /\ Framed(s)
  <2>1. t = <<>> /\ x = <<>> /\ c # "bytes" /\ c # "none"
    BY <1>7, Zenon DEF TodoIn, HeardIn
  <2> QED
    BY <1>4, <1>7, <2>1, Zenon
<1>8. CASE c = "eof" /\ ~Framed(s)
  <2>1. t = h /\ x = s.out /\ c # "bytes"
    BY <1>8, Zenon DEF TodoIn, HeardIn
  <2> QED
    BY <1>2, <1>3, <1>5, <1>8, <2>1, Zenon
<1>9. CASE c = "bytes" /\ ~Framed(s)
  <2>1. s.out # <<>> /\ u = 1
    BY <1>9, Zenon DEF Run
  <2>2. h = <<s.out>>
    BY <1>2, <1>9, <2>1, Zenon
  <2>3. t = SubSeq(h, u, Len(h)) /\ x = s.out
    BY <1>9, Zenon DEF TodoIn, HeardIn
  <2>4. t = <<s.out>>
    BY <1>5, <2>1, <2>2, <2>3, Zenon
  <2> QED
    BY <1>3, <1>5, <1>9, <2>1, <2>3, <2>4, Zenon
<1>10. CASE c = "bytes" /\ Framed(s)
  <2>1. u <= Len(s.bounds)
    BY <1>10, Zenon DEF Run
  <2>2. u \in 1..Len(w)
    BY <1>3, <2>1
  <2>3. t = SubSeq(w, u, Len(w)) /\ x = w[u]
    BY <1>2, <1>10, Zenon DEF TodoIn, HeardIn
  <2>4. t # <<>> /\ Head(t) = w[u] /\ Tail(t) = SubSeq(w, u + 1, Len(w))
    <3> HIDE DEF w
    <3> QED
      BY <1>3, <2>2, <2>3, PagesFrom, ZenonT(40)
  <2>5. w[u] \in Seq(Item) /\ w[u] # <<>>
    BY <1>3, <2>2, Zenon DEF Pages
  <2> QED
    BY <1>10, <2>2, <2>3, <2>4, <2>5, Zenon
<1>11. c = "tick" \/ c = "eof" \/ c = "bytes"
  BY DEF Calls
<1> QED
  BY <1>6, <1>7, <1>8, <1>9, <1>10, <1>11, Zenon

(* The words of a plugin: what each does to an emission.                   *)
LEMMA WordPasses ==
  ASSUME NEW d, Fit(d), NEW x \in Seq(Item)
  PROVE  LET e == pass_through(d, x)
         IN  /\ Fit(e) /\ units(e) = units(d)
             /\ rest(e) = IF d.emit = "buffered" THEN rest(d) \o x ELSE rest(d)
             /\ e.emit = IF d.emit = "pending" THEN "passthrough" ELSE d.emit
             /\ d.emit # "buffered" /\ Empty(d) => Empty(e)
<1> DEFINE e == pass_through(d, x)
<1>1. d \in Results
  BY Zenon DEF Fit
<1>2. CASE d.emit = "buffered"
  <2>1. e \in Results /\ e.out = d.out \o x /\ e.bounds = d.bounds /\ e.emit = d.emit
    <3> DEFINE y == d.out
               z == y \o x
    <3>1. y \in Seq(Item)
      BY <1>1 DEF Results
    <3>2. e = [d EXCEPT !.out = z, !.emit = d.emit]
      BY <1>1, <1>2 DEF pass_through, Results
    <3> HIDE DEF y, e
    <3>3. z \in Seq(Item)
      BY <3>1
    <3> HIDE DEF z
    <3>4. e \in Results /\ e.out = z /\ e.bounds = d.bounds /\ e.emit = d.emit
      BY <1>1, <3>2, <3>3 DEF Results
    <3> QED
      BY <3>4 DEF z, y
  <2> HIDE DEF e
  <2>2. Fit(e) /\ units(e) = units(d) /\ rest(e) = rest(d) \o x
    BY <2>1, Says1, Zenon
  <2>3. e.emit = IF d.emit = "pending" THEN "passthrough" ELSE d.emit
    BY <1>2, <2>1
  <2> QED
    BY <1>2, <2>2, <2>3, Zenon DEF e
<1>3. CASE d.emit # "buffered"
  <2>1. e \in Results /\ e.out = d.out /\ e.bounds = d.bounds
        /\ e.emit = IF d.emit = "pending" THEN "passthrough" ELSE d.emit
    BY <1>1, <1>3 DEF pass_through, Results, Emits
  <2> HIDE DEF e
  <2>2. Fit(e) /\ units(e) = units(d) /\ rest(e) = rest(d)
    BY <2>1, Says0, Zenon
  <2> QED
    BY <1>3, <2>1, <2>2, Zenon DEF e, Empty
<1> QED
  BY <1>2, <1>3

(* Copied, in the rest.                                                    *)
CopiedInto(d, x, m) == [d EXCEPT !.out = Copied(d, x), !.emit = m]

(* What was passed over, copied: it is behind the rest, and no unit is     *)
(* closed.                                                                 *)
LEMMA CopiedIs ==
  ASSUME NEW d, Fit(d), NEW x \in Seq(Item), NEW m \in Emits
  PROVE  LET e == CopiedInto(d, x, m)
         IN  /\ Fit(e) /\ units(e) = units(d) /\ e.emit = m
             /\ rest(e) = rest(d) \o KeptIn(d, x) /\ rest(d) \in Seq(Item)
             /\ e.bounds = d.bounds /\ e.out = Copied(d, x) /\ KeptIn(d, x) \in Seq(Item)
<1> DEFINE e == CopiedInto(d, x, m)
           k == KeptIn(d, x)
<1>1. d \in Results /\ d.out \in Seq(Item)
  BY Fits, Zenon DEF Fit
<1>2. rest(d) \in Seq(Item)
  BY Known, Zenon DEF Pages
<1>3. k \in Seq(Item)
  BY DEF KeptIn
<1>4. Copied(d, x) = d.out \o k
  <2>1. CASE d.emit = "passthrough"
    BY <2>1, Zenon DEF Copied, KeptIn
  <2>2. CASE d.emit # "passthrough"
    <3> DEFINE o == d.out
    <3> HIDE DEF o
    <3>1. o \in Seq(Item)
      BY <1>1 DEF o
    <3>2. o \o <<>> = o
      BY <3>1
    <3>3. Copied(d, x) = o /\ k = <<>>
      BY <2>2, Zenon DEF Copied, KeptIn, o
    <3> QED
      BY <3>2, <3>3, Zenon DEF o
  <2> QED
    BY <2>1, <2>2
<1> HIDE DEF k
<1>5. Copied(d, x) \in Seq(Item)
  <2> DEFINE o == d.out
  <2>1. o \in Seq(Item)
    BY <1>1
  <2> HIDE DEF o
  <2>2. o \o k \in Seq(Item)
    BY <1>3, <2>1
  <2> QED
    BY <1>4, <2>2, Zenon DEF o
<1>6. e \in Results /\ e.out = Copied(d, x) /\ e.bounds = d.bounds /\ e.emit = m
  BY <1>1, <1>5 DEF Results, CopiedInto
<1> HIDE DEF e
<1>7. Fit(e) /\ units(e) = units(d) /\ rest(e) = rest(d) \o k
  BY <1>3, <1>4, <1>6, Says1, Zenon
<1> QED
  BY <1>2, <1>3, <1>6, <1>7, Zenon DEF e, k

(* A byte forwarded lands behind what was kept of the unit at hand.        *)
LEMMA WordForwards ==
  ASSUME NEW d, Fit(d), NEW x \in Seq(Item), NEW b \in Item
  PROVE  LET e == forward(d, x, <<b>>)
         IN  /\ Fit(e) /\ units(e) = units(d) /\ e.emit = "buffered"
             /\ rest(e) = rest(d) \o KeptIn(d, x) \o <<b>>
<1> DEFINE e == forward(d, x, <<b>>)
           f == CopiedInto(d, x, "buffered")
<1>1. "buffered" \in Emits
  BY DEF Emits
<1>2. /\ Fit(f) /\ units(f) = units(d) /\ f.emit = "buffered"
      /\ rest(f) = rest(d) \o KeptIn(d, x)
      /\ f.bounds = d.bounds /\ f.out = Copied(d, x)
  BY <1>1, CopiedIs, Zenon
<1>3. f \in Results /\ f.out \in Seq(Item)
  BY <1>2, Fits, Zenon DEF Fit
<1>4. <<b>> \in Seq(Item)
  OBVIOUS
<1>5. e = [f EXCEPT !.out = @ \o <<b>>]
  <2>1. d \in Results
    BY Zenon DEF Fit
  <2>2. d = [out |-> d.out, bounds |-> d.bounds, emit |-> d.emit]
    BY <2>1 DEF Results
  <2> DEFINE y == Copied(d, x)
             z == <<b>>
  <2>3. e = [d EXCEPT !.out = y \o z, !.emit = "buffered"]
    BY DEF forward
  <2> HIDE DEF y, z, e
  <2> QED
    BY <2>2, <2>3 DEF y, z, CopiedInto
<1> HIDE DEF e
<1>6. f.out \o <<b>> \in Seq(Item)
  <2> DEFINE y == f.out
             z == <<b>>
  <2>1. y \in Seq(Item) /\ z \in Seq(Item)
    BY <1>3, <1>4
  <2> HIDE DEF y, z
  <2>2. y \o z \in Seq(Item)
    BY <2>1
  <2> QED
    BY <2>2 DEF y, z
<1> HIDE DEF f
<1>7. e \in Results /\ e.out = f.out \o <<b>> /\ e.bounds = f.bounds /\ e.emit = "buffered"
  BY <1>2, <1>3, <1>5, <1>6 DEF Results
<1>8. Fit(e) /\ units(e) = units(f) /\ rest(e) = rest(f) \o <<b>>
  BY <1>2, <1>4, <1>7, Says1, Zenon
<1> QED
  BY <1>2, <1>7, <1>8, Zenon DEF e

(* A chunk that is dropped changes no unit, and only an answer that was    *)
(* passthrough.                                                            *)
LEMMA WordDrops ==
  ASSUME NEW d, Fit(d)
  PROVE  LET e == drop_chunk(d)
         IN  /\ Fit(e) /\ units(e) = units(d) /\ rest(e) = rest(d)
             /\ e.emit = IF d.emit = "passthrough" THEN "pending" ELSE d.emit
             /\ Empty(d) => Empty(e)
<1> DEFINE e == drop_chunk(d)
<1>1. d \in Results
  BY Zenon DEF Fit
<1>2. e \in Results /\ e.out = d.out /\ e.bounds = d.bounds
      /\ e.emit = IF d.emit = "passthrough" THEN "pending" ELSE d.emit
  BY <1>1 DEF drop_chunk, Results, Emits
<1> HIDE DEF e
<1>3. Fit(e) /\ units(e) = units(d) /\ rest(e) = rest(d)
  BY <1>2, Says0, Zenon
<1> QED
  BY <1>2, <1>3, Zenon DEF e, Empty

(* A cut closes what is open, the passthrough's bytes with it.             *)
LEMMA WordCuts ==
  ASSUME NEW d, Fit(d), NEW x \in Seq(Item), NEW m \in Emits
  PROVE  LET y == CopiedInto(d, x, m)
             e == close(y)
         IN  /\ Fit(e) /\ rest(e) = <<>> /\ e.emit = m /\ LastEnd(e) = Len(e.out)
             /\ units(e) = ClosedOn(units(d), rest(d) \o KeptIn(d, x))
             /\ d.emit # "passthrough" /\ Empty(d) => Empty(e)
             /\ units(e) = EmittedUnits(e) /\ Handed(e)
<1> DEFINE y == CopiedInto(d, x, m)
           e == close(y)
<1>1. /\ Fit(y) /\ units(y) = units(d) /\ y.emit = m
      /\ rest(y) = rest(d) \o KeptIn(d, x)
      /\ y.bounds = d.bounds /\ y.out = Copied(d, x)
  BY CopiedIs, Zenon
<1> HIDE DEF y
<1>2. /\ Fit(e) /\ e.out = y.out /\ e.emit = y.emit
      /\ rest(e) = <<>> /\ LastEnd(e) = Len(y.out)
      /\ units(e) = IF rest(y) = <<>> THEN units(y) ELSE Append(units(y), rest(y))
  BY <1>1, ClosedIs, Zenon
<1>3. units(e) = ClosedOn(units(d), rest(d) \o KeptIn(d, x))
  BY <1>1, <1>2, Zenon DEF ClosedOn
<1>4. d.emit # "passthrough" /\ Empty(d) => Empty(e)
  <2>1. SUFFICES ASSUME d.emit # "passthrough", Empty(d) PROVE Empty(e)
    OBVIOUS
  <2>2. y.out = <<>> /\ y.bounds = <<>>
    BY <1>1, <2>1, Zenon DEF Copied, Empty
  <2>3. Len(y.out) = 0
    BY <2>2
  <2>4. ~(LastEnd(y) < Len(y.out))
    BY <2>2, <2>3 DEF LastEnd, Framed
  <2>5. e = y
    BY <2>4, Zenon DEF close
  <2> QED
    BY <2>2, <2>5, Zenon DEF Empty
<1>5. Handed(e)
  BY <1>2, Zenon DEF Handed
<1>6. units(e) = EmittedUnits(e)
  <2>1. CASE Framed(e)
    BY <2>1, Zenon DEF EmittedUnits
  <2>2. CASE ~Framed(e)
    <3>1. LastEnd(e) = 0
      BY <2>2, Zenon DEF LastEnd
    <3>2. e.out = <<>>
      <4>1. Len(e.out) = 0 /\ (e.out = <<>> <=> Len(e.out) = 0)
        BY <1>2, <3>1, Known, Zenon
      <4> QED
        BY <4>1, Zenon
    <3> QED
      BY <3>2, Zenon DEF EmittedUnits
  <2> QED
    BY <2>1, <2>2
<1> QED
  BY <1>1, <1>2, <1>3, <1>4, <1>5, <1>6, Zenon DEF y

(* A word leaves what is known of a run.                                   *)
LEMMA WordKeeps ==
  ASSUME NEW s, NEW d, NEW c \in Calls, NEW u, NEW cp, NEW v, NEW e, NEW w,
         Run(s, d, c, u, cp, v),
         d.emit # "buffered" /\ Empty(d) /\ e.emit # "buffered" => Empty(e),
         d.emit = "buffered" => e.emit = "buffered",
         w => v /\ (d.emit # "buffered" => e.emit # "buffered")
  PROVE  Run(s, e, c, u, cp, w)
<1>1. c # "done"
  BY DEF Calls
<1> QED
  BY <1>1, Zenon DEF Run

(* A call of one unframed input ends.                                      *)
LEMMA UnframedReturns ==
  ASSUME NEW s, NEW d, NEW c \in Calls, NEW u \in Nat \ {0}, NEW cp, NEW v, NEW w,
         Fit(s), Fit(d), Run(s, d, c, u, cp, v), c # "tick" => ~Framed(s),
         w => v /\ (s.out = <<>> \/ d.emit = "passthrough")
  PROVE  LET e == ClosedIfFramed(d)
         IN  /\ Fit(e) /\ Run(s, e, "done", u, cp, w)
             /\ OutIn(s, e, "done", u, cp)
                  = ClosedOn(OutIn(s, d, c, u, cp), rest(d) \o KeptIn(d, HeardIn(s, c, u)))
<1> DEFINE e == ClosedIfFramed(d)
           x == HeardIn(s, c, u)
           k == KeptIn(d, x)
<1>1. ~Framed(s)
  <2>1. c = "tick" => s.bounds = <<>>
    BY Zenon DEF Run, Empty
  <2> QED
    BY <2>1, Zenon DEF Framed
<1>2. Handed(s)
  BY DEF Run
<1>3. /\ EmittedUnits(s) = IF s.out = <<>> THEN <<>> ELSE <<s.out>>
      /\ c # "tick" => x = s.out
      /\ c = "tick" => x = <<>> /\ s.out = <<>>
  BY <1>1, <1>2, EmittedIs, Zenon DEF HeardIn, Run, Empty
<1>4. x = s.out /\ x \in Seq(Item)
  BY <1>3, Fits, Zenon
<1>5. OutIn(s, d, c, u, cp) = units(d)
  <2>1. OutIn(s, d, c, u, cp) = <<>> \o units(d)
    <3>1. c # "done"
      BY DEF Calls
    <3> QED
      BY <1>1, <3>1 DEF OutIn, BackIn
  <2>2. units(d) \in Seq(Pages)
    BY Known, Zenon
  <2> QED
    BY <2>1, <2>2, PagesAre, Zenon
<1>6. OutIn(s, e, "done", u, cp) = EmittedUnits(IF e.emit = "passthrough" THEN s ELSE e)
  BY Zenon DEF OutIn, Calls
<1>7. CASE d.emit = "passthrough"
  <2>1. Empty(d)
    BY <1>1, <1>7, Zenon DEF Run
  <2>2. e = d
    BY <2>1, Zenon DEF ClosedIfFramed, Framed, Empty
  <2>3. Run(s, d, "done", u, cp, w)
    BY <1>2, <1>7, <2>1, Zenon DEF Run, Calls, Empty
  <2>4. units(d) = <<>> /\ rest(d) = <<>>
    <3>1. Handed(d)
      BY <2>1, Zenon DEF Handed, Framed, Empty
    <3> QED
      BY <2>1, <3>1, EmittedIs, Zenon DEF Empty, Framed
  <2>5. rest(d) \o k = s.out
    <3>1. \A y \in Seq(Item) : <<>> \o y = y
      OBVIOUS
    <3>2. k = s.out
      BY <1>4, <1>7, Zenon DEF KeptIn
    <3> QED
      BY <1>4, <2>4, <3>1, <3>2, Zenon
  <2>6. EmittedUnits(s) = ClosedOn(<<>>, s.out)
    <3>1. Append(<<>>, s.out) = <<s.out>>
      OBVIOUS
    <3> QED
      BY <1>3, <3>1, Zenon DEF ClosedOn
  <2> QED
    BY <1>5, <1>6, <1>7, <2>2, <2>3, <2>4, <2>5, <2>6, Zenon
<1>8. CASE d.emit # "passthrough"
  <2>1. k = <<>>
    BY <1>8, Zenon DEF KeptIn
  <2>2. rest(d) \o k = rest(d)
    <3>1. rest(d) \in Seq(Item)
      BY Known, Zenon DEF Pages
    <3>2. \A y \in Seq(Item) : y \o <<>> = y
      OBVIOUS
    <3> QED
      BY <2>1, <3>1, <3>2, Zenon
  <2>3. CASE Framed(d)
    <3>1. e = close(d)
      BY <2>3, Zenon DEF ClosedIfFramed
    <3>2. /\ Fit(e) /\ e.emit = d.emit /\ e.out = d.out
          /\ LastEnd(e) = Len(d.out)
          /\ units(e) = ClosedOn(units(d), rest(d))
          /\ Framed(e)
      BY <2>3, <3>1, ClosedIs, Zenon DEF ClosedOn
    <3>3. Handed(e)
      BY <3>2, Zenon DEF Handed
    <3>4. EmittedUnits(e) = units(e)
      BY <3>2, <3>3, EmittedIs, Zenon
    <3>5. Run(s, e, "done", u, cp, w)
      BY <1>2, <1>8, <3>2, <3>3, Zenon DEF Run, Calls
    <3> QED
      BY <1>5, <1>6, <1>8, <2>2, <3>2, <3>4, <3>5, Zenon
  <2>4. CASE ~Framed(d)
    <3>1. e = d
      BY <2>4, Zenon DEF ClosedIfFramed
    <3>2. Handed(d)
      BY <2>4, Zenon DEF Handed
    <3>3. /\ EmittedUnits(d) = IF d.out = <<>> THEN <<>> ELSE <<d.out>>
          /\ units(d) = <<>> /\ rest(d) = d.out
      BY <2>4, <3>2, EmittedIs, Zenon
    <3>4. Append(<<>>, d.out) = <<d.out>>
      OBVIOUS
    <3>5. EmittedUnits(d) = ClosedOn(units(d), rest(d))
      BY <3>3, <3>4, Zenon DEF ClosedOn
    <3>6. Run(s, d, "done", u, cp, w)
      BY <1>2, <1>8, <3>2, Zenon DEF Run, Calls
    <3> QED
      BY <1>5, <1>6, <1>8, <2>2, <3>1, <3>5, <3>6, Zenon
  <2> QED
    BY <2>3, <2>4
<1> QED
  BY <1>7, <1>8

(* Or runs into its end of stream.                                         *)
LEMMA RunsIntoEnd ==
  ASSUME NEW s, NEW d, NEW u \in Nat \ {0}, NEW cp, NEW v, NEW w,
         Fit(s), Fit(d), Run(s, d, "bytes", u, cp, v), ~Framed(s), w => v
  PROVE  /\ Run(s, d, "eof", u, cp, w)
         /\ OutIn(s, d, "eof", u, cp) = OutIn(s, d, "bytes", u, cp)
         /\ TodoIn(s, "eof", u) = TodoIn(s, "bytes", u) /\ Len(TodoIn(s, "bytes", u)) = 1
<1>1. "bytes" \in Calls /\ "eof" \in Calls
  BY DEF Calls
<1>2. Run(s, d, "eof", u, cp, w)
  BY <1>1, Zenon DEF Run
<1>3. OutIn(s, d, "eof", u, cp) = OutIn(s, d, "bytes", u, cp)
  BY <1>1, Zenon DEF OutIn, BackIn
<1>4. TodoIn(s, "bytes", u) # <<>> /\ HeardIn(s, "bytes", u) = s.out
      /\ TodoIn(s, "bytes", u) = IF HeardIn(s, "bytes", u) = <<>> THEN <<>> ELSE <<HeardIn(s, "bytes", u)>>
  BY <1>1, HeardIs, Zenon
<1>5. TodoIn(s, "eof", u) = EmittedUnits(s)
  BY Zenon DEF TodoIn
<1>6. EmittedUnits(s) = IF s.out = <<>> THEN <<>> ELSE <<s.out>>
  BY EmittedIs, Zenon DEF Run
<1>7. Len(<<s.out>>) = 1
  OBVIOUS
<1> QED
  BY <1>2, <1>3, <1>4, <1>5, <1>6, <1>7, Zenon

(* A unit made real: what was kept of it, closed behind all before it.     *)
WrittenIn(s, d, u, cp, x) ==
  LET y == IF cp THEN d ELSE materialise(s, u - 1, d) IN close(CopiedInto(y, x, y.emit))

(* f is d's answer with what is left of the unit, r, closed behind w.      *)
ClosesUnit(f, w, r, d) ==
  /\ Fit(f) /\ Handed(f) /\ f.emit = d.emit /\ rest(f) = <<>>
  /\ units(f) = ClosedOn(w, r) /\ EmittedUnits(f) = units(f)

(* A unit that is written out, and closed, is one more of those that       *)
(* leave: what was said of it.                                             *)
LEMMA UnitWrites ==
  ASSUME NEW s, NEW d, NEW u \in Nat \ {0}, NEW cp, NEW v,
         Fit(s), Fit(d), Run(s, d, "bytes", u, cp, v), Framed(s)
  PROVE  LET x == HeardIn(s, "bytes", u)
         IN  ClosesUnit(WrittenIn(s, d, u, cp, x), OutIn(s, d, "bytes", u, cp),
                        rest(d) \o KeptIn(d, x), d)
<1> DEFINE x == HeardIn(s, "bytes", u)
           y == IF cp THEN d ELSE materialise(s, u - 1, d)
           f == WrittenIn(s, d, u, cp, x)
           a == OutIn(s, d, "bytes", u, cp)
<1>1. "bytes" \in Calls
  BY DEF Calls
<1>2. x \in Seq(Item) /\ u \in 1..Len(units(s)) /\ Len(units(s)) = Len(s.bounds)
  BY <1>1, HeardIs, Known, Zenon
<1>3. u - 1 \in 0..Len(s.bounds)
  <2>1. Len(s.bounds) \in Nat
    BY Known, Zenon
  <2> QED
    BY <1>2, <2>1
<1>4. a = BackIn(s, "bytes", u, cp) \o units(d)
  BY <1>1 DEF OutIn
<1>5. Fit(y) /\ y.emit = d.emit /\ rest(y) = rest(d) /\ units(y) = a
  <2>1. CASE cp
    <3>1. a = <<>> \o units(d)
      BY <1>4, <2>1, Zenon DEF BackIn
    <3>2. units(d) \in Seq(Pages)
      BY Known, Zenon
    <3>3. a = units(d)
      BY <3>1, <3>2, PagesAre, Zenon
    <3>4. y = d
      BY <2>1
    <3> QED
      BY <3>3, <3>4, Zenon
  <2>2. CASE ~cp
    <3>1. a = SubSeq(units(s), 1, u - 1) \o units(d)
      BY <1>4, <2>2, Zenon DEF BackIn
    <3>2. y = materialise(s, u - 1, d)
      BY <2>2
    <3> DEFINE n == u - 1
    <3>3. n \in 0..Len(s.bounds)
      BY <1>3
    <3> HIDE DEF n
    <3>4. LET m == materialise(s, n, d)
          IN  /\ Fit(m) /\ m.emit = d.emit /\ rest(m) = rest(d)
              /\ units(m) = SubSeq(units(s), 1, n) \o units(d)
      BY <3>3, MaterialisedIs, Zenon
    <3> QED
      BY <3>1, <3>2, <3>4, Zenon DEF n
  <2> QED
    BY <2>1, <2>2
<1>6. f = close(CopiedInto(y, x, y.emit))
  BY DEF WrittenIn
<1> HIDE DEF y
<1>7. y.emit \in Emits
  BY <1>5, Fits, Zenon
<1> DEFINE m == y.emit
<1>8. m \in Emits /\ m = d.emit
  BY <1>5, <1>7
<1> HIDE DEF m, x, f, a
<1>9. /\ Fit(close(CopiedInto(y, x, m))) /\ rest(close(CopiedInto(y, x, m))) = <<>>
      /\ close(CopiedInto(y, x, m)).emit = m
      /\ units(close(CopiedInto(y, x, m))) = ClosedOn(units(y), rest(y) \o KeptIn(y, x))
      /\ units(close(CopiedInto(y, x, m))) = EmittedUnits(close(CopiedInto(y, x, m)))
      /\ Handed(close(CopiedInto(y, x, m)))
  BY <1>2, <1>5, <1>8, WordCuts, Zenon
<1>10. f = close(CopiedInto(y, x, m))
  BY <1>6 DEF m
<1>11. KeptIn(y, x) = KeptIn(d, x)
  BY <1>5, Zenon DEF KeptIn
<1> QED
  BY <1>5, <1>8, <1>9, <1>10, <1>11, Zenon DEF f, a, x, ClosesUnit

(* An emission's answer is all that is set.                                *)
Marked(e, m) == [e EXCEPT !.emit = m]

(* An answer that is set changes nothing of what was emitted.              *)
LEMMA Answered ==
  ASSUME NEW e, Fit(e), NEW m \in Emits
  PROVE  LET d == Marked(e, m)
         IN  /\ Fit(d) /\ units(d) = units(e) /\ rest(d) = rest(e) /\ d.emit = m
             /\ d.out = e.out /\ d.bounds = e.bounds
             /\ EmittedUnits(d) = EmittedUnits(e) /\ (Handed(d) <=> Handed(e))
<1> DEFINE d == Marked(e, m)
<1>1. d \in Results /\ d.out = e.out /\ d.bounds = e.bounds /\ d.emit = m
  BY DEF Fit, Results, Marked
<1> HIDE DEF d
<1>2. Fit(d) /\ units(d) = units(e) /\ rest(d) = rest(e)
  BY <1>1, Says0, Zenon
<1>3. (Framed(d) <=> Framed(e)) /\ LastEnd(d) = LastEnd(e)
  BY <1>1, Zenon DEF Framed, LastEnd
<1>4. EmittedUnits(d) = EmittedUnits(e) /\ (Handed(d) <=> Handed(e))
  BY <1>1, <1>2, <1>3, Zenon DEF EmittedUnits, Handed
<1> QED
  BY <1>1, <1>2, <1>4, Zenon DEF d

(* A call of one unit ends.                                                *)
EndsUnit(s, d, u, cp, ended, free, e, c2, u2, d2) ==
  /\ free <=> ~cp /\ d.emit = "passthrough"
  /\ e = IF free THEN d ELSE WrittenIn(s, d, u, cp, HeardIn(s, "bytes", u))
  /\ c2 = IF u # Len(s.bounds) THEN "bytes" ELSE IF ended THEN "eof" ELSE "done"
  /\ u2 = IF u = Len(s.bounds) THEN u ELSE u + 1
  /\ d2 = IF u = Len(s.bounds) /\ ~ended THEN Answer(e, ~free) ELSE next_unit(e)

(* Its units are those of a call that returned.                            *)
EndedUnit(s, d, u, cp, ended, free, w, c2, u2, d2) ==
  /\ Fit(d2) /\ u2 \in Nat \ {0} /\ Run(s, d2, c2, u2, ~free, w)
  /\ OutIn(s, d2, c2, u2, ~free)
       = ClosedOn(OutIn(s, d, "bytes", u, cp),
                  rest(d) \o KeptIn(d, HeardIn(s, "bytes", u)))
  /\ c2 \in Calls => rest(d2) = <<>> /\ d2.emit = "pending"
  /\ TodoIn(s, c2, u2) = Tail(TodoIn(s, "bytes", u)) /\ TodoIn(s, "bytes", u) # <<>>
  /\ c2 = IF Tail(TodoIn(s, "bytes", u)) # <<>> THEN "bytes"
          ELSE IF ended THEN "eof" ELSE "done"

(* The end of a unit's call, whether the unit was copied, passed or        *)
(* written, hands on what the stage said of it.                            *)
LEMMA UnitEnds ==
  ASSUME NEW s, NEW d, NEW u \in Nat \ {0}, NEW cp, NEW v, NEW w, NEW ended,
         Fit(s), Fit(d), Run(s, d, "bytes", u, cp, v), Framed(s),
         w => v /\ d.emit = "passthrough",
         NEW free, NEW e, NEW c2, NEW u2, NEW d2,
         EndsUnit(s, d, u, cp, ended, free, e, c2, u2, d2)
  PROVE  EndedUnit(s, d, u, cp, ended, free, w, c2, u2, d2)
<1> DEFINE x == HeardIn(s, "bytes", u)
           a == OutIn(s, d, "bytes", u, cp)
           k == KeptIn(d, x)
           all == units(s)
           l == Len(s.bounds)
           t == Tail(TodoIn(s, "bytes", u))
<1>0. EndsUnit(s, d, u, cp, ended, free, e, c2, u2, d2)
  OBVIOUS
<1>1. "bytes" \in Calls /\ "eof" \in Calls /\ "done" \notin Calls
  BY <1>0 DEF Calls, EndsUnit
<1>2. /\ TodoIn(s, "bytes", u) # <<>> /\ t = SubSeq(all, u + 1, Len(all))
      /\ x = all[u] /\ u \in 1..Len(all) /\ x # <<>> /\ x \in Seq(Item)
  <2>1. "bytes" \in Calls
    BY DEF Calls
  <2> HIDE <1>1, <1>0
  <2> QED
    BY <2>1, HeardIs, Zenon
<1>3. /\ all \in Seq(Pages) /\ Len(all) = l /\ l \in Nat /\ Handed(s) /\ EmittedUnits(s) = all
      /\ s.out # <<>>
  BY Known, EmittedIs, Zenon DEF Run
<1>4. u \in 1..l /\ u2 \in Nat \ {0} /\ (u # l => u + 1 \in 1..l)
  BY <1>0, <1>2, <1>3 DEF EndsUnit
<1>5. (u # l <=> t # <<>>)
  <2>1. CASE u = l
    <3> HIDE DEF all
    <3>1. SubSeq(all, Len(all) + 1, Len(all)) = <<>>
      BY <1>3, PagesAre, Zenon
    <3> QED
      BY <1>2, <1>3, <2>1, <3>1, Zenon
  <2>2. CASE u # l
    <3> DEFINE n == u + 1
    <3>1. n \in 1..Len(all)
      BY <1>0, <1>3, <1>4, <2>2 DEF EndsUnit
    <3> HIDE DEF n, all
    <3>2. SubSeq(all, n, Len(all)) # <<>>
      BY <1>3, <3>1, PagesFrom, Zenon
    <3> QED
      BY <1>2, <2>2, <3>2, Zenon DEF n
  <2> QED
    BY <1>0, <2>1, <2>2 DEF EndsUnit
<1>6. c2 = IF t # <<>> THEN "bytes" ELSE IF ended THEN "eof" ELSE "done"
  BY <1>0, <1>5, Zenon DEF EndsUnit
<1>7. TodoIn(s, c2, u2) = t
  <2>1. CASE u # l
    <3>1. c2 = "bytes" /\ u2 = u + 1
      BY <1>0, <2>1 DEF EndsUnit
    <3>2. TodoIn(s, "bytes", u2) = SubSeq(all, u2, Len(all))
      BY <1>0, <1>3 DEF TodoIn, EndsUnit
    <3> QED
      BY <1>2, <3>1, <3>2, Zenon
  <2>2. CASE u = l
    <3>1. c2 = "eof" \/ c2 = "done"
      BY <1>0, <2>2 DEF EndsUnit
    <3>2. TodoIn(s, c2, u2) = <<>>
      BY <1>0, <3>1 DEF TodoIn, EndsUnit
    <3> QED
      BY <1>5, <2>2, <3>2, Zenon
  <2> QED
    BY <1>0, <2>1, <2>2 DEF EndsUnit
<1>8. a = BackIn(s, "bytes", u, cp) \o units(d)
  BY <1>0, <1>1 DEF OutIn, EndsUnit
<1> HIDE DEF t
<1>9. CASE free
  <2>1. ~cp /\ d.emit = "passthrough" /\ e = d /\ Empty(d)
    <3>1. ~cp /\ d.emit = "passthrough" /\ e = d
      BY <1>0, <1>9 DEF EndsUnit
    <3> QED
      BY <1>0, <1>1, <3>1 DEF Run, EndsUnit
  <2>2. /\ d2.emit \in Emits /\ Fit(d2) /\ Empty(d2) /\ units(d2) = <<>> /\ rest(d2) = <<>>
        /\ d2.emit = IF c2 = "done" THEN "passthrough" ELSE "pending"
    <3> DEFINE m == IF c2 = "done" THEN "passthrough" ELSE "pending"
    <3>1. m \in Emits
      BY <1>0 DEF Emits, EndsUnit
    <3>2. d2 = Marked(d, m)
      BY <1>0, <1>4, <1>9, <2>1 DEF Answer, next_unit, Marked, EndsUnit
    <3> HIDE DEF m
    <3>3. Fit(d2) /\ d2.emit = m /\ d2.out = d.out /\ d2.bounds = d.bounds
      BY <3>1, <3>2, Answered, Zenon
    <3>4. Handed(d2) /\ ~Framed(d2) /\ Empty(d2)
      BY <2>1, <3>3, Zenon DEF Handed, Framed, Empty
    <3>5. units(d2) = <<>> /\ rest(d2) = d2.out
      BY <3>3, <3>4, EmittedIs, Zenon
    <3> QED
      BY <3>1, <3>3, <3>4, <3>5, Zenon DEF Empty, m
  <2>3. units(d) = <<>> /\ rest(d) = <<>>
    <3>1. Handed(d) /\ ~Framed(d)
      BY <2>1, Zenon DEF Handed, Framed, Empty
    <3> QED
      BY <2>1, <3>1, EmittedIs, Zenon DEF Empty
  <2> DEFINE part1 == SubSeq(all, 1, u - 1)
             part2 == SubSeq(all, 1, u)
  <2>4. part1 \in Seq(Pages) /\ part2 \in Seq(Pages) /\ Append(part1, all[u]) = part2
    <3> DEFINE T == Pages
    <3>1. all \in Seq(T) /\ u \in 1..Len(all)
      BY <1>0, <1>2, <1>3 DEF EndsUnit
    <3>2. Append(part1, all[u]) = part2
      <4> HIDE DEF all
      <4> QED
        BY <1>3, <3>1, PagesFrom, Zenon
    <3> HIDE DEF all, T
    <3>3. part1 \in Seq(T) /\ part2 \in Seq(T)
      BY <1>0, <3>1 DEF EndsUnit
    <3> QED
      BY <1>0, <3>2, <3>3 DEF T, EndsUnit
  <2>5. a = part1
    <3>1. a = part1 \o <<>>
      BY <1>0, <1>8, <2>1, <2>3 DEF BackIn, EndsUnit
    <3> HIDE DEF part1
    <3> QED
      BY <2>4, <3>1, PagesAre, Zenon
  <2>6. rest(d) \o k = x
    <3>1. k = x
      BY <2>1, Zenon DEF KeptIn
    <3>2. \A y \in Seq(Item) : <<>> \o y = y
      OBVIOUS
    <3> QED
      BY <1>2, <2>3, <3>1, <3>2, Zenon
  <2>7. ClosedOn(a, rest(d) \o k) = part2
    BY <1>2, <2>4, <2>5, <2>6, Zenon DEF ClosedOn
  <2>8. SubSeq(all, 1, Len(all)) = all
    <3> HIDE DEF all
    <3> QED
      BY <1>3, PagesAre, Zenon
  <2>9. c2 \in Calls => OutIn(s, d2, c2, u2, ~free) = part2
    <3>1. SUFFICES ASSUME c2 \in Calls PROVE OutIn(s, d2, c2, u2, ~free) = part2
      OBVIOUS
    <3>2. OutIn(s, d2, c2, u2, ~free) = BackIn(s, c2, u2, ~free) \o units(d2)
      <4>1. c2 # "done"
        BY <1>0, <1>1, <3>1 DEF EndsUnit
      <4> QED
        BY <1>0, <3>1, <4>1 DEF OutIn, EndsUnit
    <3>3. BackIn(s, c2, u2, ~free) = part2
      <4>1. CASE u # l
        <5>1. c2 = "bytes" /\ u2 = u + 1
          BY <1>0, <4>1 DEF EndsUnit
        <5>2. BackIn(s, "bytes", u2, ~free) = SubSeq(all, 1, u2 - 1)
          BY <1>0, <1>9 DEF BackIn, EndsUnit
        <5>3. u2 - 1 = u
          BY <1>0, <5>1 DEF EndsUnit
        <5> QED
          BY <5>1, <5>2, <5>3, Zenon
      <4>2. CASE u = l
        <5>1. c2 = "eof"
          BY <1>0, <1>1, <3>1, <4>2 DEF EndsUnit
        <5>2. BackIn(s, "eof", u2, ~free) = SubSeq(all, 1, Len(all))
          BY <1>0, <1>9 DEF BackIn, EndsUnit
        <5> QED
          BY <1>3, <4>2, <5>1, <5>2, Zenon
      <4> QED
        BY <1>0, <4>1, <4>2 DEF EndsUnit
    <3> HIDE DEF part2
    <3> QED
      BY <2>2, <2>4, <3>2, <3>3, PagesAre, Zenon
  <2>10. c2 = "done" => OutIn(s, d2, c2, u2, ~free) = part2
    <3>1. SUFFICES ASSUME c2 = "done" PROVE OutIn(s, d2, c2, u2, ~free) = part2
      OBVIOUS
    <3>2. OutIn(s, d2, c2, u2, ~free) = all
      BY <1>0, <1>1, <1>3, <2>2, <3>1 DEF OutIn, EndsUnit
    <3>3. u = l
      BY <1>0, <3>1 DEF EndsUnit
    <3> QED
      BY <1>3, <2>8, <3>2, <3>3, Zenon
  <2>11. c2 \in Calls \/ c2 = "done"
    BY <1>0, <1>1 DEF EndsUnit
  <2>12. Run(s, d2, c2, u2, ~free, w)
    <3>1. c2 = "bytes" => u2 <= l
      BY <1>0, <1>4 DEF EndsUnit
    <3>2. c2 # "tick" /\ d2.emit # "buffered" /\ (c2 = "done" => d2.emit = "passthrough")
      BY <1>0, <2>2 DEF EndsUnit
    <3>3. d2.out = <<>>
      BY <1>0, <2>2 DEF Empty, EndsUnit
    <3> QED
      BY <1>3, <1>9, <2>2, <3>1, <3>2, <3>3, Zenon DEF Run
  <2>13. c2 \in Calls => rest(d2) = <<>> /\ d2.emit = "pending"
    BY <1>1, <2>2, Zenon
  <2> QED
    BY <1>2, <1>4, <1>6, <1>7, <2>2, <2>7, <2>9, <2>10, <2>11, <2>12, <2>13, Zenon DEF t, EndedUnit
<1>10. CASE ~free
  <2>1. /\ Fit(e) /\ Handed(e) /\ e.emit = d.emit /\ rest(e) = <<>>
        /\ units(e) = ClosedOn(a, rest(d) \o k) /\ EmittedUnits(e) = units(e)
    <3>1. e = WrittenIn(s, d, u, cp, x)
      BY <1>0, <1>10 DEF EndsUnit
    <3>2. ClosesUnit(WrittenIn(s, d, u, cp, x), a, rest(d) \o k, d)
      BY UnitWrites, Zenon
    <3> HIDE DEF a, k, x
    <3> QED
      BY <3>1, <3>2, Zenon DEF ClosesUnit
  <2> DEFINE m == IF c2 = "done" THEN "buffered" ELSE "pending"
  <2>2. m \in Emits
    BY <1>0 DEF Emits, EndsUnit
  <2>3. d2 = Marked(e, m)
    BY <1>0, <1>4, <1>10 DEF Answer, next_unit, Marked, EndsUnit
  <2> HIDE DEF m
  <2>4. /\ Fit(d2) /\ units(d2) = units(e) /\ rest(d2) = <<>> /\ d2.emit = m
        /\ EmittedUnits(d2) = units(e) /\ Handed(d2)
    BY <2>1, <2>2, <2>3, Answered, Zenon
  <2>5. units(e) \in Seq(Pages)
    BY <2>1, Known, Zenon
  <2>6. c2 \in Calls \/ c2 = "done"
    BY <1>0, <1>1 DEF EndsUnit
  <2>7. ~w
    <3>1. "bytes" \in Calls /\ v => d.emit # "buffered" /\ ~cp
      BY Zenon DEF Run
    <3> QED
      BY <1>0, <1>1, <1>10, <3>1, Zenon DEF EndsUnit
  <2>8. c2 \in Calls => OutIn(s, d2, c2, u2, ~free) = units(e)
    <3>1. SUFFICES ASSUME c2 \in Calls PROVE OutIn(s, d2, c2, u2, ~free) = units(e)
      OBVIOUS
    <3>2. OutIn(s, d2, c2, u2, ~free) = <<>> \o units(d2)
      <4>1. c2 # "done"
        BY <1>0, <1>1, <3>1 DEF EndsUnit
      <4> QED
        BY <1>0, <1>10, <3>1, <4>1 DEF OutIn, BackIn, EndsUnit
    <3> QED
      BY <2>4, <2>5, <3>2, PagesAre, Zenon
  <2>9. c2 = "done" => OutIn(s, d2, c2, u2, ~free) = units(e)
    <3>1. m # "passthrough"
      BY <1>0 DEF m, EndsUnit
    <3> QED
      BY <1>0, <1>1, <2>4, <3>1 DEF OutIn, EndsUnit
  <2>10. Run(s, d2, c2, u2, ~free, w)
    <3>1. c2 = "bytes" => u2 <= l
      BY <1>0, <1>4 DEF EndsUnit
    <3>2. c2 # "tick"
      BY <1>0 DEF EndsUnit
    <3> QED
      BY <1>3, <1>10, <2>4, <2>7, <3>1, <3>2, Zenon DEF Run
  <2>11. c2 \in Calls => d2.emit = "pending"
    BY <1>1, <2>4, Zenon DEF m
  <2> QED
    BY <1>2, <1>4, <1>6, <1>7, <2>1, <2>4, <2>6, <2>8, <2>9, <2>10, <2>11, Zenon DEF t, EndedUnit
<1> QED
  BY <1>0, <1>9, <1>10 DEF EndsUnit

(* What is closed is handed on as it is.                                   *)
LEMMA ClosedHandsOn ==
  ASSUME NEW e, Fit(e)
  PROVE  /\ Handed(close(e)) /\ EmittedUnits(close(e)) = units(close(e))
         /\ Fit(close(e)) /\ close(e).emit = e.emit
         /\ units(close(e)) = ClosedOn(units(e), rest(e))
<1> DEFINE f == close(e)
<1>1. /\ Fit(f) /\ f.out = e.out /\ f.emit = e.emit /\ LastEnd(f) = Len(e.out)
      /\ units(f) = ClosedOn(units(e), rest(e))
  BY ClosedIs, Zenon DEF ClosedOn
<1> HIDE DEF f
<1>2. Handed(f)
  BY <1>1, Zenon DEF Handed
<1>3. EmittedUnits(f) = units(f)
  <2>1. CASE Framed(f)
    BY <2>1, Zenon DEF EmittedUnits
  <2>2. CASE ~Framed(f)
    <3>1. LastEnd(f) = 0
      BY <2>2, Zenon DEF LastEnd
    <3>2. Len(f.out) = 0 /\ (f.out = <<>> <=> Len(f.out) = 0)
      BY <1>1, <3>1, Known, Zenon
    <3> QED
      BY <3>2, Zenon DEF EmittedUnits
  <2> QED
    BY <2>1, <2>2
<1> QED
  BY <1>1, <1>2, <1>3, Zenon DEF f

(* The end of stream behind framed units: an epilogue copies them.         *)
EndsEpilogue(s, d, cp, re, e, d2) ==
  /\ re <=> cp \/ d.out # <<>>
  /\ e = IF cp \/ ~re THEN d ELSE materialise(s, Len(s.bounds), d)
  /\ d2 = Answer(IF re THEN close(e) ELSE e, re)

(* The end of the call behind the units hands on what was said in it.      *)
LEMMA EpilogueEnds ==
  ASSUME NEW s, NEW d, NEW u \in Nat \ {0}, NEW cp, NEW v,
         Fit(s), Fit(d), Run(s, d, "eof", u, cp, v), Framed(s),
         NEW re, NEW e, NEW d2, EndsEpilogue(s, d, cp, re, e, d2)
  PROVE  /\ Fit(d2) /\ Run(s, d2, "done", u, re, v)
         /\ OutIn(s, d2, "done", u, re)
              = ClosedOn(OutIn(s, d, "eof", u, cp), rest(d) \o KeptIn(d, HeardIn(s, "eof", u)))
         /\ TodoIn(s, "eof", u) = <<>>
<1> DEFINE all == units(s)
           a == OutIn(s, d, "eof", u, cp)
<1>1. TodoIn(s, "eof", u) = <<>> /\ HeardIn(s, "eof", u) = <<>>
  BY DEF TodoIn, HeardIn
<1>2. KeptIn(d, HeardIn(s, "eof", u)) = <<>>
  BY <1>1, Zenon DEF KeptIn
<1>3. rest(d) \o <<>> = rest(d)
  <2>1. rest(d) \in Seq(Item)
    BY Known, Zenon DEF Pages
  <2>2. \A y \in Seq(Item) : y \o <<>> = y
    OBVIOUS
  <2> QED
    BY <2>1, <2>2, Zenon
<1>4. a = BackIn(s, "eof", u, cp) \o units(d)
  BY DEF OutIn, Calls
<1>5. /\ all \in Seq(Pages) /\ Len(all) = Len(s.bounds) /\ Len(s.bounds) \in Nat
      /\ Handed(s) /\ EmittedUnits(s) = all /\ units(d) \in Seq(Pages) /\ s.out # <<>>
  BY Known, EmittedIs, Zenon DEF Run
<1>6. SubSeq(all, 1, Len(all)) = all
  <2> HIDE DEF all
  <2> QED
    BY <1>5, PagesAre, Zenon
<1>7. OutIn(s, d2, "done", u, re) = EmittedUnits(IF d2.emit = "passthrough" THEN s ELSE d2)
  BY DEF OutIn, Calls
<1>8. CASE ~re
  <2>1. ~cp /\ d.out = <<>> /\ e = d /\ d2 = Marked(d, "passthrough")
    BY <1>8 DEF EndsEpilogue, Answer, Marked
  <2>2. "passthrough" \in Emits
    BY DEF Emits
  <2>3. Fit(d2) /\ d2.emit = "passthrough" /\ d2.out = <<>>
    BY <2>1, <2>2, Answered, Zenon
  <2>4. ~Framed(d) /\ Handed(d)
    <3>1. Len(d.out) = 0 /\ LastEnd(d) \in 0..Len(d.out) /\ (LastEnd(d) = 0 <=> ~Framed(d))
      BY <2>1, Known, Zenon
    <3>2. LastEnd(d) = 0
      BY <3>1
    <3> QED
      BY <3>1, <3>2, Zenon DEF Handed
  <2>5. units(d) = <<>> /\ rest(d) = <<>>
    BY <2>1, <2>4, EmittedIs, Zenon
  <2>6. a = all
    <3>1. a = SubSeq(all, 1, Len(all)) \o <<>>
      BY <1>4, <2>1, <2>5 DEF BackIn
    <3> HIDE DEF all
    <3> QED
      BY <1>5, <1>6, <3>1, PagesAre, Zenon
  <2>7. Run(s, d2, "done", u, re, v)
    <3>1. "done" \notin Calls
      BY DEF Calls
    <3> QED
      BY <1>5, <2>3, <3>1 DEF Run
  <2>8. ClosedOn(a, rest(d)) = a
    BY <2>5, Zenon DEF ClosedOn
  <2> QED
    BY <1>1, <1>2, <1>3, <1>5, <1>7, <2>3, <2>6, <2>7, <2>8, Zenon
<1>9. CASE re
  <2>1. d2 = Marked(close(e), "buffered") /\ (e = IF cp THEN d ELSE materialise(s, Len(s.bounds), d))
    BY <1>9 DEF EndsEpilogue, Answer, Marked
  <2>2. "buffered" \in Emits
    BY DEF Emits
  <2>3. Fit(e) /\ rest(e) = rest(d) /\ units(e) = a
    <3>1. CASE cp
      <4>1. e = d /\ a = <<>> \o units(d)
        BY <1>4, <2>1, <3>1 DEF BackIn
      <4> QED
        BY <1>5, <4>1, PagesAre, Zenon
    <3>2. CASE ~cp
      <4> DEFINE n == Len(s.bounds)
      <4>1. e = materialise(s, n, d) /\ a = SubSeq(all, 1, n) \o units(d)
        BY <1>4, <1>5, <2>1, <3>2 DEF BackIn
      <4>2. n \in 0..Len(s.bounds)
        BY <1>5
      <4> HIDE DEF n
      <4>3. LET m == materialise(s, n, d)
            IN  /\ Fit(m) /\ m.emit = d.emit /\ rest(m) = rest(d)
                /\ units(m) = SubSeq(units(s), 1, n) \o units(d)
        BY <4>2, MaterialisedIs, Zenon
      <4> QED
        BY <4>1, <4>3, Zenon
    <3> QED
      BY <3>1, <3>2
  <2> HIDE DEF a
  <2>4. /\ Handed(close(e)) /\ EmittedUnits(close(e)) = units(close(e)) /\ Fit(close(e))
        /\ units(close(e)) = ClosedOn(a, rest(d))
    BY <2>3, ClosedHandsOn, Zenon
  <2>5. /\ Fit(d2) /\ d2.emit = "buffered" /\ Handed(d2)
        /\ EmittedUnits(d2) = EmittedUnits(close(e))
    BY <2>1, <2>2, <2>4, Answered, Zenon
  <2>6. ~v
    <3>1. "eof" \in Calls
      BY DEF Calls
    <3>2. v => d.emit # "buffered" /\ ~cp /\ Empty(d)
      BY <3>1, Zenon DEF Run
    <3> QED
      BY <1>9, <3>2, Zenon DEF EndsEpilogue, Empty
  <2>7. Run(s, d2, "done", u, re, v)
    <3>1. "done" \notin Calls
      BY DEF Calls
    <3> QED
      BY <1>5, <2>5, <2>6, <3>1 DEF Run
  <2>8. "buffered" # "passthrough"
    OBVIOUS
  <2> QED
    BY <1>1, <1>2, <1>3, <1>7, <2>4, <2>5, <2>7, <2>8, Zenon DEF a
<1> QED
  BY <1>8, <1>9

-----------------------------------------------------------------------------
(* The invariant that is inductive.                                        *)
Halves == {"a", "b"}

FitBufs(b) == b \in [Halves -> Results] /\ \A h \in Halves : Fit(b[h])

PipeTyped ==
  /\ stage \in 0..N /\ call \in Calls \cup {"none", "done"}
  /\ eof \in BOOLEAN /\ copied \in BOOLEAN /\ failed \in BOOLEAN /\ verbatim \in BOOLEAN
  /\ live \in Halves \cup {"input"} /\ unit \in Nat \ {0} /\ words \in 0..Words
  /\ input \in Seq(Item) /\ FitBufs(bufs)

PipeIInv ==
  /\ PipeTyped
  /\ call # "none" => stage # 0
  /\ Fit(emitted) /\ Handed(emitted)
  /\ Run(src, dst, call, unit, copied, verbatim)

(* Pipeline in units, of its parts.                                        *)
TodoAt(n, s, c, u) == IF n = 0 /\ c = "none" THEN <<>> ELSE TodoIn(s, c, u)
OpenIn(d, c)       == IF c \in Calls THEN rest(d) ELSE <<>>
SaidIn(d, c)       == IF c \in Calls THEN d.emit ELSE "pending"

(* The views are what Pipeline names them.                                 *)
LEMMA Views ==
  /\ ToHear = TodoAt(stage, src, call, unit)
  /\ Out = OutIn(src, dst, call, unit, copied)
  /\ Open = OpenIn(dst, call) /\ Said = SaidIn(dst, call)
  /\ Calling <=> call \in Calls
  /\ Heard = HeardIn(src, call, unit)
<1>1. Calling <=> call \in Calls
  BY DEF Calling, Calls
<1>2. ToHear = TodoAt(stage, src, call, unit)
  BY DEF ToHear, TodoAt, TodoIn
<1>3. HandedBack = BackIn(src, call, unit, copied)
  BY Zenon DEF HandedBack, BackIn
<1>4. Out = OutIn(src, dst, call, unit, copied)
  <2>1. CASE call \in Calls
    BY <1>1, <1>3, <2>1 DEF Out, OutIn
  <2>2. CASE call \notin Calls
    BY <1>1, <2>2 DEF Out, OutIn
  <2> QED
    BY <2>1, <2>2
<1>5. Open = OpenIn(dst, call) /\ Said = SaidIn(dst, call)
  BY <1>1, Zenon DEF Open, OpenIn, Said, SaidIn, rest
<1>6. Heard = HeardIn(src, call, unit)
  BY Zenon DEF Heard, HeardIn
<1> QED
  BY <1>1, <1>2, <1>4, <1>5, <1>6, Zenon

(* And so they are after a step.                                           *)
LEMMA ViewsNext ==
  /\ ToHear' = TodoAt(stage', src', call', unit')
  /\ Out' = OutIn(src', dst', call', unit', copied')
  /\ Open' = OpenIn(dst', call') /\ Said' = SaidIn(dst', call')
<1>1. Calling' <=> call' \in Calls
  BY DEF Calling, Calls
<1>2. ToHear' = TodoAt(stage', src', call', unit')
  BY DEF ToHear, TodoAt, TodoIn
<1>3. HandedBack' = BackIn(src', call', unit', copied')
  BY Zenon DEF HandedBack, BackIn
<1>4. Out' = OutIn(src', dst', call', unit', copied')
  <2>1. CASE call' \in Calls
    BY <1>1, <1>3, <2>1 DEF Out, OutIn
  <2>2. CASE call' \notin Calls
    BY <1>1, <2>2 DEF Out, OutIn
  <2> QED
    BY <2>1, <2>2
<1>5. Open' = OpenIn(dst', call') /\ Said' = SaidIn(dst', call')
  BY <1>1, Zenon DEF Open, OpenIn, Said, SaidIn, rest
<1> QED
  BY <1>2, <1>4, <1>5, Zenon

(* What a stage reads and what it writes are two fit emissions.            *)
LEMMA Ends2 ==
  ASSUME PipeTyped
  PROVE  /\ Fit(src) /\ Fit(dst) /\ Far \in Halves /\ Far # live
         /\ live \in Halves => src = bufs[live]
         /\ live = "input" => src = Whole(input)
<1>1. /\ live \in Halves \cup {"input"} /\ FitBufs(bufs) /\ input \in Seq(Item)
  BY DEF PipeTyped
<1>2. Far \in Halves /\ Far # live
  BY <1>1 DEF Far, Halves
<1>3. Fit(dst)
  BY <1>1, <1>2, Zenon DEF dst, FitBufs
<1>4. live \in Halves => src = bufs[live]
  BY DEF src, LiveIn, Halves
<1>5. live = "input" => src = Whole(input)
  BY DEF src, LiveIn
<1>6. Fit(Whole(input))
  <2> DEFINE e == Whole(input)
  <2>1. e \in Results /\ e.bounds = <<>>
    <3> DEFINE y == input
               m == "pending"
               b == <<>>
    <3>1. e = [out |-> y, bounds |-> b, emit |-> m]
      BY DEF Whole, Fresh
    <3>2. m \in Emits /\ b \in Seq(Nat) /\ y \in Seq(Item)
      BY <1>1 DEF Emits
    <3> HIDE DEF y, m, b, e
    <3>3. e \in Results /\ e.bounds = b
      BY <3>1, <3>2 DEF Results
    <3> QED
      BY <3>3 DEF b
  <2>2. Len(e.bounds) = 0
    BY <2>1
  <2> HIDE DEF e
  <2>3. 1..Len(e.bounds) = {}
    BY <2>2
  <2>4. Ascending(e)
    BY <2>3, Zenon DEF Ascending
  <2> QED
    BY <2>1, <2>4, Zenon DEF Fit, e
<1> QED
  BY <1>1, <1>2, <1>3, <1>4, <1>5, <1>6, Zenon DEF FitBufs

(* Writing leaves what is read.                                            *)
LEMMA Wrote ==
  ASSUME PipeTyped, NEW e, Fit(e), Writes(e), live' = live, input' = input
  PROVE  src' = src /\ dst' = e /\ FitBufs(bufs')
<1>1. /\ live \in Halves \cup {"input"} /\ FitBufs(bufs) /\ input \in Seq(Item)
  BY DEF PipeTyped
<1> DEFINE f == Far
<1>2. f \in Halves /\ f # live
  BY Ends2, Zenon
<1>3. Far' = f
  BY DEF Far
<1>4. bufs' = [bufs EXCEPT ![f] = e] /\ bufs \in [Halves -> Results] /\ e \in Results
  BY <1>1, Zenon DEF Writes, FitBufs, Fit
<1> HIDE DEF f
<1>5. /\ bufs' \in [Halves -> Results] /\ bufs'[f] = e
      /\ \A h \in Halves : h # f => bufs'[h] = bufs[h]
  BY <1>2, <1>4
<1>6. dst' = e
  BY <1>3, <1>5, Zenon DEF dst
<1>7. src' = src
  BY <1>1, <1>2, <1>5 DEF src, LiveIn, Whole, Halves
<1>8. \A h \in Halves : Fit(bufs'[h])
  BY <1>1, <1>5, Zenon DEF FitBufs
<1> QED
  BY <1>5, <1>6, <1>7, <1>8, Zenon DEF FitBufs

(* A word is said: the state's view of it.                                 *)
LEMMA SaysKeeps ==
  ASSUME PipeIInv, Calling, words < Words, words' = words + 1,
         UNCHANGED <<driving, call, unit, copied, emitted, failed>>,
         NEW e, Fit(e), Writes(e), NEW w \in BOOLEAN, verbatim' = w,
         Run(src, e, call, unit, copied, w)
  PROVE  /\ PipeIInv'
         /\ ToHear' = ToHear
         /\ Out' = BackIn(src, call, unit, copied) \o units(e)
         /\ Open' = rest(e) /\ Said' = e.emit
         /\ EmittedUnits(emitted)' = EmittedUnits(emitted)
         /\ stage' = stage /\ call' = call /\ eof' = eof /\ failed' = failed
<1>1. /\ stage' = stage /\ call' = call /\ eof' = eof /\ failed' = failed /\ input' = input
      /\ live' = live /\ unit' = unit /\ copied' = copied /\ emitted' = emitted
  BY DEF driving
<1>2. src' = src /\ dst' = e /\ FitBufs(bufs')
  BY <1>1, Wrote, Zenon DEF PipeIInv
<1>3. words' \in 0..Words
  BY PipelineAssumption DEF PipeIInv, PipeTyped
<1>4. PipeTyped'
  <2>1. /\ stage' \in 0..N /\ call' \in Calls \cup {"none", "done"}
        /\ eof' \in BOOLEAN /\ copied' \in BOOLEAN /\ failed' \in BOOLEAN
        /\ live' \in Halves \cup {"input"} /\ unit' \in Nat \ {0}
        /\ input' \in Seq(Item)
    BY <1>1, Zenon DEF PipeIInv, PipeTyped
  <2>2. verbatim' \in BOOLEAN
    OBVIOUS
  <2> QED
    BY <1>2, <1>3, <2>1, <2>2, Zenon DEF PipeTyped
<1>5. Run(src', dst', call', unit', copied', verbatim')
  BY <1>1, <1>2, Zenon
<1>6. (call # "none" => stage # 0)' /\ (Fit(emitted) /\ Handed(emitted))'
  BY <1>1, Zenon DEF PipeIInv
<1>7. PipeIInv'
  BY <1>4, <1>5, <1>6, Zenon DEF PipeIInv
<1>8. call \in Calls
  BY Views, Zenon
<1>9. ToHear' = ToHear
  BY <1>1, <1>2, Views, ViewsNext, Zenon
<1>10. OutIn(src, e, call, unit, copied) = BackIn(src, call, unit, copied) \o units(e)
  <2>1. call # "done"
    BY <1>8 DEF Calls
  <2> QED
    BY <1>8, <2>1 DEF OutIn
<1>11. Out' = BackIn(src, call, unit, copied) \o units(e)
  BY <1>1, <1>2, <1>10, ViewsNext, Zenon
<1>12. Open' = rest(e) /\ Said' = e.emit
  BY <1>1, <1>2, <1>8, ViewsNext, Zenon DEF OpenIn, SaidIn
<1>13. EmittedUnits(emitted)' = EmittedUnits(emitted)
  BY <1>1, Zenon
<1> QED
  BY <1>1, <1>7, <1>9, <1>11, <1>12, <1>13, Zenon

(* What a call hears and has said so far, in both tellings.                *)
LEMMA InCall ==
  ASSUME PipeIInv, Calling
  PROVE  /\ Fit(src) /\ Fit(dst) /\ Run(src, dst, call, unit, copied, verbatim)
         /\ call \in Calls /\ unit \in Nat \ {0} /\ words \in 0..Words
         /\ Heard = HeardIn(src, call, unit) /\ Heard \in Seq(Item)
         /\ InUnits!Input = Heard /\ InUnits!Calling
         /\ InUnits!Kept = KeptIn(dst, Heard)
         /\ ToHear = TodoIn(src, call, unit)
         /\ Out = BackIn(src, call, unit, copied) \o units(dst)
         /\ Out = OutIn(src, dst, call, unit, copied)
         /\ Open = rest(dst) /\ Said = dst.emit
         /\ units(dst) \in Seq(Pages) /\ BackIn(src, call, unit, copied) \in Seq(Pages)
         /\ stage \in 1..N
<1>1. /\ ToHear = TodoAt(stage, src, call, unit)
      /\ Out = OutIn(src, dst, call, unit, copied)
      /\ Open = OpenIn(dst, call) /\ Said = SaidIn(dst, call)
      /\ call \in Calls
      /\ Heard = HeardIn(src, call, unit)
  BY Views, Zenon
<1>2. /\ PipeTyped /\ Run(src, dst, call, unit, copied, verbatim) /\ unit \in Nat \ {0}
      /\ words \in 0..Words
  BY Zenon DEF PipeIInv, PipeTyped
<1>3. Fit(src) /\ Fit(dst)
  BY <1>2, Ends2, Zenon
<1>4. call # "none" /\ call # "done"
  BY <1>1 DEF Calls
<1>5. ToHear = TodoIn(src, call, unit)
  BY <1>1, <1>4, Zenon DEF TodoAt
<1>6. Open = rest(dst) /\ Said = dst.emit
  BY <1>1, Zenon DEF OpenIn, SaidIn
<1> DEFINE c == call
           x == HeardIn(src, c, unit)
           t == TodoIn(src, c, unit)
<1>7. x = (IF t = <<>> THEN <<>> ELSE Head(t)) /\ x \in Seq(Item)
  <2>1. c \in Calls /\ unit \in Nat \ {0} /\ Run(src, dst, c, unit, copied, verbatim)
    BY <1>1, <1>2
  <2> HIDE DEF c
  <2> QED
    BY <1>3, <2>1, HeardIs, Zenon
<1> HIDE DEF x, t
<1>8. InUnits!Input = Heard /\ Heard \in Seq(Item)
  BY <1>1, <1>5, <1>7, Zenon DEF InUnits!Input, x, t
<1>9. InUnits!Calling
  BY DEF Calling, InUnits!Calling
<1>10. InUnits!Kept = KeptIn(dst, Heard)
  BY <1>6, <1>8, Zenon DEF InUnits!Kept, KeptIn
<1>11. Out = BackIn(src, call, unit, copied) \o units(dst)
  BY <1>1, <1>4 DEF OutIn
<1>12. units(dst) \in Seq(Pages)
  BY <1>3, Known, Zenon
<1>13. BackIn(src, call, unit, copied) \in Seq(Pages)
  <2> DEFINE all == units(src)
             T == Pages
  <2>1. all \in Seq(T) /\ Len(all) \in Nat
    BY <1>3, Known, Zenon, PagesAre
  <2>2. CASE ~Framed(src) \/ copied
    <3>1. <<>> \in Seq(Pages)
      OBVIOUS
    <3> QED
      BY <2>2, <3>1, Zenon DEF BackIn
  <2>3. CASE ~(~Framed(src) \/ copied)
    <3>1. \A i \in 0..Len(all) : SubSeq(all, 1, i) \in Seq(T)
      <4> HIDE DEF all, T
      <4> QED
        BY <2>1
    <3>2. call = "bytes" => unit - 1 \in 0..Len(all)
      <4>1. call = "bytes" => unit <= Len(src.bounds)
        BY <1>2, <2>3, Zenon DEF Run
      <4>2. Len(src.bounds) = Len(all)
        BY <1>3, Known, Zenon
      <4> QED
        BY <1>2, <2>1, <4>1, <4>2
    <3>3. Len(all) \in 0..Len(all)
      BY <2>1
    <3> QED
      BY <2>3, <3>1, <3>2, <3>3, Zenon DEF BackIn
  <2> QED
    BY <2>2, <2>3
<1>14. stage \in 1..N
  <2>1. stage # 0 /\ stage \in 0..N
    BY <1>4, Zenon DEF PipeIInv, PipeTyped
  <2> QED
    BY <2>1, PipelineAssumption
<1> QED
  BY <1>1, <1>2, <1>3, <1>5, <1>6, <1>8, <1>9, <1>10, <1>11, <1>12, <1>13, <1>14, Zenon

(* A unit closed behind two sequences.                                     *)
LEMMA ClosedBehind ==
  ASSUME NEW v \in Seq(Pages), NEW w \in Seq(Pages), NEW x \in Pages
  PROVE  v \o ClosedOn(w, x) = ClosedOn(v \o w, x)
<1> DEFINE T == Pages
<1>1. v \in Seq(T) /\ w \in Seq(T) /\ x \in T
  OBVIOUS
<1> HIDE DEF T
<1>2. v \o Append(w, x) = Append(v \o w, x)
  BY <1>1
<1> QED
  BY <1>2, Zenon DEF ClosedOn

(* A plugin's words do in the buffers what they do in units.               *)
LEMMA PassesThroughKeeps ==
  ASSUME PipeIInv, PassesThrough
  PROVE  PipeIInv' /\ InUnits!PassesThrough
<1> DEFINE e == pass_through(dst, Heard)
<1>1. /\ Calling /\ words < Words /\ words' = words + 1 /\ Writes(e)
      /\ UNCHANGED <<driving, call, unit, copied, emitted, failed>>
      /\ verbatim' = verbatim
  BY Zenon DEF PassesThrough, Says
<1>2. /\ Fit(src) /\ Fit(dst) /\ Run(src, dst, call, unit, copied, verbatim)
      /\ call \in Calls /\ Heard \in Seq(Item)
      /\ InUnits!Input = Heard /\ InUnits!Calling
      /\ Out = BackIn(src, call, unit, copied) \o units(dst)
      /\ Open = rest(dst) /\ Said = dst.emit
  BY <1>1, InCall, Zenon
<1>3. /\ Fit(e) /\ units(e) = units(dst)
      /\ rest(e) = IF dst.emit = "buffered" THEN rest(dst) \o Heard ELSE rest(dst)
      /\ e.emit = IF dst.emit = "pending" THEN "passthrough" ELSE dst.emit
      /\ dst.emit # "buffered" /\ Empty(dst) => Empty(e)
  BY <1>2, WordPasses, Zenon
<1> HIDE DEF e
<1>4. e.emit = "buffered" <=> dst.emit = "buffered"
  BY <1>3
<1>5. Run(src, e, call, unit, copied, verbatim)
  BY <1>2, <1>3, <1>4, WordKeeps, Zenon
<1>6. verbatim \in BOOLEAN
  BY DEF PipeIInv, PipeTyped
<1>7. /\ PipeIInv'
      /\ ToHear' = ToHear
      /\ Out' = BackIn(src, call, unit, copied) \o units(e)
      /\ Open' = rest(e) /\ Said' = e.emit
      /\ EmittedUnits(emitted)' = EmittedUnits(emitted)
      /\ stage' = stage /\ call' = call /\ eof' = eof /\ failed' = failed
  BY <1>1, <1>3, <1>5, <1>6, SaysKeeps, Zenon
<1>8. Out' = Out
  BY <1>2, <1>3, <1>7, Zenon
<1>9. Open' = IF Said = "buffered" THEN Open \o InUnits!Input ELSE Open
  BY <1>2, <1>3, <1>7, Zenon
<1>10. Said' = IF Said = "pending" THEN "passthrough" ELSE Said
  BY <1>2, <1>3, <1>7, Zenon
<1> QED
  BY <1>2, <1>7, <1>8, <1>9, <1>10 DEF InUnits!PassesThrough

(* A stage that forwards a byte does so on units.                          *)
LEMMA ForwardsKeeps ==
  ASSUME PipeIInv, Forwards
  PROVE  PipeIInv' /\ InUnits!Forwards
<1> DEFINE b == NewByte
           e == forward(dst, Heard, <<b>>)
<1>1. /\ Calling /\ words < Words /\ words' = words + 1 /\ Writes(e)
      /\ UNCHANGED <<driving, call, unit, copied, emitted, failed>>
      /\ verbatim' = FALSE
  BY Zenon DEF Forwards, Says
<1>2. /\ Fit(src) /\ Fit(dst) /\ Run(src, dst, call, unit, copied, verbatim)
      /\ call \in Calls /\ Heard \in Seq(Item) /\ words \in 0..Words
      /\ InUnits!Kept = KeptIn(dst, Heard) /\ InUnits!Calling
      /\ Out = BackIn(src, call, unit, copied) \o units(dst)
      /\ Open = rest(dst) /\ Said = dst.emit
  BY <1>1, InCall, Zenon
<1>3. b \in Item
  BY <1>1, <1>2, PipelineAssumption DEF NewByte, Item
<1> HIDE DEF b
<1>4. /\ Fit(e) /\ units(e) = units(dst) /\ e.emit = "buffered"
      /\ rest(e) = rest(dst) \o KeptIn(dst, Heard) \o <<b>>
  BY <1>2, <1>3, WordForwards, Zenon
<1> HIDE DEF e
<1>5. Run(src, e, call, unit, copied, FALSE)
  <2>1. dst.emit # "buffered" /\ Empty(dst) /\ e.emit # "buffered" => Empty(e)
    BY <1>4
  <2>2. FALSE => verbatim /\ (dst.emit # "buffered" => e.emit # "buffered")
    OBVIOUS
  <2> QED
    BY <1>2, <1>4, <2>1, <2>2, WordKeeps
<1>6. /\ PipeIInv'
      /\ ToHear' = ToHear
      /\ Out' = BackIn(src, call, unit, copied) \o units(e)
      /\ Open' = rest(e) /\ Said' = e.emit
      /\ EmittedUnits(emitted)' = EmittedUnits(emitted)
      /\ stage' = stage /\ call' = call /\ eof' = eof /\ failed' = failed
  <2>1. FALSE \in BOOLEAN
    OBVIOUS
  <2> QED
    BY <1>1, <1>4, <1>5, <2>1, SaysKeeps, Zenon
<1>7. Out' = Out
  BY <1>2, <1>4, <1>6, Zenon
<1>8. Open' = Open \o InUnits!Kept \o <<b>>
  BY <1>2, <1>4, <1>6, Zenon
<1>9. \E y \in 1..Words : Open' = Open \o InUnits!Kept \o <<y>>
  BY <1>3, <1>8, Zenon DEF Item
<1>10. Said' = "buffered"
  BY <1>4, <1>6, Zenon
<1> QED
  BY <1>2, <1>6, <1>7, <1>9, <1>10 DEF InUnits!Forwards

(* A stage that drops its chunk does so on units.                          *)
LEMMA DropsChunkKeeps ==
  ASSUME PipeIInv, DropsChunk
  PROVE  PipeIInv' /\ InUnits!DropsChunk
<1> DEFINE e == drop_chunk(dst)
<1>1. /\ Calling /\ words < Words /\ words' = words + 1 /\ Writes(e)
      /\ UNCHANGED <<driving, call, unit, copied, emitted, failed>>
      /\ verbatim' = verbatim
  BY Zenon DEF DropsChunk, Says
<1>2. /\ Fit(src) /\ Fit(dst) /\ Run(src, dst, call, unit, copied, verbatim)
      /\ call \in Calls /\ InUnits!Calling
      /\ Out = BackIn(src, call, unit, copied) \o units(dst)
      /\ Open = rest(dst) /\ Said = dst.emit
  BY <1>1, InCall, Zenon
<1>3. /\ Fit(e) /\ units(e) = units(dst) /\ rest(e) = rest(dst)
      /\ e.emit = IF dst.emit = "passthrough" THEN "pending" ELSE dst.emit
      /\ Empty(dst) => Empty(e)
  BY <1>2, WordDrops, Zenon
<1> HIDE DEF e
<1>4. e.emit = "buffered" <=> dst.emit = "buffered"
  BY <1>3
<1>5. Run(src, e, call, unit, copied, verbatim)
  BY <1>2, <1>3, <1>4, WordKeeps, Zenon
<1>6. verbatim \in BOOLEAN
  BY DEF PipeIInv, PipeTyped
<1>7. /\ PipeIInv'
      /\ ToHear' = ToHear
      /\ Out' = BackIn(src, call, unit, copied) \o units(e)
      /\ Open' = rest(e) /\ Said' = e.emit
      /\ EmittedUnits(emitted)' = EmittedUnits(emitted)
      /\ stage' = stage /\ call' = call /\ eof' = eof /\ failed' = failed
  BY <1>1, <1>3, <1>5, <1>6, SaysKeeps, Zenon
<1>8. Out' = Out /\ Open' = Open /\ Said' = IF Said = "passthrough" THEN "pending" ELSE Said
  BY <1>2, <1>3, <1>7, Zenon
<1> QED
  BY <1>2, <1>7, <1>8 DEF InUnits!DropsChunk

(* A stage that ends a unit does so on units.                              *)
LEMMA CutsKeeps ==
  ASSUME PipeIInv, Cuts
  PROVE  PipeIInv' /\ InUnits!Cuts
<1> DEFINE m == IF dst.emit = "passthrough" THEN "buffered" ELSE dst.emit
           e == close(CopiedInto(dst, Heard, m))
           w == verbatim /\ dst.emit # "passthrough"
           x == rest(dst) \o KeptIn(dst, Heard)
           back == BackIn(src, call, unit, copied)
<1>1. /\ Calling /\ words < Words /\ words' = words + 1 /\ Writes(boundary(dst, Heard))
      /\ UNCHANGED <<driving, call, unit, copied, emitted, failed>>
      /\ verbatim' = w
  BY Zenon DEF Cuts, Says
<1>2. /\ Fit(src) /\ Fit(dst) /\ Run(src, dst, call, unit, copied, verbatim)
      /\ call \in Calls /\ Heard \in Seq(Item)
      /\ InUnits!Kept = KeptIn(dst, Heard) /\ InUnits!Calling
      /\ Out = back \o units(dst) /\ units(dst) \in Seq(Pages) /\ back \in Seq(Pages)
      /\ Open = rest(dst) /\ Said = dst.emit
  BY <1>1, InCall, Zenon
<1>3. boundary(dst, Heard) = e
  BY DEF boundary, CopiedInto
<1>4. m \in Emits /\ (m = "buffered" <=> dst.emit # "pending")
  <2>1. dst.emit \in Emits
    BY <1>2, Fits, Zenon
  <2> QED
    BY <2>1 DEF Emits
<1>5. x \in Pages
  <2> DEFINE y == rest(dst)
             z == KeptIn(dst, Heard)
  <2>1. y \in Seq(Item)
    BY <1>2, Known, Zenon DEF Pages
  <2>2. z \in Seq(Item)
    <3>1. <<>> \in Seq(Item)
      OBVIOUS
    <3> QED
      BY <1>2, <3>1, Zenon DEF KeptIn
  <2> HIDE DEF y, z
  <2>3. y \o z \in Seq(Item)
    BY <2>1, <2>2
  <2> QED
    BY <2>3 DEF y, z, Pages
<1> HIDE DEF m
<1>6. /\ Fit(e) /\ rest(e) = <<>> /\ e.emit = m
      /\ units(e) = ClosedOn(units(dst), x)
      /\ dst.emit # "passthrough" /\ Empty(dst) => Empty(e)
  BY <1>2, <1>4, WordCuts, Zenon
<1> HIDE DEF e, x, back
<1>7. Run(src, e, call, unit, copied, w)
  <2>1. dst.emit # "buffered" /\ Empty(dst) /\ e.emit # "buffered" => Empty(e)
    <3>1. dst.emit = "passthrough" => m = "buffered"
      BY <1>4
    <3> QED
      BY <1>6, <3>1, Zenon
  <2>2. dst.emit = "buffered" => e.emit = "buffered"
    BY <1>4, <1>6
  <2>3. w => verbatim /\ (dst.emit # "buffered" => e.emit # "buffered")
    <3>1. dst.emit \in Emits
      BY <1>2, Fits, Zenon
    <3> QED
      BY <1>4, <1>6, <3>1 DEF Emits
  <2> HIDE DEF w
  <2> QED
    BY <1>2, <2>1, <2>2, <2>3, WordKeeps, Zenon
<1>8. w \in BOOLEAN
  BY DEF PipeIInv, PipeTyped
<1> HIDE DEF w
<1>9. /\ PipeIInv'
      /\ ToHear' = ToHear
      /\ Out' = BackIn(src, call, unit, copied) \o units(e)
      /\ Open' = rest(e) /\ Said' = e.emit
      /\ EmittedUnits(emitted)' = EmittedUnits(emitted)
      /\ stage' = stage /\ call' = call /\ eof' = eof /\ failed' = failed
  BY <1>1, <1>3, <1>6, <1>7, <1>8, SaysKeeps, Zenon
<1>10. Out' = back \o ClosedOn(units(dst), x)
  BY <1>6, <1>9, Zenon DEF back
<1>11. Out' = ClosedOn(Out, x)
  BY <1>2, <1>5, <1>10, ClosedBehind, Zenon
<1>12. Out' = InUnits!Closed(Open \o InUnits!Kept)
  BY <1>2, <1>11, Zenon DEF x, ClosedOn, InUnits!Closed
<1>13. Open' = <<>> /\ Said' = IF Said = "passthrough" THEN "buffered" ELSE Said
  BY <1>2, <1>6, <1>9, Zenon DEF m
<1> QED
  BY <1>2, <1>9, <1>12, <1>13 DEF InUnits!Cuts

(* An emission that nothing was said in.                                   *)
LEMMA FreshIs ==
  /\ Fit(Fresh) /\ Empty(Fresh) /\ Fresh.emit = "pending" /\ Handed(Fresh) /\ ~Framed(Fresh)
  /\ units(Fresh) = <<>> /\ rest(Fresh) = <<>> /\ EmittedUnits(Fresh) = <<>>
<1> DEFINE e == Fresh
           y == <<>>
           m == "pending"
<1>1. e = [out |-> y, bounds |-> y, emit |-> m]
  BY DEF Fresh
<1>2. m \in Emits /\ y \in Seq(Nat) /\ y \in Seq(Item) /\ 1..Len(y) = {}
  BY DEF Emits
<1> HIDE DEF e, y, m
<1>3. e \in Results /\ e.out = y /\ e.bounds = y /\ e.emit = m
  BY <1>1, <1>2 DEF Results
<1>4. Ascending(e)
  BY <1>2, <1>3, Zenon DEF Ascending
<1>5. Fit(e) /\ Empty(e) /\ ~Framed(e)
  BY <1>3, <1>4, Zenon DEF Fit, Empty, Framed, y
<1>6. Handed(e)
  BY <1>5, Zenon DEF Handed
<1>7. EmittedUnits(e) = <<>> /\ units(e) = <<>> /\ rest(e) = <<>>
  BY <1>3, <1>5, <1>6, EmittedIs, Zenon DEF y
<1> QED
  BY <1>3, <1>5, <1>6, <1>7, Zenon DEF e, m

(* A caller's chunk is one emission, unframed.                             *)
LEMMA WholeIs ==
  ASSUME NEW o \in Seq(Item)
  PROVE  /\ Fit(Whole(o)) /\ Handed(Whole(o)) /\ ~Framed(Whole(o)) /\ Whole(o).out = o
         /\ Whole(o).bounds = <<>>
         /\ EmittedUnits(Whole(o)) = IF o = <<>> THEN <<>> ELSE <<o>>
<1> DEFINE e == Whole(o)
           y == <<>>
           m == "pending"
<1>1. e = [out |-> o, bounds |-> y, emit |-> m]
  BY DEF Fresh, Whole
<1>2. m \in Emits /\ y \in Seq(Nat) /\ 1..Len(y) = {}
  BY DEF Emits
<1> HIDE DEF e, y, m
<1>3. e \in Results /\ e.out = o /\ e.bounds = y /\ e.emit = m
  BY <1>1, <1>2 DEF Results
<1>4. Ascending(e)
  BY <1>2, <1>3, Zenon DEF Ascending
<1>5. Fit(e) /\ ~Framed(e)
  BY <1>3, <1>4, Zenon DEF Fit, Framed, y
<1>6. Handed(e)
  BY <1>5, Zenon DEF Handed
<1>7. EmittedUnits(e) = IF o = <<>> THEN <<>> ELSE <<o>>
  BY <1>3, <1>5, <1>6, EmittedIs, Zenon
<1> QED
  BY <1>3, <1>5, <1>6, <1>7, Zenon DEF e, y

(* A stage's call begins, or the host's: the two halves stay fit.          *)
LEMMA BeginsKeeps ==
  ASSUME PipeIInv, Begins
  PROVE  PipeIInv' /\ InUnits!Begins
<1> DEFINE e == Fresh
           c == IF src.out = <<>> THEN "eof" ELSE "bytes"
<1>1. /\ stage # 0 /\ call = "none" /\ Writes(e)
      /\ unit' = 1 /\ copied' = FALSE /\ verbatim' = TRUE /\ call' = c
      /\ stage' = stage /\ eof' = eof /\ input' = input /\ live' = live
      /\ emitted' = emitted /\ failed' = failed /\ words' = words
  BY DEF Begins, driving
<1>2. Fit(e) /\ Empty(e) /\ e.emit = "pending" /\ units(e) = <<>> /\ rest(e) = <<>>
  BY FreshIs, Zenon
<1>3. PipeTyped /\ Fit(src) /\ Handed(src) /\ Fit(emitted) /\ Handed(emitted)
  BY Ends2, Zenon DEF PipeIInv, Run
<1>4. src' = src /\ dst' = e /\ FitBufs(bufs')
  BY <1>1, <1>2, <1>3, Wrote, Zenon
<1> HIDE DEF e
<1>5. (c = "bytes" \/ c = "eof") /\ c \in Calls /\ c # "none" /\ c # "done" /\ c # "tick"
      /\ (c = "bytes" <=> src.out # <<>>)
  BY DEF Calls
<1>6. PipeTyped'
  <2>1. call' \in Calls \cup {"none", "done"} /\ unit' \in Nat \ {0} /\ copied' \in BOOLEAN
        /\ verbatim' \in BOOLEAN
    <3>1. 1 \in Nat \ {0} /\ FALSE \in BOOLEAN /\ TRUE \in BOOLEAN
      OBVIOUS
    <3>2. c \in Calls \cup {"none", "done"}
      BY <1>5
    <3> QED
      BY <1>1, <3>1, <3>2, Zenon
  <2> QED
    BY <1>1, <1>3, <1>4, <2>1, Zenon DEF PipeTyped
<1>7. Run(src, e, c, 1, FALSE, TRUE)
  <2>1. Framed(src) => 1 <= Len(src.bounds)
    <3>1. Len(src.bounds) \in Nat /\ (Framed(src) <=> Len(src.bounds) # 0)
      BY <1>3, Known, Zenon
    <3> QED
      BY <3>1
  <2>2. e.emit # "buffered"
    BY <1>2
  <2> HIDE DEF c
  <2> QED
    BY <1>2, <1>3, <1>5, <2>1, <2>2, Zenon DEF Run
<1> HIDE DEF c
<1>8. PipeIInv'
  BY <1>1, <1>3, <1>4, <1>6, <1>7, Zenon DEF PipeIInv
<1>9. /\ EmittedUnits(src) \in Seq(Pages) /\ (EmittedUnits(src) = <<>> <=> src.out = <<>>)
      /\ (src.out = <<>> => ~Framed(src))
  <2>1. Framed(src) => src.out # <<>>
    BY <1>3, Known, Zenon DEF Handed
  <2> QED
    BY <1>3, <2>1, EmittedIs, Zenon
<1>10. ToHear = EmittedUnits(src)
  BY <1>1, Views DEF TodoAt, TodoIn
<1>11. ToHear' = EmittedUnits(src)
  <2>1. ToHear' = TodoIn(src, c, 1)
    BY <1>1, <1>4, <1>5, ViewsNext, Zenon DEF TodoAt
  <2>2. CASE c = "eof"
    BY <1>5, <1>9, <2>1, <2>2 DEF TodoIn
  <2>3. CASE c = "bytes"
    <3> DEFINE h == EmittedUnits(src)
    <3>1. ToHear' = SubSeq(h, 1, Len(h))
      BY <2>1, <2>3 DEF TodoIn
    <3> HIDE DEF h
    <3>2. SubSeq(h, 1, Len(h)) = h
      BY <1>9, PagesAre, Zenon DEF h
    <3> QED
      BY <3>1, <3>2 DEF h
  <2> QED
    BY <1>5, <2>2, <2>3
<1>12. Out = <<>> /\ Open = <<>> /\ Said = "pending"
  <2>1. call \notin Calls
    BY <1>1 DEF Calls
  <2> QED
    BY <1>1, <2>1, Views DEF OutIn, OpenIn, SaidIn
<1>13. Out' = <<>>
  <2>1. Out' = BackIn(src, c, 1, FALSE) \o units(e)
    <3>1. Out' = OutIn(src, e, c, 1, FALSE)
      BY <1>1, <1>4, ViewsNext, Zenon
    <3> QED
      BY <1>5, <3>1 DEF OutIn
  <2>2. BackIn(src, c, 1, FALSE) = <<>>
    <3>1. CASE ~Framed(src)
      BY <3>1, Zenon DEF BackIn
    <3>2. CASE Framed(src)
      <4> DEFINE all == units(src)
      <4>1. c = "bytes"
        BY <1>5, <1>9, <3>2, Zenon
      <4>2. BackIn(src, c, 1, FALSE) = SubSeq(all, 1, 0)
        BY <3>2, <4>1 DEF BackIn
      <4>3. all \in Seq(Pages)
        BY <1>3, Known, Zenon
      <4> HIDE DEF all
      <4> QED
        BY <4>2, <4>3, PagesAre, Zenon
    <3> QED
      BY <3>1, <3>2
  <2>3. <<>> \o <<>> = <<>>
    OBVIOUS
  <2> QED
    BY <1>2, <2>1, <2>2, <2>3, Zenon
<1>14. Open' = <<>> /\ Said' = "pending"
  BY <1>1, <1>2, <1>4, <1>5, ViewsNext, Zenon DEF OpenIn, SaidIn
<1>15. call' = IF ToHear = <<>> THEN "eof" ELSE "bytes"
  BY <1>1, <1>5, <1>9, <1>10, Zenon
<1>16. EmittedUnits(emitted)' = EmittedUnits(emitted)
  BY <1>1, Zenon
<1> QED
  BY <1>1, <1>8, <1>10, <1>11, <1>12, <1>13, <1>14, <1>15, <1>16 DEF InUnits!Begins

(* The host drives a segment that is idle.                                 *)
LEMMA DrivesKeep ==
  ASSUME PipeIInv, Idle, NEW n \in 1..N, NEW bytes \in Seq(Item), NEW ended \in BOOLEAN,
         Drives(n, bytes, ended), words' \in 0..Words,
         \/ call' = call /\ bufs' = bufs
         \/ call' = "tick" /\ bytes = <<>> /\ bufs' = [bufs EXCEPT !["a"] = Fresh]
  PROVE  /\ PipeIInv'
         /\ ToHear = <<>> /\ Out = <<>> /\ Open = <<>> /\ Said = "pending"
         /\ ToHear' = IF bytes = <<>> THEN <<>> ELSE <<bytes>>
         /\ Out' = <<>> /\ Open' = <<>> /\ Said' = "pending"
         /\ EmittedUnits(emitted)' = <<>>
         /\ stage' = n /\ eof' = ended /\ failed' = failed /\ InUnits!Idle /\ call = "none"
<1>1. /\ stage' = n /\ input' = bytes /\ live' = "input" /\ eof' = ended
      /\ emitted' = Fresh /\ unit' = unit /\ copied' = copied /\ failed' = failed
      /\ verbatim' = verbatim
  BY DEF Drives
<1>2. stage = 0 /\ call = "none" /\ PipeTyped /\ FitBufs(bufs)
  BY Zenon DEF Idle, PipeIInv, PipeTyped
<1>3. n # 0 /\ n \in 0..N
  BY PipelineAssumption
<1>4. src' = Whole(bytes)
  BY <1>1 DEF src, LiveIn, Whole
<1>5. /\ Fit(Whole(bytes)) /\ Handed(Whole(bytes)) /\ ~Framed(Whole(bytes))
      /\ Whole(bytes).out = bytes /\ Whole(bytes).bounds = <<>>
      /\ EmittedUnits(Whole(bytes)) = IF bytes = <<>> THEN <<>> ELSE <<bytes>>
  BY WholeIs, Zenon
<1>6. dst' = bufs'["a"]
  BY <1>1 DEF dst, Far
<1>7. FitBufs(bufs') /\ (call' = "tick" => bytes = <<>> /\ dst' = Fresh) /\ call' \in {"none", "tick"}
  <2>1. CASE call' = call /\ bufs' = bufs
    <3>1. call' # "tick" /\ call' \in {"none", "tick"}
      BY <1>2, <2>1
    <3> QED
      BY <1>2, <2>1, <3>1, Zenon
  <2>2. CASE call' = "tick" /\ bytes = <<>> /\ bufs' = [bufs EXCEPT !["a"] = Fresh]
    <3> DEFINE e == Fresh
    <3>1. Fit(e) /\ e \in Results
      BY FreshIs, Zenon DEF Fit
    <3>2. bufs \in [Halves -> Results] /\ "a" \in Halves /\ \A h \in Halves : Fit(bufs[h])
      BY <1>2 DEF FitBufs, Halves
    <3>3. bufs' = [bufs EXCEPT !["a"] = e]
      BY <2>2
    <3> HIDE DEF e
    <3>4. /\ bufs' \in [Halves -> Results] /\ bufs'["a"] = e
          /\ \A h \in Halves : h # "a" => bufs'[h] = bufs[h]
      BY <3>1, <3>2, <3>3
    <3>5. \A h \in Halves : Fit(bufs'[h])
      BY <3>1, <3>2, <3>4, Zenon
    <3>6. FitBufs(bufs')
      BY <3>4, <3>5, Zenon DEF FitBufs
    <3> QED
      BY <1>6, <2>2, <3>4, <3>6, Zenon DEF e
  <2> QED
    BY <2>1, <2>2
<1>8. PipeTyped'
  <2>1. "input" \in Halves \cup {"input"} /\ call' \in Calls \cup {"none", "done"}
    BY <1>7 DEF Calls
  <2> QED
    BY <1>1, <1>2, <1>3, <1>7, <2>1, Zenon DEF PipeTyped
<1>9. Run(src', dst', call', unit', copied', verbatim')
  <2>1. call' # "bytes" /\ call' # "done" /\ (call' \in Calls => call' = "tick")
    BY <1>7 DEF Calls
  <2>2. call' = "tick" => dst'.emit = "pending" /\ Empty(dst') /\ "pending" # "buffered"
    BY <1>7, FreshIs, Zenon
  <2> QED
    BY <1>4, <1>5, <1>7, <2>1, <2>2, Zenon DEF Run, Empty
<1>10. PipeIInv'
  <2>1. Fit(emitted') /\ Handed(emitted') /\ stage' # 0
    BY <1>1, <1>3, FreshIs, Zenon
  <2> QED
    BY <1>8, <1>9, <2>1, Zenon DEF PipeIInv
<1>11. ToHear = <<>> /\ Out = <<>> /\ Open = <<>> /\ Said = "pending"
  <2>1. call \notin Calls
    BY <1>2 DEF Calls
  <2> QED
    BY <1>2, <2>1, Views DEF TodoAt, OutIn, OpenIn, SaidIn
<1>12. ToHear' = IF bytes = <<>> THEN <<>> ELSE <<bytes>>
  <2>1. ToHear' = TodoIn(Whole(bytes), call', unit')
    BY <1>1, <1>3, <1>4, ViewsNext, Zenon DEF TodoAt
  <2>2. CASE call' = "none"
    <3>1. ToHear' = EmittedUnits(Whole(bytes))
      BY <2>1, <2>2 DEF TodoIn
    <3> QED
      BY <1>5, <3>1, Zenon
  <2>3. CASE call' = "tick"
    <3>1. ToHear' = <<>>
      BY <2>1, <2>3 DEF TodoIn
    <3> QED
      BY <1>7, <2>3, <3>1, Zenon
  <2> QED
    BY <1>7, <2>2, <2>3
<1>13. Out' = <<>> /\ Open' = <<>> /\ Said' = "pending"
  <2>1. CASE call' = "none"
    <3>1. call' \notin Calls /\ call' # "done"
      BY <2>1 DEF Calls
    <3> QED
      BY <3>1, ViewsNext DEF OutIn, OpenIn, SaidIn
  <2>2. CASE call' = "tick"
    <3>1. call' \in Calls /\ call' # "done" /\ dst' = Fresh
      BY <1>7, <2>2 DEF Calls
    <3>2. Open' = rest(Fresh) /\ Said' = Fresh.emit
      BY <3>1, ViewsNext, Zenon DEF OpenIn, SaidIn
    <3>3. Out' = <<>> \o units(Fresh)
      <4>1. Out' = OutIn(Whole(bytes), Fresh, call', unit', copied')
        BY <1>4, <3>1, ViewsNext, Zenon
      <4>2. BackIn(Whole(bytes), call', unit', copied') = <<>>
        BY <1>5, Zenon DEF BackIn
      <4> QED
        BY <3>1, <4>1, <4>2 DEF OutIn
    <3>4. <<>> \o <<>> = <<>>
      OBVIOUS
    <3> QED
      BY <3>2, <3>3, <3>4, FreshIs, Zenon
  <2> QED
    BY <1>7, <2>1, <2>2
<1>14. EmittedUnits(emitted)' = <<>>
  BY <1>1, FreshIs, Zenon
<1>15. InUnits!Idle
  BY DEF Idle, InUnits!Idle
<1> QED
  BY <1>1, <1>2, <1>10, <1>11, <1>12, <1>13, <1>14, <1>15, Zenon

(* A chunk, a tick or the end of the stream that comes in is one of units. *)
LEMMA HostKeeps ==
  ASSUME PipeIInv, Process \/ Finish \/ Tick
  PROVE  PipeIInv' /\ (InUnits!Process \/ InUnits!Finish \/ InUnits!Tick)
<1>1. words \in 0..Words /\ N \in Nat \ {0} /\ Words \in Nat
  BY PipelineAssumption DEF PipeIInv, PipeTyped
<1>2. 1 \in 1..N /\ FALSE \in BOOLEAN /\ TRUE \in BOOLEAN
  BY <1>1
<1>3. <<>> \in Seq(Item)
  OBVIOUS
<1>4. CASE Process
  <2> DEFINE b == words + 1
             y == <<b>>
  <2>1. b \in Item /\ words' \in 0..Words
    BY <1>1, <1>4 DEF Process, Item
  <2> HIDE DEF b
  <2>2. y \in Seq(Item) /\ y # <<>>
    BY <2>1
  <2>3. Idle /\ Drives(1, y, FALSE) /\ call' = call /\ bufs' = bufs
    BY <1>4 DEF Process, NewByte, b
  <2> HIDE DEF y
  <2>4. /\ PipeIInv'
        /\ Out = <<>> /\ Open = <<>> /\ Said = "pending"
        /\ ToHear' = IF y = <<>> THEN <<>> ELSE <<y>>
        /\ Out' = <<>> /\ Open' = <<>> /\ Said' = "pending"
        /\ EmittedUnits(emitted)' = <<>>
        /\ stage' = 1 /\ eof' = FALSE /\ failed' = failed /\ InUnits!Idle
    BY <1>2, <2>1, <2>2, <2>3, DrivesKeep, Zenon
  <2>5. eof' = eof
    BY <2>3, <2>4 DEF Idle, PipeIInv, PipeTyped
  <2>6. \E z \in 1..Words : ToHear' = << <<z>> >>
    BY <2>1, <2>2, <2>4, Zenon DEF y, Item
  <2>7. InUnits!Process
    BY <2>3, <2>4, <2>5, <2>6, Zenon DEF InUnits!Process
  <2> QED
    BY <2>4, <2>7
<1>5. CASE Finish
  <2>1. Idle /\ Drives(1, <<>>, TRUE) /\ call' = call /\ bufs' = bufs /\ words' \in 0..Words
    BY <1>1, <1>5 DEF Finish
  <2>2. /\ PipeIInv'
        /\ ToHear = <<>> /\ Out = <<>> /\ Open = <<>> /\ Said = "pending"
        /\ ToHear' = <<>>
        /\ Out' = <<>> /\ Open' = <<>> /\ Said' = "pending"
        /\ EmittedUnits(emitted)' = <<>>
        /\ stage' = 1 /\ eof' = TRUE /\ failed' = failed /\ InUnits!Idle
    BY <1>2, <1>3, <2>1, DrivesKeep, Zenon
  <2>3. InUnits!Finish
    BY <2>1, <2>2, Zenon DEF InUnits!Finish
  <2> QED
    BY <2>2, <2>3
<1>6. CASE Tick
  <2>1. PICK n \in 1..N : Drives(n, <<>>, FALSE)
    BY <1>6, Zenon DEF Tick
  <2>2. /\ Idle /\ call' = "tick" /\ bufs' = [bufs EXCEPT !["a"] = Fresh]
        /\ words' \in 0..Words
    BY <1>1, <1>6 DEF Tick
  <2>3. /\ PipeIInv'
        /\ ToHear = <<>> /\ Out = <<>> /\ Open = <<>> /\ Said = "pending"
        /\ ToHear' = <<>>
        /\ Out' = <<>> /\ Open' = <<>> /\ Said' = "pending"
        /\ EmittedUnits(emitted)' = <<>>
        /\ stage' = n /\ eof' = FALSE /\ failed' = failed /\ InUnits!Idle
    BY <1>2, <1>3, <2>1, <2>2, DrivesKeep, Zenon
  <2>4. eof' = eof
    BY <2>2, <2>3 DEF Idle, PipeIInv, PipeTyped
  <2>5. InUnits!Tick
    BY <2>1, <2>2, <2>3, <2>4, Zenon DEF InUnits!Tick
  <2> QED
    BY <2>3, <2>5
<1> QED
  BY <1>4, <1>5, <1>6

(* A call ends: what is common to its ways of ending.                      *)
LEMMA EndsKeep ==
  ASSUME PipeIInv, Calling,
         stage' = stage, eof' = eof, live' = live, input' = input,
         emitted' = emitted, failed' = failed, words' = words,
         NEW c2, call' = c2, c2 \in Calls \cup {"done"},
         NEW u2 \in Nat \ {0}, unit' = u2, NEW cp2 \in BOOLEAN, copied' = cp2,
         NEW w \in BOOLEAN, verbatim' = w,
         NEW d2, Fit(d2), Writes(d2), Run(src, d2, c2, u2, cp2, w)
  PROVE  /\ PipeIInv'
         /\ ToHear' = TodoIn(src, c2, u2) /\ Out' = OutIn(src, d2, c2, u2, cp2)
         /\ Open' = OpenIn(d2, c2) /\ Said' = SaidIn(d2, c2)
         /\ EmittedUnits(emitted)' = EmittedUnits(emitted)
<1>1. c2 # "none" /\ c2 \in Calls \cup {"none", "done"}
  BY DEF Calls
<1>2. src' = src /\ dst' = d2 /\ FitBufs(bufs')
  BY Wrote, Zenon DEF PipeIInv
<1>3. PipeTyped'
  BY <1>1, <1>2, Zenon DEF PipeIInv, PipeTyped
<1>4. stage # 0
  BY InCall DEF PipeIInv, Calling
<1>5. PipeIInv'
  BY <1>2, <1>3, <1>4, Zenon DEF PipeIInv
<1>6. ToHear' = TodoIn(src, c2, u2)
  BY <1>1, <1>2, ViewsNext, Zenon DEF TodoAt
<1>7. Out' = OutIn(src, d2, c2, u2, cp2) /\ Open' = OpenIn(d2, c2) /\ Said' = SaidIn(d2, c2)
  BY <1>2, ViewsNext, Zenon
<1> QED
  BY <1>5, <1>6, <1>7, Zenon

(* A call that heard what was handed over as one.                          *)
LEMMA UnframedKeeps ==
  ASSUME PipeIInv, ReturnsUnframed
  PROVE  PipeIInv' /\ (InUnits!Returns \/ InUnits!RunsOn)
<1> DEFINE w == verbatim /\ (src.out = <<>> \/ dst.emit = "passthrough")
           x == rest(dst) \o KeptIn(dst, Heard)
<1>1. /\ Calling /\ (call # "tick" => ~Framed(src))
      /\ stage' = stage /\ eof' = eof /\ live' = live /\ input' = input /\ unit' = unit
      /\ copied' = copied /\ emitted' = emitted /\ failed' = failed /\ words' = words
      /\ verbatim' = w
  BY DEF ReturnsUnframed, driving
<1>2. /\ Fit(src) /\ Fit(dst) /\ Run(src, dst, call, unit, copied, verbatim)
      /\ call \in Calls /\ unit \in Nat \ {0}
      /\ Heard = HeardIn(src, call, unit) /\ Heard \in Seq(Item)
      /\ InUnits!Kept = KeptIn(dst, Heard) /\ InUnits!Calling
      /\ ToHear = TodoIn(src, call, unit)
      /\ Out = OutIn(src, dst, call, unit, copied)
      /\ Open = rest(dst) /\ Said = dst.emit
  BY <1>1, InCall, Zenon
<1>3. w \in BOOLEAN /\ copied \in BOOLEAN /\ (w => verbatim)
      /\ (w => verbatim /\ (src.out = <<>> \/ dst.emit = "passthrough"))
  BY DEF PipeIInv, PipeTyped
<1> HIDE DEF w
<1>4. CASE call = "bytes" /\ eof
  <2>1. call' = "eof" /\ bufs' = bufs
    BY <1>4 DEF ReturnsUnframed
  <2>2. ~Framed(src)
    BY <1>1, <1>4
  <2>3. Writes(dst)
    <3>1. /\ bufs \in [Halves -> Results] /\ Far \in Halves
      BY Ends2, Zenon DEF PipeIInv, PipeTyped, FitBufs
    <3>2. bufs = [bufs EXCEPT ![Far] = bufs[Far]]
      BY <3>1
    <3> QED
      BY <2>1, <3>2, Zenon DEF Writes, dst
  <2>4. /\ Run(src, dst, "eof", unit, copied, w)
        /\ OutIn(src, dst, "eof", unit, copied) = OutIn(src, dst, "bytes", unit, copied)
        /\ TodoIn(src, "eof", unit) = TodoIn(src, "bytes", unit)
        /\ Len(TodoIn(src, "bytes", unit)) = 1
    <3>1. Run(src, dst, "bytes", unit, copied, verbatim)
      BY <1>2, <1>4
    <3> QED
      BY <1>2, <1>3, <2>2, <3>1, RunsIntoEnd, Zenon
  <2>5. "eof" \in Calls \cup {"done"} /\ "eof" \in Calls
    BY DEF Calls
  <2>6. /\ PipeIInv'
        /\ ToHear' = TodoIn(src, "eof", unit) /\ Out' = OutIn(src, dst, "eof", unit, copied)
        /\ Open' = OpenIn(dst, "eof") /\ Said' = SaidIn(dst, "eof")
        /\ EmittedUnits(emitted)' = EmittedUnits(emitted)
    BY <1>1, <1>2, <1>3, <2>1, <2>3, <2>4, <2>5, EndsKeep, Zenon
  <2>7. ToHear' = ToHear /\ Out' = Out /\ Open' = Open /\ Said' = Said /\ Len(ToHear) = 1
    BY <1>2, <1>4, <2>4, <2>5, <2>6, Zenon DEF OpenIn, SaidIn
  <2>8. InUnits!RunsOn
    BY <1>1, <1>4, <2>1, <2>6, <2>7 DEF InUnits!RunsOn, InUnits!heard
  <2> QED
    BY <2>6, <2>8
<1>5. CASE ~(call = "bytes" /\ eof)
  <2> DEFINE e == ClosedIfFramed(dst)
  <2>1. call' = "done" /\ Writes(e)
    BY <1>5 DEF ReturnsUnframed
  <2>2. /\ Fit(e) /\ Run(src, e, "done", unit, copied, w)
        /\ OutIn(src, e, "done", unit, copied)
             = ClosedOn(OutIn(src, dst, call, unit, copied),
                        rest(dst) \o KeptIn(dst, HeardIn(src, call, unit)))
    <3> DEFINE c == call
    <3>1. c \in Calls /\ Run(src, dst, c, unit, copied, verbatim) /\ (c # "tick" => ~Framed(src))
      BY <1>1, <1>2
    <3> HIDE DEF c
    <3>2. /\ Fit(e) /\ Run(src, e, "done", unit, copied, w)
          /\ OutIn(src, e, "done", unit, copied)
               = ClosedOn(OutIn(src, dst, c, unit, copied),
                          rest(dst) \o KeptIn(dst, HeardIn(src, c, unit)))
      BY <1>2, <1>3, <3>1, UnframedReturns, Zenon
    <3> QED
      BY <3>2 DEF c
  <2> HIDE DEF e
  <2>3. "done" \in Calls \cup {"done"} /\ "done" \notin Calls /\ "done" # "none"
    BY DEF Calls
  <2>4. /\ PipeIInv'
        /\ ToHear' = TodoIn(src, "done", unit) /\ Out' = OutIn(src, e, "done", unit, copied)
        /\ Open' = OpenIn(e, "done") /\ Said' = SaidIn(e, "done")
        /\ EmittedUnits(emitted)' = EmittedUnits(emitted)
    BY <1>1, <1>2, <1>3, <2>1, <2>2, <2>3, EndsKeep, ZenonT(40)
  <2>5. Open' = <<>> /\ Said' = "pending" /\ ToHear' = <<>>
    BY <2>3, <2>4 DEF OpenIn, SaidIn, TodoIn
  <2>6. Out' = InUnits!Closed(Open \o InUnits!Kept)
    BY <1>2, <2>2, <2>4, Zenon DEF InUnits!Closed, ClosedOn
  <2>7. ToHear = <<>> \/ Tail(ToHear) = <<>>
    <3> DEFINE c == call
               t == TodoIn(src, c, unit)
    <3>1. ~(c = "bytes" /\ Framed(src)) /\ c \in Calls /\ Run(src, dst, c, unit, copied, verbatim)
      BY <1>1, <1>2
    <3> HIDE DEF c
    <3>2. t = <<>> \/ Tail(t) = <<>>
      BY <1>2, <3>1, HeardIs, Zenon
    <3> QED
      BY <1>2, <3>2, Zenon DEF c
  <2>8. ToHear' = IF ToHear = <<>> THEN <<>> ELSE Tail(ToHear)
    BY <2>5, <2>7, Zenon
  <2>9. call' = IF call = "bytes" /\ ToHear' # <<>> THEN "bytes"
                ELSE IF call = "bytes" /\ eof THEN "eof" ELSE "done"
    BY <1>5, <2>1, <2>5, Zenon
  <2>10. InUnits!Returns
    BY <1>1, <1>2, <2>4, <2>5, <2>6, <2>8, <2>9 DEF InUnits!Returns
  <2> QED
    BY <2>4, <2>10
<1> QED
  BY <1>4, <1>5

(* A call for a unit that returns is one that returns on units.            *)
LEMMA UnitKeeps ==
  ASSUME PipeIInv, ReturnsUnit
  PROVE  PipeIInv' /\ InUnits!Returns
<1> DEFINE free == ~copied /\ dst.emit = "passthrough"
           cp2  == ~free
           w    == verbatim /\ dst.emit = "passthrough"
           e    == IF free THEN dst ELSE WrittenIn(src, dst, unit, copied, HeardIn(src, "bytes", unit))
           c2   == IF unit # Len(src.bounds) THEN "bytes" ELSE IF eof THEN "eof" ELSE "done"
           u2   == IF unit = Len(src.bounds) THEN unit ELSE unit + 1
           d2   == IF unit = Len(src.bounds) /\ ~eof THEN Answer(e, ~free) ELSE next_unit(e)
           x    == rest(dst) \o KeptIn(dst, Heard)
<1>1. /\ call = "bytes" /\ Framed(src) /\ Calling
      /\ stage' = stage /\ eof' = eof /\ live' = live /\ input' = input
      /\ emitted' = emitted /\ failed' = failed /\ words' = words
      /\ verbatim' = w /\ copied' = cp2 /\ unit' = u2
  BY DEF ReturnsUnit, driving, Calling
<1>2. /\ Fit(src) /\ Fit(dst) /\ Run(src, dst, "bytes", unit, copied, verbatim)
      /\ "bytes" \in Calls /\ unit \in Nat \ {0}
      /\ Heard = HeardIn(src, "bytes", unit)
      /\ InUnits!Kept = KeptIn(dst, Heard) /\ InUnits!Calling
      /\ ToHear = TodoIn(src, "bytes", unit)
      /\ Out = OutIn(src, dst, "bytes", unit, copied)
      /\ Open = rest(dst) /\ Said = dst.emit
  BY <1>1, InCall, Zenon
<1>3. w \in BOOLEAN /\ cp2 \in BOOLEAN /\ (w => verbatim /\ dst.emit = "passthrough")
  BY DEF PipeIInv, PipeTyped
<1>4. call' = c2
  BY DEF ReturnsUnit
<1>5. Writes(d2)
  <2>1. UnitWritten = WrittenIn(src, dst, unit, copied, HeardIn(src, "bytes", unit))
    BY <1>2 DEF UnitWritten, UnitClosed, WrittenIn, CopiedInto
  <2> QED
    BY <2>1 DEF ReturnsUnit
<1>6. EndsUnit(src, dst, unit, copied, eof, free, e, c2, u2, d2)
  BY DEF EndsUnit
<1> HIDE DEF free, cp2, w, e, c2, u2, d2
<1>7. /\ Fit(d2) /\ u2 \in Nat \ {0} /\ Run(src, d2, c2, u2, cp2, w)
      /\ OutIn(src, d2, c2, u2, cp2)
           = ClosedOn(OutIn(src, dst, "bytes", unit, copied),
                      rest(dst) \o KeptIn(dst, HeardIn(src, "bytes", unit)))
      /\ c2 \in Calls => rest(d2) = <<>> /\ d2.emit = "pending"
      /\ TodoIn(src, c2, u2) = Tail(TodoIn(src, "bytes", unit))
      /\ TodoIn(src, "bytes", unit) # <<>>
      /\ c2 = IF Tail(TodoIn(src, "bytes", unit)) # <<>> THEN "bytes"
              ELSE IF eof THEN "eof" ELSE "done"
  <2>1. EndedUnit(src, dst, unit, copied, eof, free, w, c2, u2, d2)
    BY <1>1, <1>2, <1>3, <1>6, UnitEnds, Zenon
  <2> QED
    BY <2>1, Zenon DEF EndedUnit, cp2
<1>8. c2 \in Calls \cup {"done"}
  BY <1>7 DEF Calls
<1>9. /\ PipeIInv'
      /\ ToHear' = TodoIn(src, c2, u2) /\ Out' = OutIn(src, d2, c2, u2, cp2)
      /\ Open' = OpenIn(d2, c2) /\ Said' = SaidIn(d2, c2)
      /\ EmittedUnits(emitted)' = EmittedUnits(emitted)
  <2>1. Fit(d2) /\ u2 \in Nat \ {0} /\ Run(src, d2, c2, u2, cp2, w) /\ cp2 \in BOOLEAN
        /\ w \in BOOLEAN
    BY <1>3, <1>7, Zenon
  <2>2. /\ Calling
        /\ stage' = stage /\ eof' = eof /\ live' = live /\ input' = input
        /\ emitted' = emitted /\ failed' = failed /\ words' = words
        /\ verbatim' = w /\ copied' = cp2 /\ unit' = u2
    BY <1>1, Zenon
  <2> QED
    BY <1>4, <1>5, <1>8, <2>1, <2>2, EndsKeep, Zenon
<1>10. Open' = <<>> /\ Said' = "pending"
  BY <1>7, <1>9, Zenon DEF OpenIn, SaidIn
<1>11. Out' = InUnits!Closed(Open \o InUnits!Kept)
  BY <1>2, <1>7, <1>9, Zenon DEF InUnits!Closed, ClosedOn
<1>12. ToHear # <<>> /\ ToHear' = Tail(ToHear)
  BY <1>2, <1>7, <1>9, Zenon
<1>13. ToHear' = IF ToHear = <<>> THEN <<>> ELSE Tail(ToHear)
  BY <1>12, Zenon
<1>14. call' = IF call = "bytes" /\ ToHear' # <<>> THEN "bytes"
               ELSE IF call = "bytes" /\ eof THEN "eof" ELSE "done"
  BY <1>1, <1>2, <1>4, <1>7, <1>12, Zenon
<1>15. InUnits!Returns
  BY <1>1, <1>2, <1>9, <1>10, <1>11, <1>13, <1>14 DEF InUnits!Returns
<1> QED
  BY <1>9, <1>15

(* The call behind the units that returns is one that returns on units.    *)
LEMMA EpilogueKeeps ==
  ASSUME PipeIInv, ReturnsEpilogue
  PROVE  PipeIInv' /\ InUnits!Returns
<1> DEFINE re == copied \/ dst.out # <<>>
           e  == IF copied \/ ~re THEN dst ELSE materialise(src, Len(src.bounds), dst)
           d2 == Answer(IF re THEN close(e) ELSE e, re)
<1>1. /\ call = "eof" /\ Framed(src) /\ Calling
      /\ stage' = stage /\ eof' = eof /\ live' = live /\ input' = input /\ unit' = unit
      /\ emitted' = emitted /\ failed' = failed /\ words' = words
      /\ verbatim' = verbatim /\ copied' = re /\ call' = "done" /\ Writes(d2)
  BY DEF ReturnsEpilogue, driving, Calling, history
<1>2. /\ Fit(src) /\ Fit(dst) /\ Run(src, dst, "eof", unit, copied, verbatim)
      /\ "eof" \in Calls /\ unit \in Nat \ {0}
      /\ Heard = HeardIn(src, "eof", unit)
      /\ InUnits!Kept = KeptIn(dst, Heard) /\ InUnits!Calling
      /\ ToHear = TodoIn(src, "eof", unit)
      /\ Out = OutIn(src, dst, "eof", unit, copied)
      /\ Open = rest(dst) /\ Said = dst.emit
  BY <1>1, InCall, Zenon
<1>3. re \in BOOLEAN /\ verbatim \in BOOLEAN
  BY DEF PipeIInv, PipeTyped
<1>4. EndsEpilogue(src, dst, copied, re, e, d2)
  BY DEF EndsEpilogue
<1> HIDE DEF re, e, d2
<1>5. /\ Fit(d2) /\ Run(src, d2, "done", unit, re, verbatim)
      /\ OutIn(src, d2, "done", unit, re)
           = ClosedOn(OutIn(src, dst, "eof", unit, copied),
                      rest(dst) \o KeptIn(dst, HeardIn(src, "eof", unit)))
      /\ TodoIn(src, "eof", unit) = <<>>
  BY <1>1, <1>2, <1>4, EpilogueEnds, Zenon
<1>6. "done" \in Calls \cup {"done"} /\ "done" \notin Calls
  BY DEF Calls
<1>7. /\ PipeIInv'
      /\ ToHear' = TodoIn(src, "done", unit) /\ Out' = OutIn(src, d2, "done", unit, re)
      /\ Open' = OpenIn(d2, "done") /\ Said' = SaidIn(d2, "done")
      /\ EmittedUnits(emitted)' = EmittedUnits(emitted)
  BY <1>1, <1>2, <1>3, <1>5, <1>6, EndsKeep, ZenonT(40)
<1>8. Open' = <<>> /\ Said' = "pending" /\ ToHear' = <<>>
  BY <1>6, <1>7 DEF OpenIn, SaidIn, TodoIn
<1>9. Out' = InUnits!Closed(Open \o InUnits!Kept)
  BY <1>2, <1>5, <1>7, Zenon DEF InUnits!Closed, ClosedOn
<1>10. ToHear' = IF ToHear = <<>> THEN <<>> ELSE Tail(ToHear)
  BY <1>2, <1>5, <1>8, Zenon
<1>11. call' = IF call = "bytes" /\ ToHear' # <<>> THEN "bytes"
               ELSE IF call = "bytes" /\ eof THEN "eof" ELSE "done"
  BY <1>1
<1>12. InUnits!Returns
  BY <1>1, <1>2, <1>7, <1>8, <1>9, <1>10, <1>11 DEF InUnits!Returns
<1> QED
  BY <1>7, <1>12

(* A plugin's error takes the path with it.                                *)
LEMMA FailsKeeps ==
  ASSUME PipeIInv, Fails
  PROVE  PipeIInv' /\ InUnits!Fails
<1>1. /\ Calling /\ failed' = TRUE /\ stage' = 0 /\ call' = "none"
      /\ eof' = eof /\ input' = input /\ live' = live /\ bufs' = bufs /\ unit' = unit
      /\ copied' = copied /\ emitted' = emitted /\ words' = words /\ verbatim' = verbatim
  BY DEF Fails, history
<1>2. src' = src
  BY <1>1 DEF src, LiveIn, Whole
<1>3. PipeTyped'
  <2>1. 0 \in 0..N /\ TRUE \in BOOLEAN
    BY PipelineAssumption
  <2>2. "none" \in Calls \cup {"none", "done"}
    OBVIOUS
  <2> QED
    BY <1>1, <2>1, <2>2, Zenon DEF PipeIInv, PipeTyped
<1>4. "none" \notin Calls
  BY DEF Calls
<1>5. Run(src', dst', call', unit', copied', verbatim')
  <2>1. Handed(src)
    BY Zenon DEF PipeIInv, Run
  <2>2. call' # "bytes" /\ call' # "tick" /\ call' # "done" /\ call' \notin Calls
    BY <1>1, <1>4
  <2> QED
    BY <1>2, <2>1, <2>2, Zenon DEF Run
<1>6. PipeIInv'
  BY <1>1, <1>3, <1>5, Zenon DEF PipeIInv
<1>7. ToHear' = <<>> /\ Out' = <<>> /\ Open' = <<>> /\ Said' = "pending"
  BY <1>1, <1>4, ViewsNext DEF TodoAt, OutIn, OpenIn, SaidIn
<1>8. EmittedUnits(emitted)' = EmittedUnits(emitted)
  BY <1>1, Zenon
<1>9. InUnits!Calling
  BY <1>1 DEF Calling, InUnits!Calling
<1> QED
  BY <1>1, <1>6, <1>7, <1>8, <1>9, Zenon DEF InUnits!Fails

(* A stage's units move on, or out.                                        *)
LEMMA MovesOnKeeps ==
  ASSUME PipeIInv, MovesOn
  PROVE  PipeIInv' /\ InUnits!MovesOn
<1> DEFINE to   == IF dst.emit = "passthrough" THEN live ELSE Far
           rests == IF to = Far THEN dst ELSE src
           on   == stage < N /\ (eof \/ rests.out # <<>>)
<1>1. /\ call = "done" /\ call' = "none"
      /\ eof' = eof /\ bufs' = bufs /\ unit' = unit /\ copied' = copied /\ failed' = failed
      /\ words' = words /\ verbatim' = verbatim
  BY DEF MovesOn, history
<1>2. IF on THEN stage' = stage + 1 /\ live' = to /\ input' = input /\ emitted' = emitted
      ELSE stage' = 0 /\ live' = "input" /\ input' = <<>> /\ emitted' = rests
  BY DEF MovesOn
<1>3. /\ PipeTyped /\ Run(src, dst, "done", unit, copied, verbatim) /\ stage # 0
      /\ Fit(emitted) /\ Handed(emitted)
  <2>1. "done" # "none"
    OBVIOUS
  <2> QED
    BY <1>1, <2>1, Zenon DEF PipeIInv
<1>4. /\ Fit(src) /\ Fit(dst) /\ Far \in Halves /\ Far # live
      /\ live \in Halves => src = bufs[live]
      /\ live = "input" => src = Whole(input)
  BY <1>3, Ends2, Zenon
<1>5. rests = IF dst.emit = "passthrough" THEN src ELSE dst
  BY <1>4
<1>6. Fit(rests) /\ Handed(rests)
  <2>1. Handed(src) /\ (dst.emit # "passthrough" => Handed(dst))
    BY <1>3 DEF Run
  <2> HIDE DEF rests
  <2> QED
    BY <1>4, <1>5, <2>1, Zenon
<1>7. to \in Halves \cup {"input"} /\ (on => src' = rests)
  <2>1. CASE dst.emit = "passthrough"
    <3>1. to = live /\ rests = src
      BY <1>5, <2>1
    <3>2. on => src' = src
      BY <1>1, <1>2, <3>1 DEF src, LiveIn, Whole
    <3>3. live \in Halves \cup {"input"}
      BY <1>3 DEF PipeTyped
    <3> HIDE DEF to, rests, on
    <3> QED
      BY <3>1, <3>2, <3>3, Zenon
  <2>2. CASE dst.emit # "passthrough"
    <3>1. to = Far /\ rests = dst
      BY <2>2
    <3>2. Far # "input"
      BY <1>4 DEF Halves
    <3>3. on => src' = bufs[Far]
      <4>1. SUFFICES ASSUME on PROVE src' = bufs[Far]
        OBVIOUS
      <4>2. live' = Far
        BY <1>2, <3>1, <4>1
      <4>3. live' # "input"
        BY <3>2, <4>2
      <4>4. src' = bufs'[live']
        BY <4>3 DEF src, LiveIn
      <4> QED
        BY <1>1, <4>2, <4>4, Zenon
    <3> HIDE DEF to, rests, on
    <3> QED
      BY <1>4, <3>1, <3>3, Zenon DEF dst
  <2> QED
    BY <2>1, <2>2
<1> DEFINE h == EmittedUnits(rests)
<1>8. h \in Seq(Pages) /\ (h = <<>> <=> rests.out = <<>>)
  <2> HIDE DEF rests
  <2> QED
    BY <1>6, EmittedIs, Zenon
<1>9. /\ ToHear = <<>> /\ Out = h /\ Open = <<>> /\ Said = "pending"
  <2>1. call \notin Calls
    BY <1>1 DEF Calls
  <2>2. ToHear = <<>> /\ Open = <<>> /\ Said = "pending"
    BY <1>1, <2>1, Views DEF TodoAt, TodoIn, OpenIn, SaidIn
  <2>3. Out = EmittedUnits(IF dst.emit = "passthrough" THEN src ELSE dst)
    BY <1>1, <2>1, Views DEF OutIn
  <2> HIDE DEF rests
  <2> QED
    BY <1>5, <2>2, <2>3, Zenon
<1>10. Out' = <<>> /\ Open' = <<>> /\ Said' = "pending"
  <2>1. call' \notin Calls /\ call' # "done"
    BY <1>1 DEF Calls
  <2> QED
    BY <2>1, ViewsNext DEF OutIn, OpenIn, SaidIn
<1>11. stage \in 1..N /\ N \in Nat
  <2>1. stage \in 0..N /\ stage # 0
    BY <1>3 DEF PipeTyped
  <2> QED
    BY <2>1, PipelineAssumption
<1>12. call' # "bytes" /\ call' # "tick" /\ call' # "done" /\ call' \notin Calls
       /\ call' \in Calls \cup {"none", "done"}
  BY <1>1 DEF Calls
<1>13. on <=> stage < N /\ (eof \/ Out # <<>>)
  <2> HIDE DEF rests
  <2> QED
    BY <1>8, <1>9, Zenon
<1> HIDE DEF rests, to, on
<1>14. CASE on
  <2>1. /\ stage' = stage + 1 /\ live' = to /\ input' = input /\ emitted' = emitted
        /\ src' = rests
    BY <1>2, <1>7, <1>14
  <2>2. stage' \in 0..N /\ stage' # 0
    BY <1>11, <1>13, <1>14, <2>1
  <2>3. PipeTyped'
    BY <1>1, <1>3, <1>7, <1>12, <2>1, <2>2, Zenon DEF PipeTyped
  <2>4. Run(src', dst', call', unit', copied', verbatim')
    BY <1>6, <1>12, <2>1, Zenon DEF Run
  <2>5. PipeIInv'
    BY <1>1, <1>3, <2>1, <2>2, <2>3, <2>4, Zenon DEF PipeIInv
  <2>6. ToHear' = h
    <3>1. ToHear' = TodoIn(rests, "none", unit')
      BY <1>1, <2>1, <2>2, ViewsNext, Zenon DEF TodoAt
    <3> QED
      BY <3>1 DEF TodoIn
  <2>7. EmittedUnits(emitted)' = EmittedUnits(emitted)
    BY <2>1, Zenon
  <2>8. InUnits!MovesOn
    BY <1>1, <1>9, <1>10, <1>13, <1>14, <2>1, <2>6, <2>7, Zenon DEF InUnits!MovesOn
  <2> QED
    BY <2>5, <2>8
<1>15. CASE ~on
  <2>1. stage' = 0 /\ live' = "input" /\ input' = <<>> /\ emitted' = rests
    BY <1>2, <1>15
  <2>2. <<>> \in Seq(Item) /\ 0 \in 0..N
    BY <1>11
  <2>3. src' = Whole(<<>>)
    BY <2>1 DEF src, LiveIn, Whole
  <2>4. PipeTyped'
    <3>1. "input" \in Halves \cup {"input"}
      OBVIOUS
    <3> QED
      BY <1>1, <1>3, <1>12, <2>1, <2>2, <3>1, Zenon DEF PipeTyped
  <2>5. Run(src', dst', call', unit', copied', verbatim')
    <3>1. Handed(Whole(<<>>))
      BY <2>2, WholeIs, Zenon
    <3> QED
      BY <1>12, <2>3, <3>1, Zenon DEF Run
  <2>6. PipeIInv'
    BY <1>1, <1>6, <2>1, <2>4, <2>5, Zenon DEF PipeIInv
  <2>7. ToHear' = <<>>
    BY <1>1, <2>1, ViewsNext, Zenon DEF TodoAt
  <2>8. EmittedUnits(emitted)' = h
    BY <2>1, Zenon
  <2>9. InUnits!MovesOn
    BY <1>1, <1>9, <1>10, <1>13, <1>15, <2>1, <2>7, <2>8, Zenon DEF InUnits!MovesOn
  <2> QED
    BY <2>6, <2>9
<1> QED
  BY <1>14, <1>15

-----------------------------------------------------------------------------
(* Before any call the two tellings agree.                                 *)
LEMMA PipeInit ==
  ASSUME Init
  PROVE  PipeIInv /\ InUnits!Init
<1>1. /\ stage = 0 /\ call = "none" /\ eof = FALSE /\ input = <<>> /\ live = "input"
      /\ bufs = [h \in Halves |-> Fresh] /\ unit = 1 /\ copied = FALSE /\ emitted = Fresh
      /\ failed = FALSE /\ words = 0 /\ verbatim = TRUE
  BY DEF Init, Halves
<1>2. FitBufs(bufs)
  <2> DEFINE e == Fresh
  <2>1. Fit(e) /\ e \in Results /\ bufs = [h \in Halves |-> e]
    BY <1>1, FreshIs, Zenon DEF Fit
  <2> HIDE DEF e
  <2>2. bufs \in [Halves -> Results] /\ \A h \in Halves : bufs[h] = e
    BY <2>1
  <2> QED
    BY <2>1, <2>2, Zenon DEF FitBufs
<1>3. PipeTyped
  <2>1. 0 \in 0..N /\ 0 \in 0..Words /\ 1 \in Nat \ {0} /\ <<>> \in Seq(Item)
        /\ TRUE \in BOOLEAN /\ FALSE \in BOOLEAN
    BY PipelineAssumption
  <2>2. "none" \in Calls \cup {"none", "done"} /\ "input" \in Halves \cup {"input"}
    OBVIOUS
  <2> QED
    BY <1>1, <1>2, <2>1, <2>2, Zenon DEF PipeTyped
<1>4. call \notin Calls /\ call # "bytes" /\ call # "tick" /\ call # "done"
  BY <1>1 DEF Calls
<1>5. Run(src, dst, call, unit, copied, verbatim)
  <2>1. src = Whole(<<>>)
    BY <1>1 DEF src, LiveIn, Whole
  <2>2. <<>> \in Seq(Item)
    OBVIOUS
  <2>3. Handed(src)
    BY <2>1, <2>2, WholeIs, Zenon
  <2> QED
    BY <1>4, <2>3, Zenon DEF Run
<1>6. PipeIInv
  BY <1>1, <1>3, <1>5, FreshIs, Zenon DEF PipeIInv
<1>7. ToHear = <<>> /\ Out = <<>> /\ Open = <<>> /\ Said = "pending"
  BY <1>1, <1>4, Views DEF TodoAt, OutIn, OpenIn, SaidIn
<1>8. EmittedUnits(emitted) = <<>>
  BY <1>1, FreshIs, Zenon
<1> QED
  BY <1>1, <1>6, <1>7, <1>8, Zenon DEF InUnits!Init

(* Every step of the segment is one in units.                              *)
LEMMA PipeStep ==
  ASSUME PipeIInv, Next
  PROVE  PipeIInv' /\ InUnits!Next
<1>1. CASE Process \/ Finish \/ Tick
  BY <1>1, HostKeeps, Zenon DEF InUnits!Next
<1>2. CASE PassesThrough
  BY <1>2, PassesThroughKeeps, Zenon DEF InUnits!Next
<1>3. CASE Forwards
  BY <1>3, ForwardsKeeps, Zenon DEF InUnits!Next
<1>4. CASE DropsChunk
  BY <1>4, DropsChunkKeeps, Zenon DEF InUnits!Next
<1>5. CASE Cuts
  BY <1>5, CutsKeeps, Zenon DEF InUnits!Next
<1>6. CASE Begins
  BY <1>6, BeginsKeeps, Zenon DEF InUnits!Next
<1>7. CASE ReturnsUnframed
  BY <1>7, UnframedKeeps, Zenon DEF InUnits!Next
<1>8. CASE ReturnsUnit
  BY <1>8, UnitKeeps, Zenon DEF InUnits!Next
<1>9. CASE ReturnsEpilogue
  BY <1>9, EpilogueKeeps, Zenon DEF InUnits!Next
<1>10. CASE Fails
  BY <1>10, FailsKeeps, Zenon DEF InUnits!Next
<1>11. CASE MovesOn
  BY <1>11, MovesOnKeeps, Zenon DEF InUnits!Next
<1> QED
  BY <1>1, <1>2, <1>3, <1>4, <1>5, <1>6, <1>7, <1>8, <1>9, <1>10, <1>11, Zenon DEF Next

(* What is unchanged is unchanged in units.                                *)
LEMMA PipeStutters ==
  ASSUME PipeIInv, UNCHANGED vars
  PROVE  PipeIInv' /\ UNCHANGED InUnits!vars
<1>1. /\ stage' = stage /\ eof' = eof /\ input' = input /\ live' = live /\ call' = call
      /\ bufs' = bufs /\ unit' = unit /\ copied' = copied /\ emitted' = emitted
      /\ failed' = failed /\ words' = words /\ verbatim' = verbatim
  BY DEF vars, driving, history
<1>2. src' = src /\ dst' = dst
  BY <1>1 DEF src, dst, LiveIn, Far, Whole
<1>3. PipeIInv'
  BY <1>1, <1>2, Zenon DEF PipeIInv, PipeTyped
<1>4. ToHear' = ToHear /\ Out' = Out /\ Open' = Open /\ Said' = Said
  BY <1>1, <1>2, Views, ViewsNext, Zenon
<1>5. EmittedUnits(emitted)' = EmittedUnits(emitted)
  BY <1>1, Zenon
<1> QED
  BY <1>1, <1>3, <1>4, <1>5 DEF InUnits!vars

(* Every step of the segment is one on units, or changes none.             *)
LEMMA AssemblyStep ==
  ASSUME PipeIInv, [AssemblyNext]_<<assembling, vars, chainVars>>
  PROVE  PipeIInv' /\ [InUnits!Next]_InUnits!vars
<1>1. CASE Next
  BY <1>1, PipeStep, Zenon
<1>2. CASE UNCHANGED vars
  BY <1>2, PipeStutters, Zenon
<1>3. Next \/ UNCHANGED vars
  BY DEF AssemblyNext
<1> QED
  BY <1>1, <1>2, <1>3

(* Offsets and copies keep PipeIInv along every behaviour.                 *)
LEMMA PipeHolds == AssemblySpec => []PipeIInv
<1>1. AssemblyInit => PipeIInv
  BY PipeInit DEF AssemblyInit
<1>2. PipeIInv /\ [AssemblyNext]_<<assembling, vars, chainVars>> => PipeIInv'
  BY AssemblyStep
<1> QED
  BY <1>1, <1>2, PTL DEF AssemblySpec

(* Emission::close, materialise and run (pipeline.rs): whatever plugins    *)
(* say, what is handed on is framed whole, and what a stage handed back    *)
(* untouched was never copied.                                             *)
THEOREM UnitsAreWhole == AssemblySpec => []UnitsArePassedOn
<1>1. PipeIInv => UnitsArePassedOn
  <2> SUFFICES ASSUME PipeIInv PROVE UnitsArePassedOn
    OBVIOUS
  <2>1. /\ PipeTyped /\ Fit(src) /\ Fit(dst) /\ Fit(emitted) /\ Handed(emitted)
        /\ Run(src, dst, call, unit, copied, verbatim)
    BY Ends2, Zenon DEF PipeIInv
  <2>2. ASSUME NEW e, Fit(e)
        PROVE  /\ e.emit \in {"pending", "passthrough", "buffered"} /\ Ascending(e)
               /\ \A i \in DOMAIN e.out : e.out[i] \in 1..Words
    <3>1. e.emit \in Emits /\ e.out \in Seq(Item) /\ Ascending(e)
      BY <2>2, Fits, Zenon DEF Fit
    <3> DEFINE o == e.out
    <3>2. o \in Seq(Item)
      BY <3>1
    <3> HIDE DEF o
    <3>3. \A i \in DOMAIN o : o[i] \in 1..Words
      <4>1. DOMAIN o = 1..Len(o) /\ \A i \in 1..Len(o) : o[i] \in Item
        BY <3>2
      <4> QED
        BY <4>1, Zenon DEF Item
    <3> QED
      BY <3>1, <3>3 DEF o, Emits
  <2>3. TypeOK
    <3>1. call \in {"none", "bytes", "eof", "tick", "done"} /\ live \in {"input", "a", "b"}
      BY <2>1 DEF PipeTyped, Calls, Halves
    <3>2. {eof, copied, failed, verbatim} \subseteq BOOLEAN
      BY <2>1 DEF PipeTyped
    <3> QED
      BY <2>1, <2>2, <3>1, <3>2, Zenon DEF TypeOK, PipeTyped, Emissions
  <2>4. WellFramed
    BY <2>1, Zenon DEF WellFramed, Handed, Run
  <2>5. ObserversAreFree
    BY <2>1, Zenon DEF ObserversAreFree, Run
  <2> QED
    BY <2>3, <2>4, <2>5 DEF UnitsArePassedOn, WellFormed
<1> QED
  BY <1>1, PipeHolds, PTL

(* drive, run and materialise (pipeline.rs) keep the promise of Units:     *)
(* every stage hears the units of the one above it, once and in order, and *)
(* what it says is cut where it asked.                                     *)
THEOREM BuffersImplementUnits == AssemblySpec => Implements
<1>1. AssemblyInit => InUnits!Init
  BY PipeInit DEF AssemblyInit
<1>2. PipeIInv /\ [AssemblyNext]_<<assembling, vars, chainVars>> => [InUnits!Next]_InUnits!vars
  BY AssemblyStep
<1> QED
  BY <1>1, <1>2, PipeHolds, PTL DEF AssemblySpec, Implements, InUnits!Spec


-----------------------------------------------------------------------------
(* Induction over the numbers, as a statement about a set of them.         *)

(* A set of numbers has a least one.                                       *)
LEMMA Least ==
  ASSUME NEW T, T \subseteq Nat, T # {}
  PROVE  \E x \in T : \A y \in T : x <= y
<1> DEFINE R == OpToRel(<, Nat)
<1>1. IsWellFoundedOn(R, Nat)
  BY NatLessThanWellFounded
<1>2. \A x, y \in Nat : x < y => <<x, y>> \in R
  <2> TAKE x \in Nat, y \in Nat
  <2> HAVE x < y
  <2>1. <<x, y>> \in Nat \X Nat /\ <<x, y>>[1] < <<x, y>>[2]
    OBVIOUS
  <2> QED
    BY <2>1 DEF OpToRel
<1> HIDE DEF R
<1>3. \E x \in T : \A y \in T : ~(<<y, x>> \in R)
  BY <1>1, WFMin
<1>4. PICK x \in T : \A y \in T : ~(<<y, x>> \in R)
  BY <1>3
<1>5. ASSUME NEW y \in T PROVE x <= y
  <2>1. ~(<<y, x>> \in R) /\ x \in Nat /\ y \in Nat
    BY <1>4
  <2>2. ~(y < x)
    BY <1>2, <2>1
  <2> QED
    BY <2>1, <2>2
<1> QED
  BY <1>4, <1>5

(* What holds of 0 and goes from a number to the next holds of them all.   *)
LEMMA Induct ==
  ASSUME NEW S, 0 \in S, \A n \in Nat : n \in S => n + 1 \in S
  PROVE  \A n \in Nat : n \in S
<1> DEFINE T == Nat \ S
<1>1. SUFFICES ASSUME T # {} PROVE FALSE
  OBVIOUS
<1>2. T \subseteq Nat
  OBVIOUS
<1> HIDE DEF T
<1>3. \E x \in T : \A y \in T : x <= y
  BY <1>1, <1>2, Least
<1>4. PICK x \in T : \A y \in T : x <= y
  BY <1>3
<1>5. x \in Nat /\ x \notin S
  BY <1>4 DEF T
<1>6. x # 0
  BY <1>5
<1>7. x - 1 \in Nat /\ x - 1 + 1 = x /\ ~(x <= x - 1)
  BY <1>5, <1>6
<1>8. x - 1 \in S
  BY <1>4, <1>7 DEF T
<1> QED
  BY <1>5, <1>7, <1>8

(***************************************************************************)
(* The chain of a direction.                                               *)
(***************************************************************************)
Ways    == {"source-to-sink", "sink-to-source"}
Segment == [kind : {"inline", "process"}, stages : Seq(Nat)]

(* The variables' types.                                                   *)
ChainTyped ==
  /\ specs \in Seq(Chained!PluginSpec)
  /\ building \in Ways \cup {"none"} /\ verdict \in {"none", "refused", "unmet", "ok"}
  /\ left \in Seq(Nat) /\ draft \in Seq(Nat) /\ chains \in [Ways -> Seq(Segment)]
  /\ datagram \in [{"source", "sink"} -> BOOLEAN]
  /\ needs \subseteq (DOMAIN specs) \X Chained!Sides
  /\ building = "none" => left = <<>> /\ draft = <<>>

(* One sequence behind another.                                           *)
Joined(a, b) == a \o b

(* What a chain holds, what is drafted and what is left of it are together *)
(* the stages that were selected, in their order.                          *)
InOrder ==
  /\ building = "source-to-sink" => chains["sink-to-source"] = <<>>
  /\ \A path \in Ways :
       Chained!Selected(specs, path) =
         IF building = path THEN Joined(Chained!Stages(chains[path]), Joined(draft, left))
         ELSE IF building = "source-to-sink" THEN Chained!Selected(specs, path)
         ELSE Chained!Stages(chains[path])

(* The subprocesses, and what is detached.                                 *)
Foreign == {i \in Nat : specs[i].makes = "external"}
Alone   == {i \in Nat : Chained!Detached(i)}

(* Segments are tasks as declared: those of a chain ...                    *)
Tasks(segments, foreign, alone) ==
  \A k \in DOMAIN segments :
    IF segments[k].kind = "process" THEN segments[k].stages[1] \in foreign
    ELSE /\ segments[k].stages # <<>>
         /\ \A j \in DOMAIN segments[k].stages :
              /\ segments[k].stages[j] \notin foreign
              /\ j > 1 => segments[k].stages[j] \notin alone
         /\ k > 1 /\ segments[k - 1].kind = "inline" => segments[k].stages[1] \in alone

(* ... and the one that is drafted behind them.                            *)
Drafted(segments, d, foreign, alone) ==
  /\ \A j \in DOMAIN d : d[j] \notin foreign /\ (j > 1 => d[j] \notin alone)
  /\ segments # <<>> /\ segments[Len(segments)].kind = "inline" => d # <<>> /\ d[1] \in alone

AsAsked ==
  /\ \A path \in Ways : Tasks(chains[path], Foreign, Alone)
  /\ building # "none" => Drafted(chains[building], draft, Foreign, Alone)

(* What was found to be met is.                                            *)
Judged ==
  verdict = "ok" =>
    building = "none" /\ \A path \in Ways : ~Chained!Unmet(path, datagram, needs)

ChainIInv == ChainTyped /\ InOrder /\ AsAsked /\ Judged

(* The numbers s go up, to n at most, and are those of the declarations d  *)
(* that apply to a path.                                                   *)
Chosen(s, n, d, path) ==
  /\ s \in Seq(Nat)
  /\ \A i \in 1..Len(s) : s[i] \in 1..n /\ Chained!contains(d[s[i]].direction, path)
  /\ \A x \in 1..n : Chained!contains(d[x].direction, path) => \E i \in 1..Len(s) : s[i] = x
  /\ \A i, j \in 1..Len(s) : i < j => s[i] < s[j]

(* One declaration more is chosen last, or not at all.                     *)
LEMMA ChosenMore ==
  ASSUME NEW n \in Nat, NEW s, NEW d, NEW path, Chosen(s, n, d, path)
  PROVE  Chosen(IF Chained!contains(d[n + 1].direction, path) THEN Append(s, n + 1) ELSE s,
                n + 1, d, path)
<1> DEFINE on(x) == Chained!contains(d[x].direction, path)
           m == Len(s)
           t == Append(s, n + 1)
<1>1. s \in Seq(Nat) /\ m \in Nat
  BY LenProperties DEF Chosen
<1>2. /\ \A i \in 1..m : s[i] \in 1..n /\ on(s[i])
      /\ \A x \in 1..n : on(x) => \E i \in 1..m : s[i] = x
      /\ \A i, j \in 1..m : i < j => s[i] < s[j]
  BY DEF Chosen
<1>3. n + 1 \in Nat
  OBVIOUS
<1>4. t \in Seq(Nat) /\ Len(t) = m + 1 /\ t[m + 1] = n + 1 /\ \A i \in 1..m : t[i] = s[i]
  BY <1>1, <1>3, AppendProperties
<1>5. \A x \in 1..(n + 1) : x \in 1..n \/ x = n + 1
  OBVIOUS
<1>6. \A x \in 1..n : x \in 1..(n + 1)
  OBVIOUS
<1>7. \A i \in 1..(m + 1) : i \in 1..m \/ i = m + 1
  BY <1>1
<1>8. \A i \in 1..m : i \in 1..(m + 1)
  BY <1>1
<1> HIDE DEF on, m, t
<1>9. CASE ~on(n + 1)
  <2>1. \A i \in 1..m : s[i] \in 1..(n + 1) /\ on(s[i])
    BY <1>2, <1>6
  <2>2. \A x \in 1..(n + 1) : on(x) => \E i \in 1..m : s[i] = x
    BY <1>2, <1>5, <1>9, Zenon
  <2> QED
    BY <1>1, <1>2, <1>9, <2>1, <2>2 DEF Chosen, on, m
<1>10. CASE on(n + 1)
  <2>1. \A i \in 1..(m + 1) : t[i] \in 1..(n + 1) /\ on(t[i])
    <3> TAKE i \in 1..(m + 1)
    <3>1. CASE i \in 1..m
      BY <1>2, <1>4, <1>6, <3>1, Zenon
    <3>2. CASE i = m + 1
      <4>1. n + 1 \in 1..(n + 1)
        OBVIOUS
      <4> QED
        BY <1>4, <1>10, <3>2, <4>1, Zenon
    <3> QED
      BY <1>7, <3>1, <3>2
  <2>2. \A x \in 1..(n + 1) : on(x) => \E i \in 1..(m + 1) : t[i] = x
    <3> TAKE x \in 1..(n + 1)
    <3> HAVE on(x)
    <3>1. CASE x \in 1..n
      BY <1>2, <1>4, <1>8, <3>1, Zenon
    <3>2. CASE x = n + 1
      <4>1. m + 1 \in 1..(m + 1)
        BY <1>1
      <4> QED
        BY <1>4, <3>2, <4>1, Zenon
    <3> QED
      BY <1>5, <3>1, <3>2
  <2>3. \A i, j \in 1..(m + 1) : i < j => t[i] < t[j]
    <3> TAKE i, j \in 1..(m + 1)
    <3> HAVE i < j
    <3>1. i \in 1..m
      BY <1>1
    <3>2. CASE j \in 1..m
      BY <1>2, <1>4, <3>1, <3>2, Zenon
    <3>3. CASE j = m + 1
      <4>1. s[i] \in 1..n
        BY <1>2, <3>1
      <4>2. s[i] < n + 1
        BY <4>1
      <4> QED
        BY <1>4, <3>1, <3>3, <4>2, Zenon
    <3> QED
      BY <1>7, <3>2, <3>3
  <2>4. Chosen(t, n + 1, d, path)
    BY <1>4, <2>1, <2>2, <2>3, Zenon DEF Chosen, on
  <2> QED
    BY <1>10, <2>4 DEF on, t
<1> QED
  BY <1>9, <1>10

(* f[n] is the stages that apply of the first n declared.                  *)
Applies(f, m, d, path) ==
  f = [n \in 0..m |-> IF n = 0 THEN <<>>
                      ELSE IF Chained!contains(d[n].direction, path) THEN Append(f[n - 1], n)
                      ELSE f[n - 1]]

(* There is such a function, for any number of them.                       *)
LEMMA AppliesExist ==
  ASSUME NEW d, NEW path
  PROVE  \A m \in Nat : \E f : Applies(f, m, d, path)
<1> DEFINE S == {m \in Nat : \E f : Applies(f, m, d, path)}
           next(i, before) ==
             IF Chained!contains(d[i].direction, path) THEN Append(before, i) ELSE before
<1>1. 0 \in S
  <2> DEFINE f == [i \in 0..0 |-> <<>>]
  <2>1. \A i \in 0..0 : i = 0
    OBVIOUS
  <2>2. Applies(f, 0, d, path)
    BY <2>1 DEF Applies
  <2> QED
    BY <2>2
<1>2. ASSUME NEW m \in Nat, m \in S PROVE m + 1 \in S
  <2>1. PICK f : Applies(f, m, d, path)
    BY <1>2
  <2>2. f = [i \in 0..m |-> IF i = 0 THEN <<>> ELSE next(i, f[i - 1])]
    BY <2>1 DEF Applies
  <2> HIDE DEF next
  <2> DEFINE g == [i \in 0..(m + 1) |-> IF i <= m THEN f[i] ELSE next(m + 1, f[m])]
  <2>3. ASSUME NEW i \in 0..(m + 1)
        PROVE  g[i] = IF i = 0 THEN <<>> ELSE next(i, g[i - 1])
    <3>1. CASE i = 0
      <4>1. f[0] = <<>>
        BY <2>2
      <4> QED
        BY <3>1, <4>1
    <3>2. CASE i \in 1..m
      <4>1. f[i] = next(i, f[i - 1])
        BY <2>2, <3>2
      <4>2. i - 1 \in 0..(m + 1) /\ i - 1 <= m
        BY <3>2
      <4> QED
        BY <3>2, <4>1, <4>2
    <3>3. CASE i = m + 1
      <4>1. i - 1 = m /\ m \in 0..(m + 1) /\ ~(i <= m) /\ i # 0
        BY <3>3
      <4> QED
        BY <3>3, <4>1
    <3>4. i = 0 \/ i \in 1..m \/ i = m + 1
      OBVIOUS
    <3> QED
      BY <3>1, <3>2, <3>3, <3>4
  <2>4. g = [i \in 0..(m + 1) |-> g[i]]
    OBVIOUS
  <2> HIDE DEF g
  <2>5. g = [i \in 0..(m + 1) |-> IF i = 0 THEN <<>> ELSE next(i, g[i - 1])]
    BY <2>3, <2>4
  <2>6. Applies(g, m + 1, d, path)
    BY <2>5 DEF Applies, next
  <2> QED
    BY <2>6
<1> HIDE DEF S
<1>3. \A m \in Nat : m \in S
  BY <1>1, <1>2, Induct
<1> QED
  BY <1>3 DEF S

(* What Applying makes of declarations is chosen from them.                *)
LEMMA ApplyingIs ==
  ASSUME NEW d, NEW path, Len(d) \in Nat
  PROVE  Chosen(Chained!Applying(d, path), Len(d), d, path)
<1> DEFINE m    == Len(d)
           P(f) == f = [n \in 0..m |->
                          IF n = 0 THEN <<>>
                          ELSE IF Chained!contains(d[n].direction, path) THEN Append(f[n - 1], n)
                          ELSE f[n - 1]]
           C    == CHOOSE f : P(f)
<1>1. \A f : P(f) <=> Applies(f, m, d, path)
  BY DEF Applies
<1>2. \E f : P(f)
  BY <1>1, AppliesExist
<1>3. P(C)
  <2> HIDE DEF P
  <2> QED
    BY <1>2
<1>4. Chained!Applying(d, path) = C[m]
  BY DEF Chained!Applying
<1>5. Applies(C, m, d, path)
  BY <1>1, <1>3
<1> HIDE DEF P, C
<1> DEFINE S == {n \in Nat : n <= m => Chosen(C[n], n, d, path)}
<1>6. 0 \in S
  <2>1. C[0] = <<>>
    BY <1>5 DEF Applies
  <2>2. <<>> \in Seq(Nat) /\ \A i \in 1..Len(<<>>) : FALSE
    OBVIOUS
  <2>3. \A x \in 1..0 : FALSE
    OBVIOUS
  <2>4. Chosen(C[0], 0, d, path)
    BY <2>1, <2>2, <2>3, Zenon DEF Chosen
  <2> QED
    BY <2>4
<1>7. ASSUME NEW n \in Nat, n \in S PROVE n + 1 \in S
  <2> SUFFICES ASSUME n + 1 <= m PROVE Chosen(C[n + 1], n + 1, d, path)
    OBVIOUS
  <2>1. Chosen(C[n], n, d, path)
    BY <1>7
  <2> DEFINE k == n + 1
  <2>2. k \in 0..m /\ k # 0 /\ k - 1 = n
    OBVIOUS
  <2> HIDE DEF k
  <2>3. C[k] = IF Chained!contains(d[k].direction, path) THEN Append(C[k - 1], k) ELSE C[k - 1]
    BY <1>5, <2>2 DEF Applies
  <2>4. C[k] = IF Chained!contains(d[k].direction, path) THEN Append(C[n], k) ELSE C[n]
    BY <2>2, <2>3, Zenon
  <2>5. Chosen(IF Chained!contains(d[n + 1].direction, path) THEN Append(C[n], n + 1) ELSE C[n],
               n + 1, d, path)
    BY <2>1, ChosenMore
  <2> QED
    BY <2>4, <2>5, Zenon DEF k
<1> HIDE DEF S
<1>8. \A n \in Nat : n \in S
  BY <1>6, <1>7, Induct
<1>9. m \in S /\ m <= m
  BY <1>8
<1>10. Chosen(C[m], m, d, path)
  BY <1>9 DEF S
<1> QED
  BY <1>4, <1>10

(* The stages of a path are those that apply, in the order of declaration  *)
(* or, on the way back, in the other.                                      *)
LEMMA SelectedIs ==
  ASSUME NEW d, Len(d) \in Nat, NEW path \in Ways
  PROVE  /\ Chained!Selected(d, path) \in Seq(Nat)
         /\ \A i \in 1..Len(Chained!Selected(d, path)) :
              /\ Chained!Selected(d, path)[i] \in 1..Len(d)
              /\ Chained!contains(d[Chained!Selected(d, path)[i]].direction, path)
         /\ \A x \in 1..Len(d) :
              Chained!contains(d[x].direction, path) =>
                \E i \in 1..Len(Chained!Selected(d, path)) : Chained!Selected(d, path)[i] = x
         /\ \A i, j \in 1..Len(Chained!Selected(d, path)) :
              i < j => IF path = "source-to-sink"
                       THEN Chained!Selected(d, path)[i] < Chained!Selected(d, path)[j]
                       ELSE Chained!Selected(d, path)[i] > Chained!Selected(d, path)[j]
<1> DEFINE all == Chained!Applying(d, path)
           sel == Chained!Selected(d, path)
           on(x) == Chained!contains(d[x].direction, path)
           n   == Len(d)
           m   == Len(all)
<1>1. Chosen(all, n, d, path)
  BY ApplyingIs
<1>2. sel = IF path = "sink-to-source" THEN Chained!Reverse(all) ELSE all
  BY DEF Chained!Selected
<1>3. Chained!Reverse(all) = [i \in 1..m |-> all[(m - i) + 1]]
  BY DEF Chained!Reverse
<1> HIDE DEF all, sel
<1>4. all \in Seq(Nat) /\ m \in Nat
  BY <1>1, LenProperties DEF Chosen
<1>5. /\ \A i \in 1..m : all[i] \in 1..n /\ on(all[i])
      /\ \A x \in 1..n : on(x) => \E i \in 1..m : all[i] = x
      /\ \A i, j \in 1..m : i < j => all[i] < all[j]
  BY <1>1, Zenon DEF Chosen
<1> HIDE DEF on, n, m
<1>6. CASE path = "source-to-sink"
  <2>1. sel = all
    BY <1>2, <1>6
  <2> QED
    BY <1>4, <1>5, <1>6, <2>1, Zenon DEF on, n, m, sel
<1>7. CASE path = "sink-to-source"
  <2> DEFINE back == [i \in 1..m |-> all[(m - i) + 1]]
  <2>1. sel = back
    BY <1>2, <1>3, <1>7
  <2>2. \A i \in 1..m : m - i + 1 \in 1..m
    BY <1>4
  <2>3. \A i \in 1..m : back[i] = all[m - i + 1]
    OBVIOUS
  <2>4. \A i \in 1..m : all[m - i + 1] \in Nat
    BY <1>4, <2>2, ElementOfSeq DEF m
  <2>5. back \in Seq(Nat) /\ Len(back) = m
    BY <1>4, <2>4
  <2> HIDE DEF back
  <2>6. \A i \in 1..m : back[i] \in 1..n /\ on(back[i])
    BY <1>5, <2>2, <2>3, Zenon
  <2>7. \A x \in 1..n : on(x) => \E i \in 1..m : back[i] = x
    <3> TAKE x \in 1..n
    <3> HAVE on(x)
    <3>1. PICK i \in 1..m : all[i] = x
      BY <1>5
    <3> DEFINE j == m - i + 1
    <3>2. j \in 1..m /\ m - j + 1 = i
      BY <1>4
    <3> HIDE DEF j
    <3>3. back[j] = x
      BY <2>3, <3>1, <3>2
    <3> QED
      BY <3>2, <3>3
  <2>8. \A i, j \in 1..m : i < j => back[i] > back[j]
    <3> TAKE i, j \in 1..m
    <3> HAVE i < j
    <3> DEFINE p == m - i + 1
               q == m - j + 1
    <3>1. p \in 1..m /\ q \in 1..m /\ q < p
      BY <1>4
    <3>2. back[i] = all[p] /\ back[j] = all[q]
      BY <2>3
    <3> HIDE DEF p, q
    <3>3. all[q] < all[p]
      BY <1>5, <3>1
    <3>4. all[q] \in Nat /\ all[p] \in Nat
      BY <1>4, <3>1, ElementOfSeq DEF m
    <3> QED
      BY <3>2, <3>3, <3>4
  <2>9. path # "source-to-sink"
    BY <1>7
  <2> QED
    BY <2>1, <2>5, <2>6, <2>7, <2>8, <2>9, Zenon DEF on, n, sel
<1> QED
  BY <1>6, <1>7 DEF Ways

(* f[n] is the stages of the first n sequences of q, one after another.    *)
Flattens(f, m, q) == f = [n \in 1..m |-> IF n = 1 THEN q[n] ELSE f[n - 1] \o q[n]]

(* There is such a function, for any number of them.                       *)
LEMMA FlattensExist == ASSUME NEW q PROVE \A m \in Nat : \E f : Flattens(f, m, q)
<1> DEFINE S == {m \in Nat : \E f : Flattens(f, m, q)}
           next(i, before) == IF i = 1 THEN q[i] ELSE before \o q[i]
<1>1. 0 \in S
  <2> DEFINE f == [i \in 1..0 |-> <<>>]
  <2>1. \A i \in 1..0 : FALSE
    OBVIOUS
  <2>2. Flattens(f, 0, q)
    BY <2>1 DEF Flattens
  <2> QED
    BY <2>2
<1>2. ASSUME NEW m \in Nat, m \in S PROVE m + 1 \in S
  <2>1. PICK f : Flattens(f, m, q)
    BY <1>2
  <2>2. f = [i \in 1..m |-> next(i, f[i - 1])]
    BY <2>1 DEF Flattens
  <2>3. \A a, b : next(1, a) = next(1, b)
    OBVIOUS
  <2> HIDE DEF next
  <2> DEFINE g == [i \in 1..(m + 1) |-> IF i <= m THEN f[i] ELSE next(m + 1, f[m])]
  <2>4. ASSUME NEW i \in 1..(m + 1) PROVE g[i] = next(i, g[i - 1])
    <3>1. CASE i = 1 /\ i <= m
      <4>1. f[1] = next(1, f[1 - 1])
        BY <2>2, <3>1
      <4>2. g[i] = f[1]
        BY <3>1
      <4> QED
        BY <2>3, <3>1, <4>1, <4>2, Zenon
    <3>2. CASE i # 1 /\ i <= m
      <4>1. f[i] = next(i, f[i - 1])
        BY <2>2, <3>2
      <4>2. i - 1 \in 1..(m + 1) /\ i - 1 <= m
        BY <3>2
      <4> QED
        BY <3>2, <4>1, <4>2
    <3>3. CASE i = m + 1 /\ i # 1
      <4>1. i - 1 = m /\ m \in 1..(m + 1) /\ ~(i <= m)
        BY <3>3
      <4> QED
        BY <3>3, <4>1
    <3>4. CASE i = m + 1 /\ i = 1
      <4>1. ~(i <= m)
        BY <3>4
      <4>2. g[i] = next(m + 1, f[m])
        BY <4>1
      <4> QED
        BY <2>3, <3>4, <4>2, Zenon
    <3>5. i <= m \/ i = m + 1
      OBVIOUS
    <3> QED
      BY <3>1, <3>2, <3>3, <3>4, <3>5, Zenon
  <2>5. g = [i \in 1..(m + 1) |-> g[i]]
    OBVIOUS
  <2> HIDE DEF g
  <2>6. g = [i \in 1..(m + 1) |-> next(i, g[i - 1])]
    BY <2>4, <2>5
  <2>7. Flattens(g, m + 1, q)
    BY <2>6 DEF Flattens, next
  <2> QED
    BY <2>7
<1> HIDE DEF S
<1>3. \A m \in Nat : m \in S
  BY <1>1, <1>2, Induct
<1> QED
  BY <1>3 DEF S

(* Stages is what is flattened.                                            *)
LEMMA StagesIs ==
  ASSUME NEW segments, Len(segments) \in Nat
  PROVE  \E f : /\ Flattens(f, Len(segments), [k \in 1..Len(segments) |-> segments[k].stages])
                /\ Len(segments) # 0 => Chained!Stages(segments) = f[Len(segments)]
                /\ Len(segments) = 0 => Chained!Stages(segments) = <<>>
<1> DEFINE q    == [k \in 1..Len(segments) |-> segments[k].stages]
           m    == Len(q)
           P(f) == f = [i \in 1..m |-> IF i = 1 THEN q[i] ELSE f[i - 1] \o q[i]]
           C    == CHOOSE f : P(f)
<1>1. m = Len(segments)
  OBVIOUS
<1>2. \A f : P(f) <=> Flattens(f, m, q)
  BY DEF Flattens
<1>3. \E f : P(f)
  BY <1>1, <1>2, FlattensExist
<1>4. P(C)
  <2> HIDE DEF P
  <2> QED
    BY <1>3
<1>5. Chained!Stages(segments) = IF m = 0 THEN q ELSE C[m]
  BY DEF Chained!Stages, Chained!FlattenSeq
<1>6. m = 0 => q = <<>>
  <2> SUFFICES ASSUME m = 0 PROVE q = <<>>
    OBVIOUS
  <2>1. q \in Seq({}) /\ <<>> \in Seq({})
    <3>1. \A i \in 1..0 : FALSE
      OBVIOUS
    <3>2. Len(segments) = 0
      BY <1>1
    <3>3. q \in [1..0 -> {}]
      BY <3>1, <3>2
    <3> QED
      BY <3>3
  <2>2. Len(q) = 0 /\ Len(<<>>) = 0
    OBVIOUS
  <2>3. \A i \in 1..0 : FALSE
    OBVIOUS
  <2> HIDE DEF q
  <2> QED
    BY <2>1, <2>2, <2>3, SeqEqual
<1>7. Flattens(C, m, q)
  BY <1>2, <1>4
<1> HIDE DEF q, P, C
<1>8. /\ Flattens(C, Len(segments), q)
      /\ Len(segments) # 0 => Chained!Stages(segments) = C[Len(segments)]
      /\ Len(segments) = 0 => Chained!Stages(segments) = <<>>
  BY <1>1, <1>5, <1>6, <1>7
<1> QED
  BY <1>8 DEF q

(* Of sequences that begin others it is the same.                          *)
LEMMA FlattensAgree ==
  ASSUME NEW q, NEW r, NEW f, NEW g, NEW m \in Nat, NEW n \in Nat,
         Flattens(f, m, q), Flattens(g, n, r), m <= n, \A i \in 1..m : q[i] = r[i]
  PROVE  \A i \in 1..m : f[i] = g[i]
<1> DEFINE S == {i \in Nat : i + 1 <= m => f[i + 1] = g[i + 1]}
<1>1. 0 \in S
  <2> SUFFICES ASSUME 1 <= m PROVE f[1] = g[1]
    OBVIOUS
  <2>1. 1 \in 1..m /\ 1 \in 1..n
    OBVIOUS
  <2>2. f[1] = q[1] /\ g[1] = r[1]
    BY <2>1 DEF Flattens
  <2> QED
    BY <2>1, <2>2
<1>2. ASSUME NEW i \in Nat, i \in S PROVE i + 1 \in S
  <2> DEFINE k == i + 2
  <2> SUFFICES ASSUME k <= m PROVE f[k] = g[k]
    OBVIOUS
  <2>1. f[i + 1] = g[i + 1]
    BY <1>2
  <2>2. k \in 1..m /\ k \in 1..n /\ k # 1 /\ k - 1 = i + 1 /\ q[k] = r[k]
    OBVIOUS
  <2> HIDE DEF k
  <2>3. f[k] = f[k - 1] \o q[k]
    BY <2>2 DEF Flattens
  <2>4. g[k] = g[k - 1] \o r[k]
    BY <2>2 DEF Flattens
  <2> QED
    BY <2>1, <2>2, <2>3, <2>4, Zenon
<1> HIDE DEF S
<1>3. \A i \in Nat : i \in S
  BY <1>1, <1>2, Induct
<1>4. TAKE i \in 1..m
<1>5. i - 1 \in Nat /\ i - 1 + 1 = i /\ i <= m
  OBVIOUS
<1>6. i - 1 \in S
  BY <1>3, <1>5
<1> QED
  BY <1>5, <1>6 DEF S

(* Nothing has no stages.                                                  *)
LEMMA StagesOfNone == Chained!Stages(<<>>) = <<>>
<1>1. Len(<<>>) = 0
  OBVIOUS
<1> QED
  BY <1>1, StagesIs

(* Those of segments are numbers.                                          *)
LEMMA StagesAre ==
  ASSUME NEW segments \in Seq(Segment) PROVE Chained!Stages(segments) \in Seq(Nat)
<1> DEFINE m == Len(segments)
           q == [k \in 1..m |-> segments[k].stages]
<1>1. m \in Nat
  BY LenProperties
<1>2. \A i \in 1..m : q[i] \in Seq(Nat)
  <2> TAKE i \in 1..m
  <2>1. segments[i] \in Segment
    BY ElementOfSeq
  <2>2. segments[i].stages \in Seq(Nat)
    BY <2>1 DEF Segment
  <2> QED
    BY <2>2
<1>3. PICK f : /\ Flattens(f, m, q) /\ (m # 0 => Chained!Stages(segments) = f[m])
               /\ (m = 0 => Chained!Stages(segments) = <<>>)
  BY <1>1, StagesIs
<1> HIDE DEF q
<1> DEFINE S == {i \in Nat : i + 1 <= m => f[i + 1] \in Seq(Nat)}
<1>4. 0 \in S
  <2> SUFFICES ASSUME 1 <= m PROVE f[1] \in Seq(Nat)
    OBVIOUS
  <2>1. 1 \in 1..m
    BY <1>1
  <2>2. f[1] = q[1]
    BY <1>3, <2>1 DEF Flattens
  <2> QED
    BY <1>2, <2>1, <2>2
<1>5. ASSUME NEW i \in Nat, i \in S PROVE i + 1 \in S
  <2> DEFINE k == i + 2
  <2> SUFFICES ASSUME k <= m PROVE f[k] \in Seq(Nat)
    OBVIOUS
  <2>1. k \in 1..m /\ k # 1 /\ k - 1 = i + 1 /\ i + 1 <= m
    BY <1>1
  <2>2. f[k - 1] \in Seq(Nat)
    BY <1>5, <2>1
  <2> HIDE DEF k
  <2>3. f[k] = f[k - 1] \o q[k]
    BY <1>3, <2>1 DEF Flattens
  <2>4. q[k] \in Seq(Nat)
    BY <1>2, <2>1
  <2> QED
    BY <2>2, <2>3, <2>4, ConcatProperties
<1> HIDE DEF S
<1>6. \A i \in Nat : i \in S
  BY <1>4, <1>5, Induct
<1>7. CASE m = 0
  BY <1>3, <1>7
<1>8. CASE m # 0
  <2>1. m - 1 \in Nat /\ m - 1 + 1 = m /\ m <= m
    BY <1>1, <1>8
  <2>2. m - 1 \in S
    BY <1>6, <2>1
  <2>3. f[m] \in Seq(Nat)
    BY <2>1, <2>2 DEF S
  <2> QED
    BY <1>3, <1>8, <2>3
<1> QED
  BY <1>7, <1>8

(* A segment more has its stages behind those before it.                   *)
LEMMA StagesMore ==
  ASSUME NEW segments \in Seq(Segment), NEW s \in Segment
  PROVE  /\ Chained!Stages(Append(segments, s)) = Joined(Chained!Stages(segments), s.stages)
         /\ Chained!Stages(Append(segments, s)) \in Seq(Nat)
<1> DEFINE more == Append(segments, s)
           m    == Len(segments)
           q    == [k \in 1..m |-> segments[k].stages]
           r    == [k \in 1..(m + 1) |-> more[k].stages]
<1>1. m \in Nat /\ Len(more) = m + 1 /\ more[m + 1] = s /\ \A i \in 1..m : more[i] = segments[i]
  BY AppendProperties, LenProperties
<1>2. s.stages \in Seq(Nat)
  BY DEF Segment
<1> HIDE DEF more
<1>3. PICK f : /\ Flattens(f, m, q) /\ (m # 0 => Chained!Stages(segments) = f[m])
               /\ (m = 0 => Chained!Stages(segments) = <<>>)
  BY <1>1, StagesIs
<1>4. m + 1 \in Nat /\ m + 1 # 0 /\ m <= m + 1
  BY <1>1
<1>5. PICK g : Flattens(g, m + 1, r) /\ Chained!Stages(more) = g[m + 1]
  <2>1. Len(more) \in Nat /\ Len(more) # 0
    BY <1>1, <1>4
  <2>2. PICK g : /\ Flattens(g, Len(more), [k \in 1..Len(more) |-> more[k].stages])
                 /\ Chained!Stages(more) = g[Len(more)]
    BY <2>1, StagesIs
  <2> QED
    BY <1>1, <2>2
<1>6. r[m + 1] = s.stages
  <2>1. m + 1 \in 1..(m + 1)
    BY <1>1
  <2> QED
    BY <1>1, <2>1
<1>7. \A i \in 1..m : q[i] = r[i]
  <2> TAKE i \in 1..m
  <2>1. i \in 1..(m + 1)
    BY <1>1
  <2> QED
    BY <1>1, <2>1
<1> HIDE DEF q, r
<1>8. \A i \in 1..m : f[i] = g[i]
  BY <1>1, <1>3, <1>4, <1>5, <1>7, FlattensAgree
<1> DEFINE k == m + 1
<1>9. k \in 1..k /\ k - 1 = m
  BY <1>1
<1>10. Flattens(g, k, r)
  BY <1>5
<1> HIDE DEF k
<1>11. g[k] = IF k = 1 THEN r[k] ELSE g[k - 1] \o r[k]
  BY <1>9, <1>10 DEF Flattens
<1>12. Chained!Stages(more) = Chained!Stages(segments) \o s.stages
  <2>1. CASE m = 0
    <3>1. k = 1
      BY <1>1, <2>1 DEF k
    <3>2. Chained!Stages(more) = s.stages
      BY <1>5, <1>6, <1>11, <3>1 DEF k
    <3>3. <<>> \o s.stages = s.stages
      BY <1>2, ConcatEmptySeq
    <3> QED
      BY <1>3, <2>1, <3>2, <3>3
  <2>2. CASE m # 0
    <3>1. m \in 1..m /\ k # 1
      BY <1>1, <2>2 DEF k
    <3>2. g[m] = f[m]
      BY <1>8, <3>1
    <3>3. g[k] = f[m] \o r[k]
      BY <1>9, <1>11, <3>1, <3>2, Zenon
    <3> QED
      BY <1>3, <1>5, <1>6, <2>2, <3>3, Zenon DEF k
  <2> QED
    BY <2>1, <2>2
<1>13. Chained!Stages(segments) \o s.stages \in Seq(Nat)
  BY <1>2, StagesAre, ConcatProperties
<1> QED
  BY <1>12, <1>13 DEF more, Joined

(* A segment behind others is a task as they are.                          *)
LEMMA TasksMore ==
  ASSUME NEW segments \in Seq(Segment), NEW s \in Segment, NEW foreign, NEW alone,
         Tasks(segments, foreign, alone),
         IF s.kind = "process" THEN s.stages[1] \in foreign
         ELSE /\ s.stages # <<>>
              /\ \A j \in DOMAIN s.stages :
                   /\ s.stages[j] \notin foreign
                   /\ j > 1 => s.stages[j] \notin alone
              /\ segments # <<>> /\ segments[Len(segments)].kind = "inline" =>
                   s.stages[1] \in alone
  PROVE  Tasks(Append(segments, s), foreign, alone)
<1> DEFINE more == Append(segments, s)
           m    == Len(segments)
           own(x) == /\ x.stages # <<>>
                     /\ \A j \in DOMAIN x.stages :
                          /\ x.stages[j] \notin foreign
                          /\ j > 1 => x.stages[j] \notin alone
<1>1. /\ m \in Nat /\ Len(more) = m + 1 /\ more[m + 1] = s
      /\ more \in Seq(Segment) /\ \A i \in 1..m : more[i] = segments[i]
  BY AppendProperties, LenProperties
<1>2. DOMAIN more = 1..(m + 1) /\ DOMAIN segments = 1..m
  BY <1>1, LenProperties
<1> HIDE DEF more
<1>3. ASSUME NEW k \in 1..m
      PROVE  IF more[k].kind = "process" THEN more[k].stages[1] \in foreign
             ELSE /\ own(more[k])
                  /\ k > 1 /\ more[k - 1].kind = "inline" => more[k].stages[1] \in alone
  <2>1. IF segments[k].kind = "process" THEN segments[k].stages[1] \in foreign
        ELSE /\ own(segments[k])
             /\ k > 1 /\ segments[k - 1].kind = "inline" =>
                  segments[k].stages[1] \in alone
    BY <1>2, Zenon DEF Tasks
  <2>2. more[k] = segments[k]
    BY <1>1
  <2>3. k > 1 => k - 1 \in 1..m
    BY <1>1
  <2>4. k > 1 => more[k - 1] = segments[k - 1]
    BY <1>1, <2>3
  <2> HIDE DEF own
  <2> QED
    BY <2>1, <2>2, <2>4, Zenon
<1>4. IF s.kind = "process" THEN s.stages[1] \in foreign
      ELSE /\ own(s)
           /\ m + 1 > 1 /\ more[(m + 1) - 1].kind = "inline" => s.stages[1] \in alone
  <2>1. m + 1 > 1 => segments # <<>> /\ more[(m + 1) - 1] = segments[m]
    <3> SUFFICES ASSUME m + 1 > 1 PROVE segments # <<>> /\ more[(m + 1) - 1] = segments[m]
      OBVIOUS
    <3>1. m \in 1..m /\ (m + 1) - 1 = m /\ m # 0
      BY <1>1
    <3>2. segments # <<>>
      BY <3>1
    <3> QED
      BY <1>1, <3>1, <3>2
  <2> QED
    BY <2>1, Zenon DEF m
<1> HIDE DEF own, m
<1>5. ASSUME NEW k \in 1..(m + 1)
      PROVE  IF more[k].kind = "process" THEN more[k].stages[1] \in foreign
             ELSE /\ own(more[k])
                  /\ k > 1 /\ more[k - 1].kind = "inline" => more[k].stages[1] \in alone
  <2>1. k \in 1..m \/ k = m + 1
    BY <1>1
  <2>2. CASE k = m + 1
    BY <1>1, <1>4, <2>2, Zenon
  <2> QED
    BY <1>3, <2>1, <2>2
<1> QED
  BY <1>2, <1>5, Zenon DEF Tasks, own, more

(* A draft that becomes a segment, if it has stages, leaves the stages in  *)
(* their order and in their tasks.                                         *)
LEMMA FlushedIs ==
  ASSUME NEW segments \in Seq(Segment), NEW d \in Seq(Nat), NEW foreign, NEW alone,
         Tasks(segments, foreign, alone), Drafted(segments, d, foreign, alone)
  PROVE  LET more == Chained!Flushed(segments, d)
         IN  /\ more \in Seq(Segment) /\ Tasks(more, foreign, alone)
             /\ Chained!Stages(more) = Joined(Chained!Stages(segments), d)
             /\ more # <<>> /\ more[Len(more)].kind = "inline" => d # <<>>
<1> DEFINE more == Chained!Flushed(segments, d)
           s    == Chained!Inline(d)
<1>1. s \in Segment /\ s.stages = d /\ s.kind = "inline"
  BY DEF Segment, Chained!Inline
<1>2. more = IF d = <<>> THEN segments ELSE Append(segments, s)
  BY DEF Chained!Flushed
<1> HIDE DEF more, s
<1>3. CASE d = <<>>
  <2>1. Joined(Chained!Stages(segments), d) = Chained!Stages(segments)
    BY <1>3, StagesAre, ConcatEmptySeq DEF Joined
  <2>2. ~(segments # <<>> /\ segments[Len(segments)].kind = "inline")
    BY <1>3 DEF Drafted
  <2> QED
    BY <1>2, <1>3, <2>1, <2>2 DEF more
<1>4. CASE d # <<>>
  <2>1. more = Append(segments, s)
    BY <1>2, <1>4
  <2>2. Append(segments, s) \in Seq(Segment)
    BY <1>1, AppendProperties
  <2>3. Chained!Stages(Append(segments, s)) = Joined(Chained!Stages(segments), d)
    BY <1>1, StagesMore
  <2>4. /\ \A j \in DOMAIN s.stages :
             /\ s.stages[j] \notin foreign
             /\ j > 1 => s.stages[j] \notin alone
        /\ segments # <<>> /\ segments[Len(segments)].kind = "inline" =>
             s.stages[1] \in alone
    BY <1>1, Zenon DEF Drafted
  <2>5. s.kind # "process" /\ s.stages # <<>>
    BY <1>1, <1>4
  <2>6. Tasks(Append(segments, s), foreign, alone)
    BY <1>1, <2>4, <2>5, TasksMore
  <2> QED
    BY <1>4, <2>1, <2>2, <2>3, <2>6 DEF more
<1> QED
  BY <1>3, <1>4

(* Nothing is built yet.                                                   *)
LEMMA ChainInit == Chained!Init => ChainIInv
<1> SUFFICES ASSUME Chained!Init PROVE ChainIInv
  OBVIOUS
<1>1. /\ building = "source-to-sink" /\ left = Chained!Selected(specs, "source-to-sink")
      /\ draft = <<>> /\ chains = [p \in Ways |-> <<>>] /\ verdict = "none"
      /\ datagram = [e \in {"source", "sink"} |-> FALSE] /\ needs = {}
  BY DEF Chained!Init, Ways
<1>2. specs \in Seq(Chained!PluginSpec)
  <2>1. PICK n \in 0..MaxStages : specs \in [1..n -> Chained!PluginSpec]
    BY DEF Chained!Init
  <2>2. n \in Nat
    BY AssemblyAssumption DEF AssemblyAssumption
  <2> QED
    BY <2>1, <2>2
<1>3. Len(specs) \in Nat
  BY <1>2, LenProperties
<1>4. left \in Seq(Nat) /\ <<>> \in Seq(Nat)
  BY <1>1, <1>3, SelectedIs DEF Ways
<1>5. ChainTyped
  <2>1. chains \in [Ways -> Seq(Segment)]
    BY <1>1
  <2>2. datagram \in [{"source", "sink"} -> BOOLEAN]
    BY <1>1
  <2>3. needs \subseteq (DOMAIN specs) \X Chained!Sides
    BY <1>1
  <2> QED
    BY <1>1, <1>2, <1>4, <2>1, <2>2, <2>3 DEF ChainTyped, Ways
<1>6. chains["source-to-sink"] = <<>> /\ chains["sink-to-source"] = <<>>
  BY <1>1 DEF Ways
<1>7. InOrder
  <2>1. Joined(<<>>, Joined(<<>>, left)) = left
    BY <1>4, ConcatEmptySeq DEF Joined
  <2>2. Chained!Selected(specs, building) = Joined(Chained!Stages(chains[building]), Joined(draft, left))
    BY <1>1, <1>6, <2>1, StagesOfNone
  <2> QED
    BY <1>1, <1>6, <2>2, Zenon DEF InOrder
<1>8. AsAsked
  <2>1. \A path \in Ways : chains[path] = <<>>
    BY <1>6 DEF Ways
  <2>2. \A k \in DOMAIN <<>> : FALSE
    OBVIOUS
  <2>3. Tasks(<<>>, Foreign, Alone) /\ Drafted(<<>>, <<>>, Foreign, Alone)
    BY <2>2, Zenon DEF Tasks, Drafted
  <2>4. chains[building] = <<>>
    BY <1>1, <1>6
  <2> QED
    BY <1>1, <2>1, <2>3, <2>4, Zenon DEF AsAsked
<1>9. Judged
  BY <1>1 DEF Judged
<1> QED
  BY <1>5, <1>7, <1>8, <1>9 DEF ChainIInv

(* The chain that is being built gets on, and loses no stage.              *)
LEMMA ChainGrows ==
  ASSUME ChainIInv, building \in Ways, UNCHANGED <<specs, building, verdict, datagram, needs>>,
         verdict = "none", NEW more \in Seq(Segment), chains' = [chains EXCEPT ![building] = more],
         draft' \in Seq(Nat), left' \in Seq(Nat), Tasks(more, Foreign, Alone),
         Drafted(more, draft', Foreign, Alone),
         Joined(Chained!Stages(more), Joined(draft', left')) =
           Joined(Chained!Stages(chains[building]), Joined(draft, left))
  PROVE  ChainIInv'
<1>1. ChainTyped /\ InOrder /\ AsAsked
  BY DEF ChainIInv
<1>2. chains \in [Ways -> Seq(Segment)]
  BY <1>1 DEF ChainTyped
<1>3. /\ chains' \in [Ways -> Seq(Segment)] /\ chains'[building] = more
      /\ \A path \in Ways : path # building => chains'[path] = chains[path]
  BY <1>2
<1>4. /\ specs' = specs /\ building' = building /\ verdict' = verdict /\ datagram' = datagram
      /\ needs' = needs
  OBVIOUS
<1>5. building # "none"
  BY DEF Ways
<1>6. ChainTyped'
  BY <1>1, <1>3, <1>4, <1>5, Zenon DEF ChainTyped
<1>7. InOrder'
  <2>1. building = "source-to-sink" => chains'["sink-to-source"] = <<>>
    <3>1. "sink-to-source" \in Ways
      BY DEF Ways
    <3>2. building = "source-to-sink" => building # "sink-to-source"
      OBVIOUS
    <3> QED
      BY <1>1, <1>3, <3>1, <3>2, Zenon DEF InOrder
  <2>2. ASSUME NEW path \in Ways, path # building
        PROVE  Chained!Selected(specs, path) =
                 IF building = "source-to-sink" THEN Chained!Selected(specs, path)
                 ELSE Chained!Stages(chains'[path])
    BY <1>1, <1>3, <2>2, Zenon DEF InOrder
  <2>3. Chained!Selected(specs, building) =
          Joined(Chained!Stages(chains'[building]), Joined(draft', left'))
    BY <1>1, <1>3, Zenon DEF InOrder
  <2> QED
    BY <1>4, <2>1, <2>2, <2>3, Zenon DEF InOrder
<1>8. Foreign' = Foreign /\ Alone' = Alone
  BY <1>4 DEF Foreign, Alone, Chained!Detached, Chained!Default
<1>9. AsAsked'
  <2>1. ASSUME NEW path \in Ways PROVE Tasks(chains'[path], Foreign, Alone)
    BY <1>1, <1>3, Zenon DEF AsAsked
  <2>2. Drafted(chains'[building], draft', Foreign, Alone)
    BY <1>3
  <2> QED
    BY <1>4, <1>8, <2>1, <2>2, Zenon DEF AsAsked
<1>10. Judged'
  BY <1>4 DEF Judged
<1> QED
  BY <1>6, <1>7, <1>9, <1>10 DEF ChainIInv

(* The first of what is left, taken from it, is behind what was before.    *)
LEMMA Taken ==
  ASSUME NEW S, NEW a \in Seq(S), NEW b \in Seq(S), NEW l \in Seq(S), l # <<>>
  PROVE  /\ Head(l) \in S /\ Tail(l) \in Seq(S) /\ <<Head(l)>> \in Seq(S)
         /\ Joined(Joined(a, b), Joined(<<Head(l)>>, Tail(l))) = Joined(a, Joined(b, l))
         /\ Joined(Joined(Joined(a, b), <<Head(l)>>), Joined(<<>>, Tail(l))) = Joined(a, Joined(b, l))
         /\ Joined(a, Joined(Append(b, Head(l)), Tail(l))) = Joined(a, Joined(b, l))
<1> DEFINE h == Head(l)
           w == Tail(l)
<1>1. h \in S /\ w \in Seq(S) /\ Len(w) = Len(l) - 1 /\ \A i \in 1..Len(w) : w[i] = l[i + 1]
  BY HeadTailProperties
<1>2. h = l[1] /\ Len(l) \in Nat
  BY LenProperties
<1> HIDE DEF h, w
<1> DEFINE one == <<h>>
<1>3. one \in Seq(S) /\ Len(one) = 1 /\ one[1] = h
  BY <1>1
<1> HIDE DEF one
<1>3a. one \in Seq(S) /\ w \in Seq(S) /\ l \in Seq(S)
  BY <1>1, <1>3
<1>4. Joined(one, w) = l
  <2>1. /\ one \o w \in Seq(S) /\ Len(one \o w) = Len(one) + Len(w)
        /\ \A i \in 1..(Len(one) + Len(w)) :
             (one \o w)[i] = IF i <= Len(one) THEN one[i] ELSE w[i - Len(one)]
    BY <1>3a, ConcatProperties
  <2>2. Len(one) + Len(w) = Len(l)
    BY <1>1, <1>2, <1>3
  <2>3. \A i \in 1..Len(l) : (one \o w)[i] = l[i]
    <3> TAKE i \in 1..Len(l)
    <3>1. CASE i = 1
      <4>1. i <= Len(one)
        BY <1>3, <3>1
      <4> QED
        BY <1>2, <1>3, <2>1, <2>2, <3>1, <4>1, Zenon
    <3>2. CASE i # 1
      <4>1. ~(i <= Len(one)) /\ i - Len(one) \in 1..Len(w) /\ i - Len(one) + 1 = i
        BY <1>1, <1>2, <1>3, <3>2
      <4>2. (one \o w)[i] = w[i - Len(one)]
        BY <2>1, <2>2, <4>1, Zenon
      <4>3. w[i - Len(one)] = l[i - Len(one) + 1]
        BY <1>1, <4>1, Zenon
      <4> QED
        BY <4>1, <4>2, <4>3, Zenon
    <3> QED
      BY <3>1, <3>2
  <2> QED
    BY <1>3a, <2>1, <2>2, <2>3, SeqEqual DEF Joined
<1>5. \A x, y \in Seq(S) : Joined(x, y) \in Seq(S)
  BY ConcatProperties DEF Joined
<1>6. \A x, y, z \in Seq(S) : Joined(Joined(x, y), z) = Joined(x, Joined(y, z))
  BY ConcatAssociative, SMTT(30) DEF Joined
<1>7. Joined(<<>>, w) = w
  BY <1>1, ConcatEmptySeq DEF Joined
<1>8. Append(b, h) = Joined(b, one)
  BY <1>1, AppendIsConcat DEF one, Joined
<1>9. Joined(Joined(a, b), l) = Joined(a, Joined(b, l))
  BY <1>6
<1>10. Joined(Joined(Joined(a, b), one), w) = Joined(Joined(a, b), l)
  BY <1>3a, <1>4, <1>5, <1>6
<1>11. Joined(Joined(b, one), w) = Joined(b, l)
  BY <1>3a, <1>4, <1>6
<1>12. <<h>> = one
  BY DEF one
<1>13. /\ h \in S /\ w \in Seq(S) /\ <<h>> \in Seq(S)
       /\ Joined(Joined(a, b), Joined(<<h>>, w)) = Joined(a, Joined(b, l))
       /\ Joined(Joined(Joined(a, b), <<h>>), Joined(<<>>, w)) = Joined(a, Joined(b, l))
       /\ Joined(a, Joined(Append(b, h), w)) = Joined(a, Joined(b, l))
  BY <1>1, <1>3a, <1>4, <1>7, <1>8, <1>9, <1>10, <1>11, <1>12
<1> QED
  BY <1>13 DEF h, w

(* The first of l, taken from it, is behind a and b, which were before it. *)
Behind(a, b, l) ==
  /\ Joined(Joined(a, b), Joined(<<Head(l)>>, Tail(l))) = Joined(a, Joined(b, l))
  /\ Joined(Joined(Joined(a, b), <<Head(l)>>), Joined(<<>>, Tail(l))) = Joined(a, Joined(b, l))
  /\ Joined(a, Joined(Append(b, Head(l)), Tail(l))) = Joined(a, Joined(b, l))

(* The same of numbers, as each of the ways to take a stage has use for it.*)
LEMMA TakenBehind == \A a, b, l \in Seq(Nat) : l # <<>> => Behind(a, b, l)
<1>1. ASSUME NEW S, NEW a \in Seq(S), NEW b \in Seq(S), NEW l \in Seq(S), l # <<>>
      PROVE  Behind(a, b, l)
  BY <1>1, Taken DEF Behind
<1> QED
  BY <1>1

(* A filter begins a segment, or goes on with the one that is drafted.     *)
LEMMA TakesFilterKeeps == ASSUME ChainIInv, Chained!TakesFilter PROVE ChainIInv'
<1> DEFINE i == Head(left)
           segments == chains[building]
           flushed == Chained!Flushed(segments, draft)
<1>1. /\ building # "none" /\ verdict = "none" /\ left # <<>> /\ left' = Tail(left)
      /\ UNCHANGED <<specs, building, verdict, datagram, needs>>
  BY DEF Chained!TakesFilter, Chained!Building
<1>2. specs[i].makes # "external"
  BY DEF Chained!TakesFilter
<1>3. \/ /\ draft = <<>> \/ Chained!Detached(i)
         /\ chains' = [chains EXCEPT ![building] = Chained!Flushed(@, draft)] /\ draft' = <<i>>
      \/ /\ ~(draft = <<>> \/ Chained!Detached(i))
         /\ draft' = Append(draft, i) /\ chains' = chains
  BY DEF Chained!TakesFilter, Chained!StartsSegment
<1>4. ChainTyped /\ InOrder /\ AsAsked
  BY DEF ChainIInv
<1>5. building \in Ways
  BY <1>1, <1>4 DEF ChainTyped
<1>6. chains \in [Ways -> Seq(Segment)] /\ draft \in Seq(Nat) /\ left \in Seq(Nat)
  BY <1>4 DEF ChainTyped
<1>7. segments \in Seq(Segment) /\ Chained!Stages(segments) \in Seq(Nat)
  BY <1>5, <1>6, StagesAre
<1>8. Tasks(segments, Foreign, Alone) /\ Drafted(segments, draft, Foreign, Alone)
  BY <1>1, <1>4, <1>5, Zenon DEF AsAsked
<1>9. i \in Nat /\ left' \in Seq(Nat) /\ <<i>> \in Seq(Nat)
  BY <1>1, <1>6, Taken
<1>10. i \notin Foreign /\ (Chained!Detached(i) <=> i \in Alone)
  BY <1>2, <1>9 DEF Foreign, Alone
<1>11. CASE /\ draft = <<>> \/ Chained!Detached(i)
            /\ chains' = [chains EXCEPT ![building] = Chained!Flushed(@, draft)]
            /\ draft' = <<i>>
  <2>1. /\ flushed \in Seq(Segment) /\ Tasks(flushed, Foreign, Alone)
        /\ Chained!Stages(flushed) = Joined(Chained!Stages(segments), draft)
        /\ flushed # <<>> /\ flushed[Len(flushed)].kind = "inline" => draft # <<>>
    BY <1>6, <1>7, <1>8, FlushedIs
  <2>2. chains' = [chains EXCEPT ![building] = flushed]
    BY <1>11
  <2>3. Joined(Chained!Stages(flushed), Joined(draft', left')) =
          Joined(Chained!Stages(segments), Joined(draft, left))
    <3> DEFINE before == Chained!Stages(segments)
    <3>1. before \in Seq(Nat) /\ draft \in Seq(Nat) /\ left \in Seq(Nat) /\ left # <<>>
      BY <1>1, <1>6, <1>7
    <3> HIDE DEF before, flushed
    <3>2. Joined(Joined(before, draft), Joined(<<Head(left)>>, Tail(left))) = Joined(before, Joined(draft, left))
      BY <3>1, TakenBehind, Zenon DEF Behind
    <3> QED
      BY <1>1, <1>11, <2>1, <3>2, Zenon DEF before
  <2> HIDE DEF i, flushed
  <2>4. \A j \in DOMAIN draft' : j = 1 /\ draft'[j] = i
    BY <1>11
  <2>5. draft' # <<>> /\ draft'[1] = i
    BY <1>11
  <2>6. Drafted(flushed, draft', Foreign, Alone)
    <3>1. \A j \in DOMAIN draft' : draft'[j] \notin Foreign /\ ~(j > 1)
      BY <1>10, <2>4
    <3>2. flushed # <<>> /\ flushed[Len(flushed)].kind = "inline" => draft' # <<>> /\ draft'[1] \in Alone
      BY <1>10, <1>11, <2>1, <2>5, Zenon
    <3> QED
      BY <3>1, <3>2, Zenon DEF Drafted
  <2>7. draft' \in Seq(Nat)
    BY <1>9, <1>11
  <2> QED
    BY <1>1, <1>5, <1>9, <2>1, <2>2, <2>3, <2>6, <2>7, ChainGrows
<1>12. CASE /\ ~(draft = <<>> \/ Chained!Detached(i))
            /\ draft' = Append(draft, i) /\ chains' = chains
  <2> DEFINE m == Len(draft)
  <2>1. /\ draft' \in Seq(Nat) /\ Len(draft') = m + 1 /\ m \in Nat /\ draft'[m + 1] = i
        /\ \A j \in 1..m : draft'[j] = draft[j]
    BY <1>6, <1>9, <1>12, AppendProperties, LenProperties
  <2>2. chains' = [chains EXCEPT ![building] = segments]
    BY <1>5, <1>6, <1>12
  <2>3. Joined(Chained!Stages(segments), Joined(draft', left')) =
          Joined(Chained!Stages(segments), Joined(draft, left))
    <3> DEFINE before == Chained!Stages(segments)
    <3>1. before \in Seq(Nat) /\ draft \in Seq(Nat) /\ left \in Seq(Nat) /\ left # <<>>
      BY <1>1, <1>6, <1>7
    <3> HIDE DEF before
    <3>2. Joined(before, Joined(Append(draft, Head(left)), Tail(left))) = Joined(before, Joined(draft, left))
      BY <3>1, TakenBehind, Zenon DEF Behind
    <3> QED
      BY <1>1, <1>12, <3>2, Zenon DEF before
  <2>4. DOMAIN draft = 1..m /\ DOMAIN draft' = 1..(m + 1)
    BY <1>6, <2>1, LenProperties
  <2>5. 1 \in 1..m
    <3>1. m # 0
      BY <1>6, <1>12, EmptySeq
    <3> QED
      BY <2>1, <3>1
  <2> HIDE DEF i, m
  <2>6. \A j \in DOMAIN draft' : draft'[j] \notin Foreign /\ (j > 1 => draft'[j] \notin Alone)
    <3>1. \A j \in 1..(m + 1) : j \in 1..m \/ j = m + 1
      BY <2>1
    <3> QED
      BY <1>8, <1>10, <1>12, <2>1, <2>4, <3>1, Zenon DEF Drafted
  <2>7. draft' # <<>>
    BY <2>4, <2>1
  <2>8. segments # <<>> /\ segments[Len(segments)].kind = "inline" =>
          draft' # <<>> /\ draft'[1] \in Alone
    BY <1>8, <2>1, <2>5, <2>7, Zenon DEF Drafted
  <2>9. Drafted(segments, draft', Foreign, Alone)
    BY <2>6, <2>8, Zenon DEF Drafted
  <2> QED
    BY <1>1, <1>5, <1>7, <1>8, <1>9, <2>1, <2>2, <2>3, <2>9, ChainGrows
<1> QED
  BY <1>3, <1>11, <1>12

(* A subprocess is a segment of its own.                                   *)
LEMMA TakesExternalKeeps == ASSUME ChainIInv, Chained!TakesExternal PROVE ChainIInv'
<1> DEFINE i == Head(left)
           segments == chains[building]
           flushed == Chained!Flushed(segments, draft)
           p == Chained!Process(i)
           more == Append(flushed, p)
<1>1. /\ building # "none" /\ verdict = "none" /\ left # <<>> /\ left' = Tail(left) /\ draft' = <<>>
      /\ UNCHANGED <<specs, building, verdict, datagram, needs>>
  BY DEF Chained!TakesExternal, Chained!Building
<1>2. /\ specs[i].makes = "external"
      /\ chains' = [chains EXCEPT ![building] = Append(Chained!Flushed(@, draft), Chained!Process(i))]
  BY DEF Chained!TakesExternal
<1>3. ChainTyped /\ InOrder /\ AsAsked
  BY DEF ChainIInv
<1>4. building \in Ways
  BY <1>1, <1>3 DEF ChainTyped
<1>5. chains \in [Ways -> Seq(Segment)] /\ draft \in Seq(Nat) /\ left \in Seq(Nat)
  BY <1>3 DEF ChainTyped
<1>6. segments \in Seq(Segment) /\ Chained!Stages(segments) \in Seq(Nat)
  BY <1>4, <1>5, StagesAre
<1>7. Tasks(segments, Foreign, Alone) /\ Drafted(segments, draft, Foreign, Alone)
  BY <1>1, <1>3, <1>4, Zenon DEF AsAsked
<1>8. i \in Nat /\ left' \in Seq(Nat) /\ <<i>> \in Seq(Nat)
  BY <1>1, <1>5, Taken
<1>9. i \in Foreign
  BY <1>2, <1>8 DEF Foreign
<1>10. p \in Segment /\ p.stages = <<i>> /\ p.kind = "process" /\ p.stages[1] = i
  BY <1>8 DEF Segment, Chained!Process
<1>11. /\ flushed \in Seq(Segment) /\ Tasks(flushed, Foreign, Alone)
       /\ Chained!Stages(flushed) = Joined(Chained!Stages(segments), draft)
  BY <1>5, <1>6, <1>7, FlushedIs
<1>12. chains' = [chains EXCEPT ![building] = more]
  BY <1>2
<1> HIDE DEF p, flushed, segments
<1>13. p.stages[1] \in Foreign
  BY <1>9, <1>10
<1>14. Tasks(Append(flushed, p), Foreign, Alone)
  BY <1>10, <1>11, <1>13, TasksMore
<1>15. /\ Append(flushed, p) \in Seq(Segment) /\ Len(Append(flushed, p)) = Len(flushed) + 1
       /\ Append(flushed, p)[Len(flushed) + 1] = p
  BY <1>10, <1>11, AppendProperties
<1>16. Chained!Stages(Append(flushed, p)) = Joined(Joined(Chained!Stages(segments), draft), <<i>>)
  BY <1>10, <1>11, StagesMore
<1> HIDE DEF i, more
<1>17. Tasks(more, Foreign, Alone) /\ more \in Seq(Segment) /\ more[Len(more)].kind = "process"
  BY <1>10, <1>14, <1>15, Zenon DEF more
<1>18. Joined(Chained!Stages(more), Joined(draft', left')) =
          Joined(Chained!Stages(segments), Joined(draft, left))
  <2> DEFINE before == Chained!Stages(segments)
  <2>1. before \in Seq(Nat) /\ draft \in Seq(Nat) /\ left \in Seq(Nat) /\ left # <<>>
    BY <1>1, <1>5, <1>6
  <2> HIDE DEF before
  <2>2. Joined(Joined(Joined(before, draft), <<Head(left)>>), Joined(<<>>, Tail(left))) =
          Joined(before, Joined(draft, left))
    BY <2>1, TakenBehind, Zenon DEF Behind
  <2> QED
    BY <1>1, <1>16, <2>2, Zenon DEF before, i, more
<1>19. Drafted(more, draft', Foreign, Alone)
  <2>1. \A j \in DOMAIN draft' : FALSE
    BY <1>1
  <2>2. more[Len(more)].kind # "inline"
    BY <1>17
  <2> QED
    BY <2>1, <2>2, Zenon DEF Drafted
<1>20. draft' \in Seq(Nat)
  BY <1>1
<1> QED
  BY <1>1, <1>4, <1>8, <1>12, <1>17, <1>18, <1>19, <1>20, ChainGrows DEF segments

(* A subprocess that may not have a task ends the building.                *)
LEMMA RefusesExternalKeeps == ASSUME ChainIInv, Chained!RefusesExternal PROVE ChainIInv'
<1>1. /\ verdict' = "refused"
      /\ UNCHANGED <<specs, building, left, draft, chains, datagram, needs>>
  BY DEF Chained!RefusesExternal
<1>2. ChainTyped /\ InOrder /\ AsAsked
  BY DEF ChainIInv
<1>3. ChainTyped'
  BY <1>1, <1>2 DEF ChainTyped
<1>4. InOrder'
  BY <1>1, <1>2 DEF InOrder
<1>5. Foreign' = Foreign /\ Alone' = Alone
  BY <1>1 DEF Foreign, Alone, Chained!Detached, Chained!Default
<1>6. AsAsked'
  BY <1>1, <1>2, <1>5, Zenon DEF AsAsked
<1>7. Judged'
  BY <1>1 DEF Judged
<1> QED
  BY <1>3, <1>4, <1>6, <1>7 DEF ChainIInv

(* The last draft becomes a segment; then it is the other way's turn.      *)
LEMMA EndsChainKeeps == ASSUME ChainIInv, Chained!EndsChain PROVE ChainIInv'
<1> DEFINE segments == chains[building]
           flushed  == Chained!Flushed(segments, draft)
           back     == Chained!Selected(specs, "sink-to-source")
<1>1. /\ building # "none" /\ verdict = "none" /\ left = <<>> /\ draft' = <<>>
      /\ UNCHANGED <<specs, verdict, datagram, needs>>
  BY DEF Chained!EndsChain, Chained!Building
<1>2. /\ chains' = [chains EXCEPT ![building] = Chained!Flushed(@, draft)]
      /\ building' = IF building = "source-to-sink" THEN "sink-to-source" ELSE "none"
      /\ left' = IF building = "source-to-sink" THEN back ELSE <<>>
  BY DEF Chained!EndsChain
<1>3. ChainTyped /\ InOrder /\ AsAsked
  BY DEF ChainIInv
<1>4. building \in Ways
  BY <1>1, <1>3 DEF ChainTyped
<1>5. chains \in [Ways -> Seq(Segment)] /\ draft \in Seq(Nat) /\ specs \in Seq(Chained!PluginSpec)
  BY <1>3 DEF ChainTyped
<1>6. segments \in Seq(Segment) /\ Chained!Stages(segments) \in Seq(Nat)
  BY <1>4, <1>5, StagesAre
<1>7. Tasks(segments, Foreign, Alone) /\ Drafted(segments, draft, Foreign, Alone)
  BY <1>1, <1>3, <1>4, Zenon DEF AsAsked
<1>8. /\ flushed \in Seq(Segment) /\ Tasks(flushed, Foreign, Alone)
      /\ Chained!Stages(flushed) = Joined(Chained!Stages(segments), draft)
  BY <1>5, <1>6, <1>7, FlushedIs
<1>9. chains' = [chains EXCEPT ![building] = flushed]
  BY <1>2
<1> HIDE DEF flushed, segments, back
<1>10. /\ chains' \in [Ways -> Seq(Segment)] /\ chains'[building] = flushed
       /\ \A path \in Ways : path # building => chains'[path] = chains[path]
  BY <1>4, <1>5, <1>8, <1>9
<1>11. back \in Seq(Nat)
  <2>1. Len(specs) \in Nat
    BY <1>5, LenProperties
  <2> QED
    BY <2>1, SelectedIs DEF back, Ways
<1>12. <<>> \in Seq(Nat)
  OBVIOUS
<1>13. Chained!Selected(specs, building) = Chained!Stages(flushed)
  <2>1. Chained!Selected(specs, building) = Joined(Chained!Stages(segments), Joined(draft, <<>>))
    BY <1>1, <1>3, <1>4, Zenon DEF InOrder, segments
  <2>2. Joined(draft, <<>>) = draft
    BY <1>5, ConcatEmptySeq DEF Joined
  <2> QED
    BY <1>8, <2>1, <2>2
<1>14. ChainTyped'
  <2>1. building' \in Ways \cup {"none"} /\ left' \in Seq(Nat) /\ draft' \in Seq(Nat)
    <3>1. left' \in Seq(Nat) /\ draft' \in Seq(Nat)
      BY <1>1, <1>2, <1>11, <1>12, Zenon
    <3> QED
      BY <1>2, <3>1 DEF Ways
  <2>2. building' = "none" => left' = <<>> /\ draft' = <<>>
    <3>1. "sink-to-source" # "none"
      OBVIOUS
    <3> QED
      BY <1>1, <1>2, <3>1, Zenon
  <2>3. specs' = specs /\ verdict' = verdict /\ datagram' = datagram /\ needs' = needs
    BY <1>1
  <2> QED
    BY <1>3, <1>10, <2>1, <2>2, <2>3, Zenon DEF ChainTyped
<1>15. Foreign' = Foreign /\ Alone' = Alone
  BY <1>1 DEF Foreign, Alone, Chained!Detached, Chained!Default
<1>16. \A path \in Ways : Tasks(chains'[path], Foreign, Alone)
  BY <1>3, <1>8, <1>10, Zenon DEF AsAsked
<1>17. Judged'
  BY <1>1 DEF Judged
<1>18. CASE building = "source-to-sink"
  <2>1. building' = "sink-to-source" /\ building' # "source-to-sink" /\ left' = back
    BY <1>2, <1>18
  <2>2. chains'["sink-to-source"] = <<>>
    <3>1. "sink-to-source" \in Ways /\ "sink-to-source" # building
      BY <1>18 DEF Ways
    <3> QED
      BY <1>3, <1>10, <1>18, <3>1, Zenon DEF InOrder
  <2>3. Joined(<<>>, Joined(<<>>, back)) = back
    BY <1>11, ConcatEmptySeq DEF Joined
  <2>4. back = Joined(Chained!Stages(chains'[building']), Joined(draft', left'))
    BY <1>1, <2>1, <2>2, <2>3, StagesOfNone, Zenon
  <2>5. ASSUME NEW path \in Ways, path # building'
        PROVE  Chained!Selected(specs, path) = Chained!Stages(chains'[path])
    <3>1. path = building
      BY <1>18, <2>1, <2>5 DEF Ways
    <3> QED
      BY <1>10, <1>13, <3>1, Zenon
  <2>6. Chained!Selected(specs, building') = back
    BY <2>1, Zenon DEF back
  <2>7. specs' = specs
    BY <1>1
  <2>8. InOrder'
    BY <2>1, <2>4, <2>5, <2>6, <2>7, Zenon DEF InOrder
  <2>9. Drafted(<<>>, <<>>, Foreign, Alone)
    <3>1. \A k \in DOMAIN <<>> : FALSE
      OBVIOUS
    <3> QED
      BY <3>1, Zenon DEF Drafted
  <2>10. AsAsked'
    BY <1>1, <1>15, <1>16, <2>1, <2>2, <2>9, Zenon DEF AsAsked
  <2> QED
    BY <1>14, <1>17, <2>8, <2>10 DEF ChainIInv
<1>19. CASE building = "sink-to-source"
  <2>1. building' = "none" /\ building' # "source-to-sink" /\ building # "source-to-sink"
    BY <1>2, <1>19
  <2>2. ASSUME NEW path \in Ways PROVE Chained!Selected(specs, path) = Chained!Stages(chains'[path])
    <3>1. path # building => Chained!Selected(specs, path) = Chained!Stages(chains[path])
      BY <1>3, <2>1, Zenon DEF InOrder
    <3> QED
      BY <1>10, <1>13, <3>1, Zenon
  <2>3. \A path \in Ways : building' # path
    BY <2>1 DEF Ways
  <2>4. specs' = specs
    BY <1>1
  <2>5. InOrder'
    BY <2>1, <2>2, <2>3, <2>4, Zenon DEF InOrder
  <2>6. AsAsked'
    BY <1>15, <1>16, <2>1, Zenon DEF AsAsked
  <2> QED
    BY <1>14, <1>17, <2>5, <2>6 DEF ChainIInv
<1> QED
  BY <1>4, <1>18, <1>19 DEF Ways

(* Relay::new looks at what stands, and says so only if nothing is unmet.  *)
LEMMA JudgesKeeps == ASSUME ChainIInv, Chained!Judges PROVE ChainIInv'
<1>1. /\ building = "none" /\ needs' \in Chained!PossibleNeeds
      /\ datagram' \in [{"source", "sink"} -> BOOLEAN]
      /\ UNCHANGED <<specs, building, left, draft, chains>>
  BY DEF Chained!Judges
<1>2. verdict' = IF \E path \in DOMAIN chains : Chained!Unmet(path, datagram', needs')
                 THEN "unmet" ELSE "ok"
  BY DEF Chained!Judges
<1>3. ChainTyped /\ InOrder /\ AsAsked
  BY DEF ChainIInv
<1>4. needs' \subseteq (DOMAIN specs) \X Chained!Sides
  BY <1>1 DEF Chained!PossibleNeeds
<1>5. ChainTyped'
  <2>1. verdict' \in {"none", "refused", "unmet", "ok"}
    BY <1>2
  <2>2. specs' = specs /\ building' = building /\ left' = left /\ draft' = draft /\ chains' = chains
    BY <1>1
  <2> QED
    BY <1>1, <1>3, <1>4, <2>1, <2>2, Zenon DEF ChainTyped
<1>6. InOrder'
  BY <1>1, <1>3 DEF InOrder
<1>7. Foreign' = Foreign /\ Alone' = Alone
  BY <1>1 DEF Foreign, Alone, Chained!Detached, Chained!Default
<1>8. AsAsked'
  BY <1>1, <1>3, <1>7, Zenon DEF AsAsked
<1>9. Judged'
  <2> SUFFICES ASSUME verdict' = "ok", NEW path \in Ways
               PROVE  ~Chained!Unmet(path, datagram, needs)'
    BY <1>1, Zenon DEF Judged
  <2>1. "unmet" # "ok"
    OBVIOUS
  <2>2. ~\E p \in DOMAIN chains : Chained!Unmet(p, datagram', needs')
    BY <1>2, <2>1, Zenon
  <2>3. DOMAIN chains = Ways
    BY <1>3 DEF ChainTyped
  <2>4. ~Chained!Unmet(path, datagram', needs')
    BY <2>2, <2>3, Zenon
  <2>5. chains' = chains /\ specs' = specs
    BY <1>1
  <2> QED
    BY <2>4, <2>5 DEF Chained!Unmet, Chained!declarations
<1> QED
  BY <1>5, <1>6, <1>8, <1>9 DEF ChainIInv

(* Whatever the relay does with its chains.                                *)
LEMMA ChainStep == ASSUME ChainIInv, [AssemblyNext]_<<assembling, vars, chainVars>> PROVE ChainIInv'
<1>1. Chained!Next \/ UNCHANGED chainVars
  BY DEF AssemblyNext, chainVars
<1>2. CASE UNCHANGED chainVars
  <2>1. UNCHANGED <<specs, building, left, draft, chains, verdict, datagram, needs>>
    BY <1>2 DEF chainVars
  <2>2. ChainTyped /\ InOrder /\ AsAsked /\ Judged
    BY DEF ChainIInv
  <2>3. ChainTyped'
    BY <2>1, <2>2 DEF ChainTyped
  <2>4. InOrder'
    BY <2>1, <2>2 DEF InOrder
  <2>5. Foreign' = Foreign /\ Alone' = Alone
    BY <2>1 DEF Foreign, Alone, Chained!Detached, Chained!Default
  <2>6. AsAsked'
    BY <2>1, <2>2, <2>5, Zenon DEF AsAsked
  <2>7. Judged'
    <3>1. \A path \in Ways : Chained!Unmet(path, datagram, needs)' <=> Chained!Unmet(path, datagram, needs)
      BY <2>1 DEF Chained!Unmet, Chained!declarations
    <3> QED
      BY <2>1, <2>2, <3>1, Zenon DEF Judged
  <2> QED
    BY <2>3, <2>4, <2>6, <2>7 DEF ChainIInv
<1>3. CASE Chained!Next
  BY <1>3, TakesFilterKeeps, TakesExternalKeeps, RefusesExternalKeeps, EndsChainKeeps, JudgesKeeps
  DEF Chained!Next
<1> QED
  BY <1>1, <1>2, <1>3

(* So it is always.                                                        *)
LEMMA ChainHolds == AssemblySpec => []ChainIInv
<1>1. AssemblyInit => ChainIInv
  BY ChainInit DEF AssemblyInit
<1>2. ChainIInv /\ [AssemblyNext]_<<assembling, vars, chainVars>> => ChainIInv'
  BY ChainStep
<1> QED
  BY <1>1, <1>2, PTL DEF AssemblySpec

(* What is in sequences is in them laid together.                          *)
LEMMA InJoined ==
  ASSUME NEW S, NEW a \in Seq(S), NEW b \in Seq(S), NEW X,
         \A i \in 1..Len(Joined(a, b)) : Joined(a, b)[i] \in X
  PROVE  /\ \A i \in 1..Len(a) : a[i] \in X
         /\ \A i \in 1..Len(b) : b[i] \in X
<1> DEFINE m == Len(a)
           n == Len(b)
           c == Joined(a, b)
<1>1. /\ c \in Seq(S) /\ Len(c) = m + n
      /\ \A i \in 1..(m + n) : c[i] = IF i <= m THEN a[i] ELSE b[i - m]
  BY ConcatProperties DEF Joined
<1>2. m \in Nat /\ n \in Nat
  BY LenProperties
<1>3. \A i \in 1..(m + n) : c[i] \in X
  BY <1>1
<1> HIDE DEF m, n, c
<1>4. \A i \in 1..m : a[i] \in X
  <2> TAKE i \in 1..m
  <2>1. i \in 1..(m + n) /\ i <= m
    BY <1>2
  <2> QED
    BY <1>1, <1>3, <2>1, Zenon
<1>5. \A i \in 1..n : b[i] \in X
  <2> TAKE i \in 1..n
  <2> DEFINE j == m + i
  <2>1. j \in 1..(m + n) /\ ~(j <= m) /\ j - m = i
    BY <1>2
  <2> HIDE DEF j
  <2>2. c[j] = b[j - m] /\ c[j] \in X
    BY <1>1, <1>3, <2>1, Zenon
  <2> QED
    BY <2>1, <2>2
<1> QED
  BY <1>4, <1>5 DEF m, n

(* Every stage that a chain holds, or is to hold, was declared.            *)
LEMMA Declared ==
  ASSUME ChainIInv
  PROVE  /\ DOMAIN specs = 1..Len(specs) /\ Len(specs) \in Nat
         /\ \A i \in 1..Len(left) : left[i] \in DOMAIN specs
         /\ \A i \in 1..Len(draft) : draft[i] \in DOMAIN specs
         /\ \A path \in Ways : \A i \in 1..Len(Chained!Stages(chains[path])) :
              Chained!Stages(chains[path])[i] \in DOMAIN specs
<1>1. ChainTyped /\ InOrder
  BY DEF ChainIInv
<1>2. /\ specs \in Seq(Chained!PluginSpec) /\ chains \in [Ways -> Seq(Segment)]
      /\ building \in Ways \cup {"none"} /\ left \in Seq(Nat) /\ draft \in Seq(Nat)
      /\ building = "none" => left = <<>> /\ draft = <<>>
  BY <1>1 DEF ChainTyped
<1>3. DOMAIN specs = 1..Len(specs) /\ Len(specs) \in Nat
  BY <1>2, LenProperties
<1>4. \A path \in Ways : Chained!Stages(chains[path]) \in Seq(Nat)
  <2> TAKE path \in Ways
  <2>1. chains[path] \in Seq(Segment)
    BY <1>2
  <2> QED
    BY <2>1, StagesAre
<1>5. \A i \in 1..Len(<<>>) : FALSE
  OBVIOUS
<1>6. \A path \in Ways : \A i \in 1..Len(Chained!Selected(specs, path)) :
        Chained!Selected(specs, path)[i] \in DOMAIN specs
  <2> TAKE path \in Ways
  <2>1. \A i \in 1..Len(Chained!Selected(specs, path)) :
          Chained!Selected(specs, path)[i] \in 1..Len(specs)
    BY <1>3, SelectedIs
  <2> QED
    BY <1>3, <2>1, Zenon
<1>7. ASSUME building \in Ways
      PROVE  /\ \A i \in 1..Len(left) : left[i] \in DOMAIN specs
             /\ \A i \in 1..Len(draft) : draft[i] \in DOMAIN specs
             /\ \A i \in 1..Len(Chained!Stages(chains[building])) :
                  Chained!Stages(chains[building])[i] \in DOMAIN specs
  <2> DEFINE before == Chained!Stages(chains[building])
             X == DOMAIN specs
             S == Nat
  <2>1. Chained!Selected(specs, building) = Joined(before, Joined(draft, left))
    BY <1>1, <1>7, Zenon DEF InOrder
  <2>2. before \in Seq(S) /\ draft \in Seq(S) /\ left \in Seq(S)
    BY <1>2, <1>4, <1>7
  <2>3. \A i \in 1..Len(Chained!Selected(specs, building)) :
          Chained!Selected(specs, building)[i] \in X
    BY <1>6, <1>7
  <2> HIDE DEF before, X, S
  <2>4. Joined(draft, left) \in Seq(S)
    BY <2>2, ConcatProperties DEF Joined
  <2>5. \A i \in 1..Len(Joined(before, Joined(draft, left))) :
          Joined(before, Joined(draft, left))[i] \in X
    BY <2>1, <2>3, Zenon
  <2>6. /\ \A i \in 1..Len(before) : before[i] \in X
        /\ \A i \in 1..Len(Joined(draft, left)) : Joined(draft, left)[i] \in X
    BY <2>2, <2>4, <2>5, InJoined
  <2>7. /\ \A i \in 1..Len(draft) : draft[i] \in X
        /\ \A i \in 1..Len(left) : left[i] \in X
    BY <2>2, <2>6, InJoined
  <2> QED
    BY <2>6, <2>7 DEF before, X
<1>8. building \in Ways \/ (building = "none" /\ left = <<>> /\ draft = <<>>)
  BY <1>2
<1>9. /\ \A i \in 1..Len(left) : left[i] \in DOMAIN specs
      /\ \A i \in 1..Len(draft) : draft[i] \in DOMAIN specs
  BY <1>5, <1>7, <1>8, Zenon
<1>10. ASSUME NEW path \in Ways
       PROVE  \A i \in 1..Len(Chained!Stages(chains[path])) :
                Chained!Stages(chains[path])[i] \in DOMAIN specs
  <2>1. CASE building = path
    BY <1>7, <2>1
  <2>2. CASE building # path /\ building # "source-to-sink"
    <3>1. Chained!Selected(specs, path) = Chained!Stages(chains[path])
      BY <1>1, <2>2, Zenon DEF InOrder
    <3> QED
      BY <1>6, <3>1, Zenon
  <2>3. CASE building # path /\ building = "source-to-sink"
    <3>1. path = "sink-to-source"
      BY <2>3 DEF Ways
    <3>2. Chained!Stages(chains[path]) = <<>>
      BY <1>1, <2>3, <3>1, StagesOfNone, Zenon DEF InOrder
    <3> QED
      BY <1>5, <3>2, Zenon
  <2> QED
    BY <2>1, <2>2, <2>3
<1> QED
  BY <1>3, <1>9, <1>10

(* Registry::build (pipeline.rs): for every list of declarations, each     *)
(* stage of a path is in its chain once, in the order of declaration one   *)
(* way and the opposite one the other, and a segment is a task where it was*)
(* asked to be one.                                                        *)
THEOREM ChainsAreAsDeclared == AssemblySpec => []BuiltAsDeclared
<1>1. ASSUME ChainIInv PROVE BuiltAsDeclared
  <2>1. ChainTyped /\ InOrder /\ AsAsked
    BY <1>1 DEF ChainIInv
  <2>2. /\ chains \in [Ways -> Seq(Segment)] /\ building \in Ways \cup {"none"}
        /\ verdict \in {"none", "refused", "unmet", "ok"} /\ left \in Seq(Nat) /\ draft \in Seq(Nat)
        /\ needs \subseteq (DOMAIN specs) \X Chained!Sides
        /\ building = "none" => left = <<>> /\ draft = <<>>
    BY <2>1 DEF ChainTyped
  <2>3. DOMAIN chains = Ways
    BY <2>2
  <2>4. /\ DOMAIN specs = 1..Len(specs) /\ Len(specs) \in Nat
        /\ \A i \in 1..Len(left) : left[i] \in DOMAIN specs
        /\ \A i \in 1..Len(draft) : draft[i] \in DOMAIN specs
        /\ \A path \in Ways : \A i \in 1..Len(Chained!Stages(chains[path])) :
             Chained!Stages(chains[path])[i] \in DOMAIN specs
    BY <1>1, Declared
  <2>5. \A s \in Seq(Nat) : DOMAIN s = 1..Len(s) /\ Chained!ToSet(s) = {s[i] : i \in 1..Len(s)}
    BY LenProperties DEF Chained!ToSet
  <2>5a. \A s \in Seq(Nat) : \A x \in Chained!ToSet(s) : \E i \in 1..Len(s) : s[i] = x
    BY <2>5
  <2>6. \A path \in Ways : Chained!Stages(chains[path]) \in Seq(Nat)
    <3> TAKE path \in Ways
    <3>1. chains[path] \in Seq(Segment)
      BY <2>2
    <3> QED
      BY <3>1, StagesAre
  <2>7. Chained!TypeOK
    <3>1. \A i \in Chained!ToSet(left) \cup Chained!ToSet(draft) : i \in DOMAIN specs
      <4>1. \A i \in Chained!ToSet(left) : i \in DOMAIN specs
        BY <2>2, <2>4, <2>5a, Zenon
      <4>2. \A i \in Chained!ToSet(draft) : i \in DOMAIN specs
        BY <2>2, <2>4, <2>5a, Zenon
      <4> QED
        BY <4>1, <4>2, Zenon
    <3>2. \A path \in DOMAIN chains : Chained!ToSet(Chained!Stages(chains[path])) \subseteq DOMAIN specs
      <4> TAKE path \in DOMAIN chains
      <4> DEFINE t == Chained!Stages(chains[path])
      <4>1. t \in Seq(Nat) /\ \A i \in 1..Len(t) : t[i] \in DOMAIN specs
        BY <2>3, <2>4, <2>6, Zenon
      <4> HIDE DEF t
      <4>2. \A x \in Chained!ToSet(t) : x \in DOMAIN specs
        BY <2>5a, <4>1, Zenon
      <4> QED
        BY <4>2, Zenon DEF t
    <3>3. building \in {"source-to-sink", "sink-to-source", "none"}
      BY <2>2 DEF Ways
    <3> QED
      BY <2>2, <3>1, <3>2, <3>3, Zenon DEF Chained!TypeOK
  <2>8. Chained!Nests
    <3> SUFFICES ASSUME Chained!Built, NEW path \in DOMAIN chains
                 PROVE  /\ Chained!ToSet(Chained!Stages(chains[path])) =
                             {i \in DOMAIN specs : Chained!contains(specs[i].direction, path)}
                        /\ \A j, k \in DOMAIN Chained!Stages(chains[path]) :
                             j < k => IF path = "source-to-sink"
                                      THEN Chained!Stages(chains[path])[j] < Chained!Stages(chains[path])[k]
                                      ELSE Chained!Stages(chains[path])[j] > Chained!Stages(chains[path])[k]
      BY Zenon DEF Chained!Nests
    <3> DEFINE s == Chained!Stages(chains[path])
               on(x) == Chained!contains(specs[x].direction, path)
    <3>1. path \in Ways
      BY <2>3
    <3>2. building = "none" /\ building # path /\ building # "source-to-sink"
      BY <3>1 DEF Chained!Built, Ways
    <3>3. Chained!Selected(specs, path) = s
      BY <2>1, <3>1, <3>2, Zenon DEF InOrder
    <3>4. /\ \A i \in 1..Len(s) : s[i] \in 1..Len(specs) /\ on(s[i])
          /\ \A x \in 1..Len(specs) : on(x) => \E i \in 1..Len(s) : s[i] = x
          /\ \A i, j \in 1..Len(s) :
               i < j => IF path = "source-to-sink" THEN s[i] < s[j] ELSE s[i] > s[j]
      <4> DEFINE sel == Chained!Selected(specs, path)
      <4>1. /\ \A i \in 1..Len(sel) : sel[i] \in 1..Len(specs) /\ on(sel[i])
            /\ \A x \in 1..Len(specs) : on(x) => \E i \in 1..Len(sel) : sel[i] = x
            /\ \A i, j \in 1..Len(sel) :
                 i < j => IF path = "source-to-sink" THEN sel[i] < sel[j] ELSE sel[i] > sel[j]
        <5>1. Len(specs) \in Nat
          BY <2>4
        <5> HIDE DEF on
        <5>2. /\ \A i \in 1..Len(sel) : /\ sel[i] \in 1..Len(specs)
                                        /\ Chained!contains(specs[sel[i]].direction, path)
              /\ \A x \in 1..Len(specs) :
                   Chained!contains(specs[x].direction, path) => \E i \in 1..Len(sel) : sel[i] = x
              /\ \A i, j \in 1..Len(sel) :
                   i < j => IF path = "source-to-sink" THEN sel[i] < sel[j] ELSE sel[i] > sel[j]
          BY <3>1, <5>1, SelectedIs
        <5> HIDE DEF sel
        <5> QED
          BY <5>2, Zenon DEF on
      <4>2. sel = s
        BY <3>3
      <4> HIDE DEF sel, s, on
      <4> QED
        BY <4>1, <4>2
    <3>5. s \in Seq(Nat) /\ DOMAIN s = 1..Len(s) /\ Chained!ToSet(s) = {s[i] : i \in 1..Len(s)}
      BY <2>5, <2>6, <3>1, Zenon
    <3> HIDE DEF s, on
    <3>6. Chained!ToSet(s) = {i \in DOMAIN specs : on(i)}
      BY <2>4, <3>4, <3>5, Zenon
    <3> QED
      BY <3>4, <3>5, <3>6, Zenon DEF s, on
  <2>9. Chained!TasksWhereAsked
    <3> SUFFICES ASSUME NEW path \in DOMAIN chains, NEW k \in DOMAIN chains[path]
                 PROVE  IF chains[path][k].kind = "process"
                        THEN specs[chains[path][k].stages[1]].makes = "external"
                        ELSE /\ chains[path][k].stages # <<>>
                             /\ \A j \in DOMAIN chains[path][k].stages :
                                  /\ specs[chains[path][k].stages[j]].makes # "external"
                                  /\ j > 1 => ~Chained!Detached(chains[path][k].stages[j])
                             /\ k > 1 /\ chains[path][k - 1].kind = "inline" =>
                                  Chained!Detached(chains[path][k].stages[1])
      BY Zenon DEF Chained!TasksWhereAsked
    <3> DEFINE segments == chains[path]
               s == segments[k].stages
    <3>1. segments \in Seq(Segment) /\ Tasks(segments, Foreign, Alone)
      BY <2>1, <2>2, <2>3, Zenon DEF AsAsked
    <3>2. /\ segments[k].kind = "process" => s[1] \in Foreign
          /\ segments[k].kind # "process" =>
               /\ s # <<>>
               /\ \A j \in DOMAIN s : s[j] \notin Foreign /\ (j > 1 => s[j] \notin Alone)
               /\ k > 1 /\ segments[k - 1].kind = "inline" => s[1] \in Alone
      BY <3>1, Zenon DEF Tasks
    <3>3. s \in Seq(Nat)
      <4>1. segments[k] \in Segment
        BY <3>1, ElementOfSeq, LenProperties
      <4> QED
        BY <4>1 DEF Segment
    <3> HIDE DEF s, segments
    <3>4. \A j \in DOMAIN s : s[j] \in Nat
      BY <3>3, ElementOfSeq, LenProperties
    <3>5. \A i \in Nat : (i \in Foreign <=> specs[i].makes = "external") /\ (i \in Alone <=> Chained!Detached(i))
      BY Zenon DEF Foreign, Alone
    <3>6. \A i : i \in Foreign => specs[i].makes = "external"
      BY DEF Foreign
    <3>7. \A i : i \in Alone => Chained!Detached(i)
      BY DEF Alone
    <3>8. \A j \in DOMAIN s : s[j] \notin Foreign => specs[s[j]].makes # "external"
      BY <3>4, <3>5, Zenon
    <3>9. \A j \in DOMAIN s : s[j] \notin Alone => ~Chained!Detached(s[j])
      BY <3>4, <3>5, Zenon
    <3> QED
      BY <3>2, <3>6, <3>7, <3>8, <3>9, Zenon DEF s, segments
  <2> QED
    BY <2>7, <2>8, <2>9 DEF BuiltAsDeclared, Chained!BuiltAsDeclared
<1> QED
  BY <1>1, ChainHolds, PTL

(***************************************************************************)
(* The scan over a chain.                                                  *)
(***************************************************************************)
(* The first position of a walk that settles the question, if there is one.*)
LEMMA SettlesIs ==
  ASSUME NEW decl, NEW walk, Len(walk) \in Nat, NEW passing
  PROVE  \/ /\ Chained!Settles(decl, walk, passing) = 0
            /\ \A i \in 1..Len(walk) : decl[walk[i]] \in passing
         \/ \E i \in 1..Len(walk) :
              /\ Chained!Settles(decl, walk, passing) = walk[i]
              /\ decl[walk[i]] \notin passing
              /\ \A j \in 1..Len(walk) : j < i => decl[walk[j]] \in passing
<1> DEFINE I  == {i \in 1..Len(walk) : decl[walk[i]] \notin passing}
           at == IF I # {} THEN CHOOSE x \in I : \A y \in I : x <= y ELSE 0
<1>1. Chained!Settles(decl, walk, passing) = IF at = 0 THEN 0 ELSE walk[at]
  BY DEF Chained!Settles, Chained!SelectInSeq, Chained!Min
<1>2. CASE I = {}
  BY <1>1, <1>2
<1>3. CASE I # {}
  <2>1. I \subseteq Nat
    OBVIOUS
  <2>2. \E x \in I : \A y \in I : x <= y
    BY <1>3, <2>1, Least
  <2>3. at \in I /\ \A y \in I : at <= y
    <3> HIDE DEF I
    <3> QED
      BY <1>3, <2>2
  <2> HIDE DEF at
  <2>4. at \in 1..Len(walk) /\ decl[walk[at]] \notin passing
    BY <2>3
  <2>5. \A j \in 1..Len(walk) : j < at => decl[walk[j]] \in passing
    BY <2>3, <2>4
  <2>6. at # 0
    BY <2>4
  <2> QED
    BY <1>1, <2>4, <2>5, <2>6, Zenon
<1> QED
  BY <1>2, <1>3

(* Downstream it is the first stage that does not preserve, if any, that   *)
(* is looked at.                                                           *)
LEMMA DownwardsIs ==
  ASSUME NEW decl, Len(decl) \in Nat, NEW k \in 1..Len(decl), NEW carries \in BOOLEAN
  PROVE  \/ /\ \A i \in (k + 1)..Len(decl) : decl[i] = "preserve"
            /\ Chained!FaultDownstream(decl, k, carries) <=> ~carries
         \/ \E j \in (k + 1)..Len(decl) :
              /\ decl[j] # "preserve" /\ \A i \in (k + 1)..(j - 1) : decl[i] = "preserve"
              /\ Chained!FaultDownstream(decl, k, carries) <=> decl[j] # "seal"
<1> DEFINE n    == Len(decl)
           walk == [j \in 1..(n - k) |-> k + j]
           at   == Chained!Settles(decl, walk, {"preserve"})
<1>1. n \in Nat /\ k \in 1..n
  OBVIOUS
<1>2. Chained!FaultDownstream(decl, k, carries) <=>
        IF at = 0 THEN ~carries ELSE decl[at] \notin {"seal"}
  BY DEF Chained!FaultDownstream, Chained!Below, Chained!passes_downstream,
         Chained!satisfies_downstream
<1> HIDE DEF n
<1>3. Len(walk) = n - k /\ Len(walk) \in Nat /\ \A i \in 1..Len(walk) : walk[i] = k + i
  BY <1>1
<1> HIDE DEF walk
<1>4. \/ at = 0 /\ \A i \in 1..Len(walk) : decl[walk[i]] \in {"preserve"}
      \/ \E i \in 1..Len(walk) :
           /\ at = walk[i]
           /\ decl[walk[i]] \notin {"preserve"}
           /\ \A j \in 1..Len(walk) : j < i => decl[walk[j]] \in {"preserve"}
  BY <1>3, SettlesIs
<1> HIDE DEF at
<1>5. CASE at = 0 /\ \A i \in 1..Len(walk) : decl[walk[i]] \in {"preserve"}
  <2>1. \A i \in (k + 1)..n : decl[i] = "preserve"
    <3> TAKE i \in (k + 1)..n
    <3> DEFINE j == i - k
    <3>1. j \in 1..Len(walk) /\ k + j = i
      BY <1>1, <1>3
    <3> HIDE DEF j
    <3>2. walk[j] = i
      BY <1>3, <3>1
    <3> QED
      BY <1>5, <3>1, <3>2
  <2> QED
    BY <1>2, <1>5, <2>1 DEF n
<1>6. ASSUME NEW i \in 1..Len(walk), at = walk[i],
             decl[walk[i]] \notin {"preserve"},
             \A j \in 1..Len(walk) : j < i => decl[walk[j]] \in {"preserve"}
      PROVE  \E j \in (k + 1)..n :
              /\ decl[j] # "preserve" /\ \A x \in (k + 1)..(j - 1) : decl[x] = "preserve"
              /\ Chained!FaultDownstream(decl, k, carries) <=> decl[j] # "seal"
  <2>1. at = k + i /\ at # 0 /\ walk[i] = at
    BY <1>1, <1>3, <1>6
  <2>2. at \in (k + 1)..n
    BY <1>1, <1>3, <2>1
  <2>3. \A x \in (k + 1)..(at - 1) : decl[x] = "preserve"
    <3> TAKE x \in (k + 1)..(at - 1)
    <3> DEFINE j == x - k
    <3>1. j \in 1..Len(walk) /\ k + j = x /\ j < i
      BY <1>1, <1>3, <2>1
    <3> HIDE DEF j
    <3>2. walk[j] = x
      BY <1>3, <3>1
    <3> QED
      BY <1>6, <3>1, <3>2
  <2>4. decl[at] # "preserve"
    BY <1>6, <2>1
  <2>5. Chained!FaultDownstream(decl, k, carries) <=> decl[at] # "seal"
    BY <1>2, <2>1
  <2> QED
    BY <2>2, <2>3, <2>4, <2>5, Zenon
<1> QED
  BY <1>4, <1>5, <1>6, Zenon DEF n

(* Upstream it is the last before it that neither preserves nor seals.     *)
LEMMA UpwardsIs ==
  ASSUME NEW decl, Len(decl) \in Nat, NEW k \in 1..Len(decl), NEW carries \in BOOLEAN
  PROVE  \/ /\ \A i \in 1..(k - 1) : decl[i] \in {"preserve", "seal"}
            /\ Chained!FaultUpstream(decl, k, carries) <=> ~carries
         \/ \E j \in 1..(k - 1) :
              /\ decl[j] \notin {"preserve", "seal"}
              /\ \A i \in (j + 1)..(k - 1) : decl[i] \in {"preserve", "seal"}
              /\ Chained!FaultUpstream(decl, k, carries) <=> decl[j] # "split"
<1> DEFINE walk == [j \in 1..(k - 1) |-> k - j]
           at   == Chained!Settles(decl, walk, {"preserve", "seal"})
<1>1. k \in Nat /\ k >= 1
  OBVIOUS
<1>2. Chained!FaultUpstream(decl, k, carries) <=>
        IF at = 0 THEN ~carries ELSE decl[at] \notin {"split"}
  BY DEF Chained!FaultUpstream, Chained!Above, Chained!passes_upstream,
         Chained!satisfies_upstream
<1>3. Len(walk) = k - 1 /\ Len(walk) \in Nat /\ \A i \in 1..Len(walk) : walk[i] = k - i
  BY <1>1
<1> HIDE DEF walk
<1> DEFINE P == {"preserve", "seal"}
<1> HIDE DEF P
<1>4. \/ at = 0 /\ \A i \in 1..Len(walk) : decl[walk[i]] \in P
      \/ \E i \in 1..Len(walk) :
           /\ at = walk[i]
           /\ decl[walk[i]] \notin P
           /\ \A j \in 1..Len(walk) : j < i => decl[walk[j]] \in P
  BY <1>3, SettlesIs DEF P
<1> HIDE DEF at
<1>5. CASE at = 0 /\ \A i \in 1..Len(walk) : decl[walk[i]] \in P
  <2>1. \A i \in 1..(k - 1) : decl[i] \in P
    <3> TAKE i \in 1..(k - 1)
    <3> DEFINE j == k - i
    <3>1. j \in 1..Len(walk) /\ k - j = i
      BY <1>1, <1>3
    <3> HIDE DEF j
    <3>2. walk[j] = i
      BY <1>3, <3>1
    <3> QED
      BY <1>5, <3>1, <3>2
  <2> QED
    BY <1>2, <1>5, <2>1 DEF P
<1>6. ASSUME NEW i \in 1..Len(walk), at = walk[i],
             decl[walk[i]] \notin P,
             \A j \in 1..Len(walk) : j < i => decl[walk[j]] \in P
      PROVE  \E j \in 1..(k - 1) :
              /\ decl[j] \notin P /\ \A x \in (j + 1)..(k - 1) : decl[x] \in P
              /\ Chained!FaultUpstream(decl, k, carries) <=> decl[j] # "split"
  <2>1. at = k - i /\ at # 0 /\ walk[i] = at
    BY <1>1, <1>3, <1>6
  <2>2. at \in 1..(k - 1)
    BY <1>1, <1>3, <2>1
  <2>3. \A x \in (at + 1)..(k - 1) : decl[x] \in P
    <3> TAKE x \in (at + 1)..(k - 1)
    <3> DEFINE j == k - x
    <3>1. j \in 1..Len(walk) /\ k - j = x /\ j < i
      BY <1>1, <1>3, <2>1
    <3> HIDE DEF j
    <3>2. walk[j] = x
      BY <1>3, <3>1
    <3> QED
      BY <1>6, <3>1, <3>2
  <2>4. decl[at] \notin P
    BY <1>6, <2>1
  <2>5. Chained!FaultUpstream(decl, k, carries) <=> decl[at] # "split"
    BY <1>2, <2>1
  <2> QED
    BY <2>2, <2>3, <2>4, <2>5, Zenon
<1> QED
  BY <1>4, <1>5, <1>6, Zenon DEF P

(***************************************************************************)
(* What may be behind a run of stages.                                     *)
(***************************************************************************)
Parcel == [units : Chained!Cuttings, message : Chained!Cuttings, seals : SUBSET Chained!Cuttings]

(* f[k] is what may be behind stage k of what may be behind stage a.       *)
Reaches(f, decl, a, b, start) ==
  f = [k \in a..b |-> IF k = a THEN start ELSE UNION {Chained!Through(decl[k], p) : p \in f[k - 1]}]

(* There is such a function, however many stages there are.                *)
LEMMA ReachesExist ==
  ASSUME NEW decl, NEW a \in Nat, NEW start
  PROVE  \A m \in Nat : \E f : Reaches(f, decl, a, a + m, start)
<1> DEFINE S == {m \in Nat : \E f : Reaches(f, decl, a, a + m, start)}
           next(k, before) == UNION {Chained!Through(decl[k], p) : p \in before}
<1>1. 0 \in S
  <2> DEFINE f == [i \in a..(a + 0) |-> start]
  <2>1. \A i \in a..(a + 0) : i = a
    OBVIOUS
  <2>2. Reaches(f, decl, a, a + 0, start)
    BY <2>1 DEF Reaches
  <2> QED
    BY <2>2
<1>2. ASSUME NEW m \in Nat, m \in S PROVE m + 1 \in S
  <2> DEFINE b == a + m
             e == a + (m + 1)
  <2>1. PICK f : Reaches(f, decl, a, b, start)
    BY <1>2
  <2>2. f = [i \in a..b |-> IF i = a THEN start ELSE next(i, f[i - 1])]
    BY <2>1 DEF Reaches
  <2>3. b \in Nat /\ e \in Nat /\ e = b + 1 /\ a <= b /\ e # a
    OBVIOUS
  <2> HIDE DEF next, b, e
  <2> DEFINE g == [i \in a..e |-> IF i <= b THEN f[i] ELSE next(e, f[b])]
  <2>4. ASSUME NEW i \in a..e
        PROVE  g[i] = IF i = a THEN start ELSE next(i, g[i - 1])
    <3>1. CASE i = a
      <4>1. f[a] = start
        BY <2>2, <2>3
      <4> QED
        BY <2>3, <3>1, <4>1
    <3>2. CASE i # a /\ i <= b
      <4>1. f[i] = next(i, f[i - 1])
        BY <2>2, <2>3, <3>2
      <4>2. i - 1 \in a..e /\ i - 1 <= b
        BY <2>3, <3>2
      <4> QED
        BY <3>2, <4>1, <4>2
    <3>3. CASE i = e
      <4>1. i - 1 = b /\ b \in a..e /\ ~(i <= b) /\ i # a
        BY <2>3, <3>3
      <4> QED
        BY <3>3, <4>1
    <3>4. i <= b \/ i = e
      BY <2>3
    <3> QED
      BY <3>1, <3>2, <3>3, <3>4
  <2>5. g = [i \in a..e |-> g[i]]
    OBVIOUS
  <2> HIDE DEF g
  <2>6. g = [i \in a..e |-> IF i = a THEN start ELSE next(i, g[i - 1])]
    BY <2>4, <2>5
  <2>7. Reaches(g, decl, a, e, start)
    BY <2>6 DEF Reaches, next
  <2> QED
    BY <2>7 DEF e
<1> HIDE DEF S
<1>3. \A m \in Nat : m \in S
  BY <1>1, <1>2, Induct
<1> QED
  BY <1>3 DEF S

(* What is behind stages a + 1 .. b, stage by stage.                       *)
Onwards(f, decl, a, b) ==
  \A k \in (a + 1)..b : f[k] = UNION {Chained!Through(decl[k], p) : p \in f[k - 1]}

(* Reach is what stages from .. b, behind a, make of the start.            *)
Reached(decl, from, a, b, start) ==
  \E f : /\ f[a] = start /\ Onwards(f, decl, a, b)
         /\ Chained!Reach(decl, from, b, start) = f[b]

(* It is so, stage behind stage.                                           *)
LEMMA ReachIs ==
  ASSUME NEW decl, NEW a \in Nat, NEW b \in Nat, a <= b, NEW start, NEW from, from = a + 1
  PROVE  Reached(decl, from, a, b, start)
<1> DEFINE P(f) == f = [k \in (from - 1)..b |->
                          IF k = from - 1 THEN start
                          ELSE UNION {Chained!Through(decl[k], p) : p \in f[k - 1]}]
           C    == CHOOSE f : P(f)
<1>1. Chained!Reach(decl, from, b, start) = C[b]
  BY DEF Chained!Reach
<1>2. from - 1 = a
  OBVIOUS
<1>3. \A f : P(f) <=> Reaches(f, decl, a, b, start)
  BY <1>2, Zenon DEF Reaches
<1>4. \E f : P(f)
  <2>1. b - a \in Nat /\ a + (b - a) = b
    OBVIOUS
  <2>2. \E f : Reaches(f, decl, a, a + (b - a), start)
    BY <2>1, ReachesExist
  <2> QED
    BY <1>3, <2>1, <2>2, Zenon
<1>5. P(C)
  <2> HIDE DEF P
  <2> QED
    BY <1>4
<1>6. Reaches(C, decl, a, b, start)
  BY <1>3, <1>5
<1> HIDE DEF P, C
<1>7. C[a] = start
  BY <1>6 DEF Reaches
<1>8. Onwards(C, decl, a, b)
  <2>1. \A k \in (a + 1)..b : k \in a..b /\ k # a
    OBVIOUS
  <2>2. \A k \in a..b :
          C[k] = IF k = a THEN start ELSE UNION {Chained!Through(decl[k], p) : p \in C[k - 1]}
    BY <1>6, Zenon DEF Reaches
  <2> QED
    BY <2>1, <2>2, Zenon DEF Onwards
<1> QED
  BY <1>1, <1>7, <1>8, Zenon DEF Reached

(* Stages a + 1 .. b keep to X, all of it or some.                         *)
KeepsAll(decl, a, b, X)  ==
  \A k \in (a + 1)..b : \A p \in X : Chained!Through(decl[k], p) \subseteq X
KeepsSome(decl, a, b, X) ==
  \A k \in (a + 1)..b : \A p \in X : \E q \in Chained!Through(decl[k], p) : q \in X

(* What every stage of a run keeps to X is in X behind them.               *)
LEMMA AllKept ==
  ASSUME NEW f, NEW decl, NEW a \in Nat, NEW b \in Nat, a <= b, Onwards(f, decl, a, b),
         NEW X, f[a] \subseteq X, KeepsAll(decl, a, b, X)
  PROVE  f[b] \subseteq X
<1> DEFINE S == {m \in Nat : a + m <= b => f[a + m] \subseteq X}
<1>1. 0 \in S
  BY a + 0 = a
<1>2. ASSUME NEW m \in Nat, m \in S PROVE m + 1 \in S
  <2> DEFINE k == a + (m + 1)
  <2> SUFFICES ASSUME k <= b PROVE f[k] \subseteq X
    OBVIOUS
  <2>1. k \in (a + 1)..b /\ k - 1 = a + m /\ a + m <= b
    OBVIOUS
  <2>2. f[k - 1] \subseteq X
    BY <1>2, <2>1
  <2> HIDE DEF k, S
  <2>3. f[k] = UNION {Chained!Through(decl[k], p) : p \in f[k - 1]}
    BY <2>1, Zenon DEF Onwards
  <2>4. \A p \in X : Chained!Through(decl[k], p) \subseteq X
    BY <2>1, Zenon DEF KeepsAll
  <2> QED
    BY <2>2, <2>3, <2>4, Zenon
<1> HIDE DEF S
<1>3. \A m \in Nat : m \in S
  BY <1>1, <1>2, Induct
<1>4. b - a \in Nat /\ a + (b - a) = b /\ b <= b
  OBVIOUS
<1>5. b - a \in S
  BY <1>3, <1>4
<1> QED
  BY <1>4, <1>5 DEF S

(* What every stage of a run may leave in X may be in X behind them.       *)
LEMMA SomeKept ==
  ASSUME NEW f, NEW decl, NEW a \in Nat, NEW b \in Nat, a <= b, Onwards(f, decl, a, b),
         NEW X, \E p \in f[a] : p \in X, KeepsSome(decl, a, b, X)
  PROVE  \E p \in f[b] : p \in X
<1> DEFINE S == {m \in Nat : a + m <= b => \E p \in f[a + m] : p \in X}
<1>1. 0 \in S
  BY a + 0 = a
<1>2. ASSUME NEW m \in Nat, m \in S PROVE m + 1 \in S
  <2> DEFINE k == a + (m + 1)
  <2> SUFFICES ASSUME k <= b PROVE \E p \in f[k] : p \in X
    OBVIOUS
  <2>1. k \in (a + 1)..b /\ k - 1 = a + m /\ a + m <= b
    OBVIOUS
  <2>2. \E p \in f[k - 1] : p \in X
    BY <1>2, <2>1
  <2> HIDE DEF k, S
  <2>3. f[k] = UNION {Chained!Through(decl[k], p) : p \in f[k - 1]}
    BY <2>1, Zenon DEF Onwards
  <2>4. \A p \in X : \E q \in Chained!Through(decl[k], p) : q \in X
    BY <2>1, Zenon DEF KeepsSome
  <2> QED
    BY <2>2, <2>3, <2>4, Zenon
<1> HIDE DEF S
<1>3. \A m \in Nat : m \in S
  BY <1>1, <1>2, Induct
<1>4. b - a \in Nat /\ a + (b - a) = b /\ b <= b
  OBVIOUS
<1>5. b - a \in S
  BY <1>3, <1>4
<1> QED
  BY <1>4, <1>5 DEF S

(* What a stage makes of a parcel, by what it declares.                    *)
LEMMA ThroughIs ==
  ASSUME NEW b \in Chained!Boundaries, NEW p \in Parcel
  PROVE  /\ Chained!Through(b, p) \subseteq Parcel
         /\ b = "preserve" => Chained!Through(b, p) = {p}
         /\ b = "seal" => /\ \A q \in Chained!Through(b, p) :
                               /\ q.units = p.units /\ q.message = p.message
                               /\ q.seals = p.seals \cup {p.units}
                          /\ \E q \in Chained!Through(b, p) : TRUE
         /\ b = "fuse" => \A c \in Chained!Cuttings : \E q \in Chained!Through(b, p) :
                            q.units = c /\ q.message = p.message /\ q.seals = p.seals
         /\ b = "split" => /\ \A q \in Chained!Through(b, p) : q.units = q.message
                           /\ \A c \in Chained!Cuttings : \E q \in Chained!Through(b, p) :
                                q.units = c /\ q.message = c /\ q.seals = p.seals
         /\ \A q \in Chained!Through(b, p) : p.seals \subseteq q.seals
<1>1. CASE b = "preserve"
  <2>1. Chained!Through(b, p) = {p}
    BY <1>1 DEF Chained!Through
  <2> QED
    BY <1>1, <2>1
<1>2. CASE b = "seal"
  <2> DEFINE q == [p EXCEPT !.seals = @ \cup {p.units}]
  <2>1. Chained!Through(b, p) = {q}
    BY <1>2 DEF Chained!Through
  <2>2. /\ q \in Parcel /\ q.units = p.units /\ q.message = p.message
        /\ q.seals = p.seals \cup {p.units}
    BY DEF Parcel
  <2> HIDE DEF q
  <2> QED
    BY <1>2, <2>1, <2>2
<1>3. CASE b = "fuse"
  <2> DEFINE q(c) == [p EXCEPT !.units = c]
  <2>1. Chained!Through(b, p) = {q(c) : c \in Chained!Cuttings}
    BY <1>3 DEF Chained!Through
  <2>2. \A c \in Chained!Cuttings : /\ q(c) \in Parcel /\ q(c).units = c
                                    /\ q(c).message = p.message /\ q(c).seals = p.seals
    BY DEF Parcel
  <2> HIDE DEF q
  <2>3. \A c \in Chained!Cuttings : q(c) \in Chained!Through(b, p)
    BY <2>1
  <2>4. \A x \in Chained!Through(b, p) : \E c \in Chained!Cuttings : x = q(c)
    BY <2>1
  <2> QED
    BY <1>3, <2>2, <2>3, <2>4
<1>4. CASE b = "split"
  <2> DEFINE q(c) == [p EXCEPT !.units = c, !.message = c]
  <2>1. Chained!Through(b, p) = {q(c) : c \in Chained!Cuttings}
    BY <1>4 DEF Chained!Through
  <2>2. \A c \in Chained!Cuttings : /\ q(c) \in Parcel /\ q(c).units = c
                                    /\ q(c).message = c /\ q(c).seals = p.seals
    BY DEF Parcel
  <2> HIDE DEF q
  <2>3. \A c \in Chained!Cuttings : q(c) \in Chained!Through(b, p)
    BY <2>1
  <2>4. \A x \in Chained!Through(b, p) : \E c \in Chained!Cuttings : x = q(c)
    BY <2>1
  <2> QED
    BY <1>4, <2>2, <2>3, <2>4
<1> QED
  BY <1>1, <1>2, <1>3, <1>4 DEF Chained!Boundaries

(* Units that stand for messages, and units that do not.                   *)
Wholes == {p \in Parcel : p.units = p.message}
Torn   == {p \in Parcel : p.units # p.message}

(* Units that are those emitted, others, others of which no seal tells what*)
(* was emitted, and what a seal tells it of.                               *)
Same(e)    == {p \in Parcel : p.units = e}
Others(e)  == {p \in Parcel : p.units # e}
Lost(e)    == {p \in Parcel : p.units # e /\ e \notin p.seals}
Written(e) == {p \in Parcel : e \in p.seals}

(* For each cutting there is the other.                                    *)
LEMMA OtherCut == ASSUME NEW e PROVE \E c \in Chained!Cuttings : c # e
<1>1. "whole" # "halves" /\ {"whole", "halves"} = Chained!Cuttings
  BY DEF Chained!Cuttings
<1> QED
  BY <1>1

(* Every stage passes something on.                                        *)
LEMMA SomeThrough ==
  ASSUME NEW b \in Chained!Boundaries, NEW p \in Parcel
  PROVE  \E q \in Chained!Through(b, p) : q \in Parcel
<1>1. p.units \in Chained!Cuttings
  BY DEF Parcel
<1>2. Chained!Through(b, p) \subseteq Parcel
  BY ThroughIs
<1>3. \E q \in Chained!Through(b, p) : TRUE
  <2>1. CASE b = "preserve"
    <3>1. Chained!Through(b, p) = {p}
      BY <2>1, ThroughIs
    <3> QED
      BY <3>1
  <2>2. CASE b = "seal"
    BY <2>2, ThroughIs
  <2>3. CASE b = "fuse"
    <3>1. \A c \in Chained!Cuttings : \E q \in Chained!Through(b, p) : q.units = c
      BY <2>3, ThroughIs
    <3> QED
      BY <1>1, <3>1
  <2>4. CASE b = "split"
    <3>1. \A c \in Chained!Cuttings : \E q \in Chained!Through(b, p) : q.units = c
      BY <2>4, ThroughIs
    <3> QED
      BY <1>1, <3>1
  <2> QED
    BY <2>1, <2>2, <2>3, <2>4 DEF Chained!Boundaries
<1> QED
  BY <1>2, <1>3

(* A stage that preserves or seals leaves whole what is whole, and torn    *)
(* what is torn; one that fuses may tear, and one that splits never does.  *)
LEMMA Tearing ==
  ASSUME NEW b \in Chained!Boundaries, NEW p \in Parcel
  PROVE  /\ b \in {"preserve", "seal"} /\ p \in Wholes => Chained!Through(b, p) \subseteq Wholes
         /\ b \in {"preserve", "seal"} /\ p \in Torn => \E q \in Chained!Through(b, p) : q \in Torn
         /\ b = "fuse" => \E q \in Chained!Through(b, p) : q \in Torn
         /\ b = "split" => Chained!Through(b, p) \subseteq Wholes
<1>1. Chained!Through(b, p) \subseteq Parcel
  BY ThroughIs
<1>2. CASE b = "preserve"
  <2>1. Chained!Through(b, p) = {p}
    BY <1>2, ThroughIs
  <2> QED
    BY <1>2, <2>1
<1>3. CASE b = "seal"
  <2>1. /\ \A q \in Chained!Through(b, p) : q.units = p.units /\ q.message = p.message
        /\ \E q \in Chained!Through(b, p) : TRUE
    BY <1>3, ThroughIs
  <2> QED
    BY <1>1, <1>3, <2>1 DEF Wholes, Torn
<1>4. CASE b = "fuse"
  <2>1. \A c \in Chained!Cuttings : \E q \in Chained!Through(b, p) :
          q.units = c /\ q.message = p.message
    BY <1>4, ThroughIs
  <2>2. PICK c \in Chained!Cuttings : c # p.message
    BY OtherCut
  <2>3. \E q \in Chained!Through(b, p) : q \in Torn
    BY <1>1, <2>1, <2>2 DEF Torn
  <2> QED
    BY <1>4, <2>3
<1>5. CASE b = "split"
  <2>1. \A q \in Chained!Through(b, p) : q.units = q.message
    BY <1>5, ThroughIs
  <2>2. Chained!Through(b, p) \subseteq Wholes
    BY <1>1, <2>1 DEF Wholes
  <2> QED
    BY <1>5, <2>2
<1> QED
  BY <1>2, <1>3, <1>4, <1>5 DEF Chained!Boundaries

(* Only a stage that fuses or splits changes units, and each may to any;   *)
(* what was once lost may stay so, and what was once written does.         *)
LEMMA Recutting ==
  ASSUME NEW b \in Chained!Boundaries, NEW p \in Parcel, NEW e \in Chained!Cuttings
  PROVE  /\ b \in {"preserve", "seal"} /\ p \in Same(e) => Chained!Through(b, p) \subseteq Same(e)
         /\ b \notin {"preserve", "seal"} => \E q \in Chained!Through(b, p) : q \in Others(e)
         /\ b \notin {"preserve", "seal"} /\ e \notin p.seals =>
              \E q \in Chained!Through(b, p) : q \in Lost(e)
         /\ p \in Others(e) => \E q \in Chained!Through(b, p) : q \in Others(e)
         /\ p \in Lost(e) => \E q \in Chained!Through(b, p) : q \in Lost(e)
         /\ p \in Written(e) => Chained!Through(b, p) \subseteq Written(e)
         /\ b = "seal" /\ p \in Same(e) => Chained!Through(b, p) \subseteq Written(e)
<1>1. Chained!Through(b, p) \subseteq Parcel
  BY ThroughIs
<1>2. p \in Written(e) => Chained!Through(b, p) \subseteq Written(e)
  <2>1. \A q \in Chained!Through(b, p) : p.seals \subseteq q.seals
    BY ThroughIs
  <2> QED
    BY <1>1, <2>1 DEF Written
<1>3. CASE b = "preserve"
  <2>1. Chained!Through(b, p) = {p}
    BY <1>3, ThroughIs
  <2> QED
    BY <1>2, <1>3, <2>1
<1>4. CASE b = "seal"
  <2>1. /\ \A q \in Chained!Through(b, p) : q.units = p.units /\ q.seals = p.seals \cup {p.units}
        /\ \E q \in Chained!Through(b, p) : TRUE
    BY <1>4, ThroughIs
  <2>2. p \in Same(e) => Chained!Through(b, p) \subseteq Same(e) /\ Chained!Through(b, p) \subseteq Written(e)
    BY <1>1, <2>1 DEF Same, Written
  <2>3. p \in Others(e) => \E q \in Chained!Through(b, p) : q \in Others(e)
    BY <1>1, <2>1 DEF Others
  <2>4. p \in Lost(e) => \E q \in Chained!Through(b, p) : q \in Lost(e)
    BY <1>1, <2>1 DEF Lost
  <2> QED
    BY <1>2, <1>4, <2>2, <2>3, <2>4
<1>5. CASE b \in {"fuse", "split"}
  <2>1. \A c \in Chained!Cuttings : \E q \in Chained!Through(b, p) :
          q.units = c /\ q.seals = p.seals
    <3>1. CASE b = "fuse"
      BY <3>1, ThroughIs
    <3>2. CASE b = "split"
      BY <3>2, ThroughIs
    <3> QED
      BY <1>5, <3>1, <3>2
  <2>2. PICK c \in Chained!Cuttings : c # e
    BY OtherCut
  <2>3. PICK q \in Chained!Through(b, p) : q.units = c /\ q.seals = p.seals
    BY <2>1
  <2>4. q \in Others(e) /\ (e \notin p.seals => q \in Lost(e))
    BY <1>1, <2>2, <2>3 DEF Others, Lost
  <2>5. p \in Lost(e) => e \notin p.seals
    BY DEF Lost
  <2>6. b \notin {"preserve", "seal"}
    BY <1>5
  <2> QED
    BY <1>2, <2>3, <2>4, <2>5, <2>6
<1> QED
  BY <1>3, <1>4, <1>5 DEF Chained!Boundaries

(* Stages make parcels of parcels, and some of any.                        *)
LEMMA Parcels ==
  ASSUME NEW f, NEW decl, NEW a \in Nat, NEW b \in Nat, a <= b, Onwards(f, decl, a, b),
         \A i \in (a + 1)..b : decl[i] \in Chained!Boundaries,
         f[a] \subseteq Parcel, \E p \in f[a] : p \in Parcel
  PROVE  f[b] \subseteq Parcel /\ \E p \in f[b] : p \in Parcel
<1>1. KeepsAll(decl, a, b, Parcel)
  BY ThroughIs DEF KeepsAll
<1>2. KeepsSome(decl, a, b, Parcel)
  BY SomeThrough DEF KeepsSome
<1>3. f[b] \subseteq Parcel
  BY <1>1, AllKept
<1>4. \E p \in f[b] : p \in Parcel
  BY <1>2, SomeKept
<1> QED
  BY <1>3, <1>4

(* What comes of f behind stage a and before stage b, parted at stage j.   *)
PartedAt(f, decl, a, j, b) ==
  /\ Onwards(f, decl, a, j - 1) /\ Onwards(f, decl, j, b)
  /\ f[j] = UNION {Chained!Through(decl[j], p) : p \in f[j - 1]}

(* Every stage between them parts it.                                      *)
LEMMA OnwardsParted ==
  ASSUME NEW f, NEW decl, NEW a \in Nat, NEW b \in Nat, Onwards(f, decl, a, b),
         NEW j \in (a + 1)..b
  PROVE  PartedAt(f, decl, a, j, b)
<1>1. \A i \in (a + 1)..(j - 1) : i \in (a + 1)..b
  OBVIOUS
<1>2. \A i \in (j + 1)..b : i \in (a + 1)..b
  OBVIOUS
<1>3. Onwards(f, decl, a, j - 1)
  BY <1>1, Zenon DEF Onwards
<1>4. Onwards(f, decl, j, b)
  BY <1>2, Zenon DEF Onwards
<1>5. f[j] = UNION {Chained!Through(decl[j], p) : p \in f[j - 1]}
  BY Zenon DEF Onwards
<1> QED
  BY <1>3, <1>4, <1>5, Zenon DEF PartedAt

(* A run of stages can be looked at in two parts, with one in between.     *)
LEMMA OnwardsPart ==
  ASSUME NEW f, NEW decl, NEW a \in Nat, NEW b \in Nat, Onwards(f, decl, a, b),
         NEW j \in (a + 1)..b
  PROVE  /\ j \in Nat /\ j - 1 \in Nat /\ a <= j - 1 /\ j <= b
         /\ Onwards(f, decl, a, j - 1) /\ Onwards(f, decl, j, b)
         /\ f[j] = UNION {Chained!Through(decl[j], p) : p \in f[j - 1]}
         /\ \A i \in (a + 1)..(j - 1) : i \in (a + 1)..b
         /\ \A i \in (j + 1)..b : i \in (a + 1)..b
<1>1. j \in Nat /\ j - 1 \in Nat /\ a <= j - 1 /\ j <= b
  OBVIOUS
<1>2. \A i \in (a + 1)..(j - 1) : i \in (a + 1)..b
  OBVIOUS
<1>3. \A i \in (j + 1)..b : i \in (a + 1)..b
  OBVIOUS
<1>4. PartedAt(f, decl, a, j, b)
  BY OnwardsParted, Zenon
<1>5. Onwards(f, decl, a, j - 1) /\ Onwards(f, decl, j, b)
  BY <1>4, Zenon DEF PartedAt
<1>6. f[j] = UNION {Chained!Through(decl[j], p) : p \in f[j - 1]}
  BY <1>4, Zenon DEF PartedAt
<1> QED
  BY <1>1, <1>2, <1>3, <1>5, <1>6

(* What may arrive, from a message endpoint or a byte stream.              *)
LEMMA ArrivalsAre ==
  ASSUME NEW carries \in BOOLEAN
  PROVE  /\ Chained!Arrivals(carries) \subseteq Parcel
         /\ \E p \in Chained!Arrivals(carries) : p \in Parcel
         /\ carries => Chained!Arrivals(carries) \subseteq Wholes
         /\ ~carries => \E p \in Chained!Arrivals(carries) : p \in Torn
<1>1. Chained!Arrivals(carries) \subseteq Parcel
  BY DEF Chained!Arrivals, Parcel
<1>2. carries => Chained!Arrivals(carries) \subseteq Wholes
  BY <1>1 DEF Chained!Arrivals, Wholes
<1> DEFINE p == [units |-> "whole", message |-> "whole", seals |-> {}]
           q == [units |-> "whole", message |-> "halves", seals |-> {}]
<1>3. p \in Chained!Arrivals(carries)
  BY DEF Chained!Arrivals, Chained!Cuttings
<1>4. ~carries => q \in Chained!Arrivals(carries)
  BY DEF Chained!Arrivals, Chained!Cuttings
<1>5. q.units # q.message
  OBVIOUS
<1> HIDE DEF p, q
<1>6. \E x \in Chained!Arrivals(carries) : x \in Parcel
  BY <1>1, <1>3
<1>7. ~carries => \E x \in Chained!Arrivals(carries) : x \in Torn
  BY <1>1, <1>4, <1>5 DEF Torn
<1> QED
  BY <1>1, <1>2, <1>6, <1>7

(* boundary_faults, upstream: a stage is refused if and only if it may hear*)
(* of a message in parts.                                                  *)
LEMMA HearingIs ==
  ASSUME NEW decl \in Seq(Chained!Boundaries), NEW k \in 1..Len(decl), NEW carries \in BOOLEAN
  PROVE  Chained!FaultUpstream(decl, k, carries) <=> Chained!MayHearParts(decl, k, carries)
<1> DEFINE b     == k - 1
           start == Chained!Arrivals(carries)
           n     == Len(decl)
<1>1. n \in Nat /\ b \in Nat /\ 0 <= b /\ k = b + 1 /\ \A i \in 1..n : decl[i] \in Chained!Boundaries
  BY ElementOfSeq, LenProperties
<1>2. \A i \in 1..b : decl[i] \in Chained!Boundaries
  <2>1. \A i \in 1..b : i \in 1..n
    BY <1>1
  <2> QED
    BY <1>1, <2>1
<1>3. PICK f : /\ f[0] = start /\ Onwards(f, decl, 0, b)
               /\ Chained!Reach(decl, 1, b, start) = f[b]
  <2>1. 0 \in Nat /\ b \in Nat /\ 0 <= b /\ 1 = 0 + 1
    BY <1>1
  <2> HIDE DEF b, start
  <2>2. Reached(decl, 1, 0, b, start)
    BY <2>1, ReachIs
  <2> QED
    BY <2>2, Zenon DEF Reached
<1>4. Chained!MayHearParts(decl, k, carries) <=> \E p \in f[b] : p.units # p.message
  BY <1>3 DEF Chained!MayHearParts
<1>5. /\ f[0] \subseteq Parcel /\ \E p \in f[0] : p \in Parcel
      /\ carries => f[0] \subseteq Wholes
      /\ ~carries => \E p \in f[0] : p \in Torn
  BY <1>3, ArrivalsAre
<1>6. \/ /\ \A i \in 1..b : decl[i] \in {"preserve", "seal"}
         /\ Chained!FaultUpstream(decl, k, carries) <=> ~carries
      \/ \E j \in 1..b :
           /\ decl[j] \notin {"preserve", "seal"}
           /\ \A i \in (j + 1)..b : decl[i] \in {"preserve", "seal"}
           /\ Chained!FaultUpstream(decl, k, carries) <=> decl[j] # "split"
  BY <1>1, UpwardsIs
<1> HIDE DEF b, start, n
<1>7. /\ f[b] \subseteq Wholes => ~Chained!MayHearParts(decl, k, carries)
      /\ (\E p \in f[b] : p \in Torn) => Chained!MayHearParts(decl, k, carries)
  BY <1>4 DEF Wholes, Torn
<1>8. \A i \in (0 + 1)..b : i \in 1..b
  OBVIOUS
<1>9. \A p \in Wholes : p \in Parcel
  BY DEF Wholes
<1>10. \A p \in Torn : p \in Parcel
  BY DEF Torn
<1>11. CASE /\ \A i \in 1..b : decl[i] \in {"preserve", "seal"}
            /\ Chained!FaultUpstream(decl, k, carries) <=> ~carries
  <2>1. CASE carries
    <3>1. KeepsAll(decl, 0, b, Wholes)
      BY <1>2, <1>8, <1>9, <1>11, Tearing DEF KeepsAll
    <3>2. f[b] \subseteq Wholes
      BY <1>1, <1>3, <1>5, <2>1, <3>1, AllKept
    <3> QED
      BY <1>7, <1>11, <2>1, <3>2
  <2>2. CASE ~carries
    <3>1. KeepsSome(decl, 0, b, Torn)
      BY <1>2, <1>8, <1>10, <1>11, Tearing DEF KeepsSome
    <3>2. \E p \in f[b] : p \in Torn
      BY <1>1, <1>3, <1>5, <2>2, <3>1, SomeKept
    <3> QED
      BY <1>7, <1>11, <2>2, <3>2
  <2> QED
    BY <2>1, <2>2
<1>12. ASSUME NEW j \in 1..b, decl[j] \notin {"preserve", "seal"},
              \A i \in (j + 1)..b : decl[i] \in {"preserve", "seal"},
              Chained!FaultUpstream(decl, k, carries) <=> decl[j] # "split"
       PROVE  Chained!FaultUpstream(decl, k, carries) <=> Chained!MayHearParts(decl, k, carries)
  <2>1. j \in (0 + 1)..b
    OBVIOUS
  <2>2. /\ j \in Nat /\ j - 1 \in Nat /\ 0 <= j - 1 /\ j <= b
        /\ Onwards(f, decl, 0, j - 1) /\ Onwards(f, decl, j, b)
        /\ f[j] = UNION {Chained!Through(decl[j], p) : p \in f[j - 1]}
        /\ \A i \in (0 + 1)..(j - 1) : i \in (0 + 1)..b
        /\ \A i \in (j + 1)..b : i \in (0 + 1)..b
    BY <1>1, <1>3, <2>1, OnwardsPart
  <2>3. \A i \in (0 + 1)..(j - 1) : decl[i] \in Chained!Boundaries
    BY <1>2, <1>8, <2>2, Zenon
  <2>4. \A i \in (j + 1)..b : decl[i] \in Chained!Boundaries
    BY <1>2, <1>8, <2>2, Zenon
  <2>5. decl[j] \in Chained!Boundaries
    BY <1>2
  <2> DEFINE c == j - 1
  <2>6. c \in Nat /\ 0 <= c /\ Onwards(f, decl, 0, c) /\ \A i \in (0 + 1)..c : decl[i] \in Chained!Boundaries
    BY <2>2, <2>3
  <2> HIDE DEF c
  <2>7. f[c] \subseteq Parcel /\ \E p \in f[c] : p \in Parcel
    BY <1>5, <2>6, Parcels
  <2>8. f[j] = UNION {Chained!Through(decl[j], p) : p \in f[c]}
    BY <2>2 DEF c
  <2>8a. b \in Nat /\ j \in Nat /\ j <= b /\ Onwards(f, decl, j, b)
    BY <1>1, <2>2
  <2>9. CASE decl[j] = "split"
    <3>1. \A p \in f[c] : Chained!Through(decl[j], p) \subseteq Wholes
      BY <2>5, <2>7, <2>9, Tearing
    <3>2. f[j] \subseteq Wholes
      BY <2>8, <3>1, Zenon
    <3>3. KeepsAll(decl, j, b, Wholes)
      BY <1>9, <1>12, <2>4, Tearing DEF KeepsAll
    <3>4. f[b] \subseteq Wholes
      BY <2>8a, <3>2, <3>3, AllKept
    <3> QED
      BY <1>7, <1>12, <2>9, <3>4
  <2>10. CASE decl[j] = "fuse"
    <3>1. \A p \in f[c] : \E q \in Chained!Through(decl[j], p) : q \in Torn
      BY <2>5, <2>7, <2>10, Tearing
    <3>2. \E p \in f[j] : p \in Torn
      BY <2>7, <2>8, <3>1, Zenon
    <3>3. KeepsSome(decl, j, b, Torn)
      BY <1>10, <1>12, <2>4, Tearing DEF KeepsSome
    <3>4. \E p \in f[b] : p \in Torn
      BY <2>8a, <3>2, <3>3, SomeKept
    <3>5. decl[j] # "split"
      BY <2>10
    <3> QED
      BY <1>7, <1>12, <3>4, <3>5
  <2> QED
    BY <1>12, <2>5, <2>9, <2>10 DEF Chained!Boundaries
<1> QED
  BY <1>6, <1>11, <1>12, Zenon

(* What was emitted as e, for a message m.                                 *)
Emitted(e, m) == [units |-> e, message |-> m, seals |-> {}]

(* It is a parcel, in which nothing is written.                            *)
LEMMA EmittedOnce ==
  ASSUME NEW e \in Chained!Cuttings, NEW m \in Chained!Cuttings
  PROVE  /\ Emitted(e, m) \in Parcel /\ Emitted(e, m) \in Same(e)
         /\ Emitted(e, m).units = e /\ Emitted(e, m).seals = {}
<1>1. /\ Emitted(e, m) \in Parcel /\ Emitted(e, m).units = e /\ Emitted(e, m).seals = {}
  BY DEF Parcel, Emitted
<1> QED
  BY <1>1 DEF Same

(* Stages a + 1 .. b preserve.                                             *)
Preserving(decl, a, b) == \A i \in (a + 1)..b : decl[i] = "preserve"

(* A run of stages that preserve changes nothing.                          *)
LEMMA Preserved ==
  ASSUME NEW f, NEW decl, NEW a \in Nat, NEW b \in Nat, a <= b, Onwards(f, decl, a, b),
         Preserving(decl, a, b), NEW s \in Parcel, f[a] = {s}
  PROVE  f[b] = {s}
<1>1. "preserve" \in Chained!Boundaries
  BY DEF Chained!Boundaries
<1>2. \A k \in (a + 1)..b : Chained!Through(decl[k], s) = {s}
  BY <1>1, ThroughIs DEF Preserving
<1> DEFINE X == {s}
<1>3. KeepsAll(decl, a, b, X)
  BY <1>2 DEF KeepsAll
<1>4. KeepsSome(decl, a, b, X)
  BY <1>2 DEF KeepsSome
<1>5. f[a] \subseteq X /\ \E p \in f[a] : p \in X
  OBVIOUS
<1> HIDE DEF X
<1>6. f[b] \subseteq X
  BY <1>3, <1>5, AllKept
<1>7. \E p \in f[b] : p \in X
  BY <1>4, <1>5, SomeKept
<1> QED
  BY <1>6, <1>7 DEF X

(* boundary_faults, downstream: a stage is refused if and only if what it  *)
(* emitted may be lost.                                                    *)
LEMMA LosingIs ==
  ASSUME NEW decl \in Seq(Chained!Boundaries), NEW k \in 1..Len(decl), NEW carries \in BOOLEAN
  PROVE  Chained!FaultDownstream(decl, k, carries) <=> Chained!MayBeLost(decl, k, carries)
<1> DEFINE n == Len(decl)
           reach(e, m) == Chained!Reach(decl, k + 1, n, {Emitted(e, m)})
<1>1. /\ n \in Nat /\ k \in Nat /\ k <= n
      /\ \A i \in 1..n : decl[i] \in Chained!Boundaries
  BY ElementOfSeq, LenProperties
<1>2. \A i \in (k + 1)..n : decl[i] \in Chained!Boundaries
  <2>1. \A i \in (k + 1)..n : i \in 1..n
    BY <1>1
  <2> QED
    BY <1>1, <2>1
<1>3. Chained!MayBeLost(decl, k, carries) <=>
        \E e, m \in Chained!Cuttings : \E p \in reach(e, m) :
          ~(carries /\ p.units = e) /\ e \notin p.seals
  BY Zenon DEF Chained!MayBeLost, Emitted
<1>4. ASSUME NEW e \in Chained!Cuttings, NEW m \in Chained!Cuttings
      PROVE  \E f : f[k] = {Emitted(e, m)} /\ Onwards(f, decl, k, n) /\ reach(e, m) = f[n]
  <2> DEFINE from  == k + 1
             start == {Emitted(e, m)}
  <2>1. from = k + 1
    OBVIOUS
  <2> HIDE DEF from, start, n
  <2>2. Reached(decl, from, k, n, start)
    BY <1>1, <2>1, ReachIs
  <2> QED
    BY <2>2, Zenon DEF Reached, from, start
<1>5. \/ /\ \A i \in (k + 1)..n : decl[i] = "preserve"
         /\ Chained!FaultDownstream(decl, k, carries) <=> ~carries
      \/ \E j \in (k + 1)..n :
           /\ decl[j] # "preserve" /\ \A i \in (k + 1)..(j - 1) : decl[i] = "preserve"
           /\ Chained!FaultDownstream(decl, k, carries) <=> decl[j] # "seal"
  BY <1>1, DownwardsIs
<1> HIDE DEF n, reach
<1>6. CASE /\ \A i \in (k + 1)..n : decl[i] = "preserve"
           /\ Chained!FaultDownstream(decl, k, carries) <=> ~carries
  <2>0. Preserving(decl, k, n)
    BY <1>6 DEF Preserving
  <2>1. ASSUME NEW e \in Chained!Cuttings, NEW m \in Chained!Cuttings
        PROVE  /\ \A p \in reach(e, m) : p.units = e /\ e \notin p.seals
               /\ \E p \in reach(e, m) : TRUE
    <3>1. PICK f : f[k] = {Emitted(e, m)} /\ Onwards(f, decl, k, n) /\ reach(e, m) = f[n]
      BY <1>4
    <3>2. Emitted(e, m) \in Parcel /\ Emitted(e, m).units = e /\ Emitted(e, m).seals = {}
      BY EmittedOnce
    <3>3. f[n] = {Emitted(e, m)}
      BY <1>1, <2>0, <3>1, <3>2, Preserved
    <3> QED
      BY <3>1, <3>2, <3>3
  <2>2. CASE carries
    <3>1. ~Chained!MayBeLost(decl, k, carries)
      BY <1>3, <2>1, <2>2, Zenon
    <3> QED
      BY <1>6, <2>2, <3>1
  <2>3. CASE ~carries
    <3>1. PICK e \in Chained!Cuttings : TRUE
      BY OtherCut
    <3>2. Chained!MayBeLost(decl, k, carries)
      BY <1>3, <2>1, <2>3, <3>1, Zenon
    <3> QED
      BY <1>6, <2>3, <3>2
  <2> QED
    BY <2>2, <2>3
<1>7. ASSUME NEW j \in (k + 1)..n, decl[j] # "preserve",
             \A i \in (k + 1)..(j - 1) : decl[i] = "preserve",
             Chained!FaultDownstream(decl, k, carries) <=> decl[j] # "seal"
      PROVE  Chained!FaultDownstream(decl, k, carries) <=> Chained!MayBeLost(decl, k, carries)
  <2>1. decl[j] \in Chained!Boundaries
    BY <1>2
  <2> DEFINE c == j - 1
  <2>8. Preserving(decl, k, j - 1)
    BY <1>7, Zenon DEF Preserving
  <2>9. k \in Nat /\ n \in Nat /\ j \in (k + 1)..n
    BY <1>1
  <2>2. c \in Nat /\ k <= c /\ j \in Nat /\ j <= n /\ Preserving(decl, k, c)
    <3>1. j - 1 \in Nat /\ k <= j - 1 /\ j \in Nat /\ j <= n
      BY <2>9
    <3> QED
      BY <2>8, <3>1, Zenon
  <2>3. ASSUME NEW f, Onwards(f, decl, k, n)
        PROVE  /\ Onwards(f, decl, k, c) /\ Onwards(f, decl, j, n)
               /\ f[j] = UNION {Chained!Through(decl[j], p) : p \in f[c]}
    <3>1. k \in Nat /\ n \in Nat /\ j \in (k + 1)..n
      BY <1>1
    <3> HIDE DEF c
    <3>2. Onwards(f, decl, k, n)
      BY <2>3
    <3>3. PartedAt(f, decl, k, j, n)
      BY <3>1, <3>2, OnwardsParted, Zenon
    <3> QED
      BY <3>3, Zenon DEF PartedAt, c
  <2>4. \A i \in (j + 1)..n : decl[i] \in Chained!Boundaries
    <3>1. \A i \in (j + 1)..n : i \in (k + 1)..n
      BY <1>1
    <3> QED
      BY <1>2, <3>1
  <2> HIDE DEF c
  <2>5. ASSUME NEW e \in Chained!Cuttings, NEW m \in Chained!Cuttings
        PROVE  \E f : /\ reach(e, m) = f[n] /\ Onwards(f, decl, j, n)
                      /\ f[j] = Chained!Through(decl[j], Emitted(e, m))
    <3>1. PICK f : f[k] = {Emitted(e, m)} /\ Onwards(f, decl, k, n) /\ reach(e, m) = f[n]
      BY <1>4
    <3>2. Emitted(e, m) \in Parcel
      BY EmittedOnce
    <3>3. Onwards(f, decl, k, c)
      BY <2>3, <3>1
    <3>4. f[c] = {Emitted(e, m)}
      <4> DEFINE s == Emitted(e, m)
      <4>1. k \in Nat /\ c \in Nat /\ k <= c /\ Preserving(decl, k, c)
        BY <1>1, <2>2
      <4>2. s \in Parcel /\ f[k] = {s}
        BY <3>1, <3>2
      <4> HIDE DEF s
      <4>3. f[c] = {s}
        BY <3>3, <4>1, <4>2, Preserved
      <4> QED
        BY <4>3 DEF s
    <3>5. f[j] = Chained!Through(decl[j], Emitted(e, m))
      <4>1. f[j] = UNION {Chained!Through(decl[j], p) : p \in f[c]}
        BY <2>3, <3>1
      <4> QED
        BY <3>4, <4>1
    <3> QED
      BY <2>3, <3>1, <3>5
  <2>6. CASE decl[j] = "seal"
    <3>1. ASSUME NEW e \in Chained!Cuttings, NEW m \in Chained!Cuttings, NEW p \in reach(e, m)
          PROVE  e \in p.seals
      <4>1. PICK f : /\ reach(e, m) = f[n] /\ Onwards(f, decl, j, n)
                     /\ f[j] = Chained!Through(decl[j], Emitted(e, m))
        BY <2>5
      <4> DEFINE X == Written(e)
      <4>2. Emitted(e, m) \in Parcel /\ Emitted(e, m) \in Same(e)
        BY EmittedOnce
      <4>3. f[j] \subseteq X
        BY <2>1, <2>6, <4>1, <4>2, Recutting
      <4>4. KeepsAll(decl, j, n, X)
        <5>1. \A q \in X : q \in Parcel
          BY DEF Written
        <5> QED
          BY <2>4, <5>1, Recutting DEF KeepsAll
      <4> HIDE DEF X
      <4>5. f[n] \subseteq X
        BY <1>1, <2>2, <4>1, <4>3, <4>4, AllKept
      <4>6. p \in X
        BY <3>1, <4>1, <4>5
      <4> QED
        BY <4>6 DEF X, Written
    <3>2. ~Chained!MayBeLost(decl, k, carries)
      BY <1>3, <3>1, Zenon
    <3> QED
      BY <1>7, <2>6, <3>2
  <2>7. CASE decl[j] # "seal"
    <3>1. PICK e \in Chained!Cuttings : TRUE
      BY OtherCut
    <3>2. PICK f : /\ reach(e, e) = f[n] /\ Onwards(f, decl, j, n)
                   /\ f[j] = Chained!Through(decl[j], Emitted(e, e))
      BY <2>5
    <3>3. Emitted(e, e) \in Parcel /\ e \notin Emitted(e, e).seals
      BY EmittedOnce
    <3> DEFINE X == Lost(e)
    <3>4. \E q \in f[j] : q \in X
      <4>1. decl[j] \notin {"preserve", "seal"}
        BY <1>7, <2>7
      <4> QED
        BY <2>1, <3>2, <3>3, <4>1, Recutting
    <3>5. KeepsSome(decl, j, n, X)
      <4>1. \A q \in X : q \in Parcel
        BY DEF Lost
      <4> QED
        BY <2>4, <4>1, Recutting DEF KeepsSome
    <3> HIDE DEF X
    <3>6. \E p \in f[n] : p \in X
      BY <1>1, <2>2, <3>2, <3>4, <3>5, SomeKept
    <3>7. \E p \in reach(e, e) : ~(p.units = e) /\ e \notin p.seals
      BY <3>2, <3>6 DEF X, Lost
    <3>8. Chained!MayBeLost(decl, k, carries)
      BY <1>3, <3>7, Zenon
    <3> QED
      BY <1>7, <2>7, <3>8
  <2> QED
    BY <2>6, <2>7
<1> QED
  BY <1>5, <1>6, <1>7, Zenon

(* datagram_hazard: it warns if and only if messages may leave otherwise   *)
(* than they came.                                                         *)
LEMMA WarningIs ==
  ASSUME NEW decl \in Seq(Chained!Boundaries)
  PROVE  Chained!datagram_hazard(decl) <=>
           \E c \in Chained!Cuttings :
             \E p \in Chained!Reach(decl, 1, Len(decl), {[units |-> c, message |-> c, seals |-> {}]}) :
               p.units # c
<1> DEFINE n == Len(decl)
           reach(e) == Chained!Reach(decl, 1, n, {Emitted(e, e)})
<1>1. n \in Nat /\ DOMAIN decl = 1..n /\ \A i \in 1..n : decl[i] \in Chained!Boundaries
  BY ElementOfSeq, LenProperties
<1>2. Chained!datagram_hazard(decl) <=> \E k \in 1..n : decl[k] \notin {"preserve", "seal"}
  BY <1>1 DEF Chained!datagram_hazard, Chained!preserves_messages
<1>3. ASSUME NEW e \in Chained!Cuttings
      PROVE  \E f : f[0] = {Emitted(e, e)} /\ Onwards(f, decl, 0, n) /\ reach(e) = f[n]
  <2> DEFINE start == {Emitted(e, e)}
  <2>1. 0 \in Nat /\ n \in Nat /\ 0 <= n /\ 1 = 0 + 1
    BY <1>1
  <2> HIDE DEF start, n
  <2>2. Reached(decl, 1, 0, n, start)
    BY <2>1, ReachIs
  <2> QED
    BY <2>2, Zenon DEF Reached, start
<1> HIDE DEF n, reach
<1>4. \A i \in (0 + 1)..n : decl[i] \in Chained!Boundaries
  BY <1>1
<1>5. CASE \A k \in 1..n : decl[k] \in {"preserve", "seal"}
  <2>1. ASSUME NEW e \in Chained!Cuttings, NEW p \in reach(e)
        PROVE  p.units = e
    <3>1. PICK f : f[0] = {Emitted(e, e)} /\ Onwards(f, decl, 0, n) /\ reach(e) = f[n]
      BY <1>3
    <3> DEFINE X == Same(e)
    <3>2. f[0] \subseteq X
      BY <3>1, EmittedOnce
    <3>3. KeepsAll(decl, 0, n, X)
      <4>1. \A q \in X : q \in Parcel
        BY DEF Same
      <4>2. \A i \in (0 + 1)..n : decl[i] \in {"preserve", "seal"}
        BY <1>5
      <4> QED
        BY <1>4, <4>1, <4>2, Recutting DEF KeepsAll
    <3> HIDE DEF X
    <3>4. 0 \in Nat /\ 0 <= n
      BY <1>1
    <3>5. f[n] \subseteq X
      BY <1>1, <3>1, <3>2, <3>3, <3>4, AllKept
    <3> QED
      BY <2>1, <3>1, <3>5 DEF X, Same
  <2> QED
    BY <1>2, <1>5, <2>1, Zenon DEF reach, n, Emitted
<1>6. ASSUME NEW j \in 1..n, decl[j] \notin {"preserve", "seal"}
      PROVE  \E e \in Chained!Cuttings : \E p \in reach(e) : p.units # e
  <2>1. PICK e \in Chained!Cuttings : TRUE
    BY OtherCut
  <2>2. PICK f : f[0] = {Emitted(e, e)} /\ Onwards(f, decl, 0, n) /\ reach(e) = f[n]
    BY <1>3
  <2> DEFINE c == j - 1
  <2>3. j \in (0 + 1)..n /\ 0 \in Nat
    BY <1>1
  <2>4. /\ j \in Nat /\ c \in Nat /\ 0 <= c /\ j <= n
        /\ Onwards(f, decl, 0, c) /\ Onwards(f, decl, j, n)
        /\ f[j] = UNION {Chained!Through(decl[j], p) : p \in f[c]}
        /\ \A i \in (0 + 1)..c : i \in (0 + 1)..n
        /\ \A i \in (j + 1)..n : i \in (0 + 1)..n
    BY <1>1, <2>2, <2>3, OnwardsPart
  <2> HIDE DEF c
  <2>5. \A i \in (0 + 1)..c : decl[i] \in Chained!Boundaries
    BY <1>4, <2>4, Zenon
  <2>6. f[0] \subseteq Parcel /\ \E p \in f[0] : p \in Parcel
    BY <2>2, EmittedOnce
  <2>7. f[c] \subseteq Parcel /\ \E p \in f[c] : p \in Parcel
    BY <2>3, <2>4, <2>5, <2>6, Parcels
  <2> DEFINE X == Others(e)
  <2>8. \A p \in f[c] : \E q \in Chained!Through(decl[j], p) : q \in X
    BY <1>4, <1>6, <2>3, <2>7, Recutting
  <2>9. \E q \in f[j] : q \in X
    BY <2>4, <2>7, <2>8, Zenon
  <2>10. KeepsSome(decl, j, n, X)
    <3>1. \A q \in X : q \in Parcel
      BY DEF Others
    <3>2. \A i \in (j + 1)..n : decl[i] \in Chained!Boundaries
      BY <1>4, <2>4, Zenon
    <3> QED
      BY <3>1, <3>2, Recutting DEF KeepsSome
  <2> HIDE DEF X
  <2>11. \E p \in f[n] : p \in X
    BY <1>1, <2>4, <2>9, <2>10, SomeKept
  <2>12. \E p \in reach(e) : p.units # e
    BY <2>2, <2>11 DEF X, Others
  <2> QED
    BY <2>12
<1>7. (\E j \in 1..n : decl[j] \notin {"preserve", "seal"}) =>
        \E e \in Chained!Cuttings : \E p \in reach(e) : p.units # e
  BY <1>6
<1>8. CASE \E j \in 1..n : decl[j] \notin {"preserve", "seal"}
  BY <1>2, <1>7, <1>8, Zenon DEF reach, n, Emitted
<1> QED
  BY <1>5, <1>8, Zenon

(* Registry::build and Relay::new (pipeline.rs, relay.rs): for every chain *)
(* that may be built, a relay is refused if and only if a stage may lose   *)
(* the messages it needs, it is warned of if and only if messages may leave*)
(* otherwise than they came, and one that starts carries those it was      *)
(* asked to.                                                               *)
THEOREM ScanningIsExact == AssemblySpec => []ScanIsExact
<1>1. ASSUME ChainIInv PROVE ScanIsExact
  <2>1. ChainTyped /\ Judged
    BY <1>1 DEF ChainIInv
  <2>2. /\ specs \in Seq(Chained!PluginSpec) /\ chains \in [Ways -> Seq(Segment)]
        /\ datagram \in [{"source", "sink"} -> BOOLEAN]
    BY <2>1 DEF ChainTyped
  <2>3. DOMAIN chains = Ways
    BY <2>2
  <2>4. ASSUME NEW path \in Ways
        PROVE  /\ Chained!declarations(chains[path]) \in Seq(Chained!Boundaries)
               /\ DOMAIN Chained!declarations(chains[path]) =
                    1..Len(Chained!declarations(chains[path]))
    <3> DEFINE stages == Chained!Stages(chains[path])
               decl   == Chained!declarations(chains[path])
    <3>1. chains[path] \in Seq(Segment)
      BY <2>2
    <3>2. stages \in Seq(Nat) /\ Len(stages) \in Nat
      BY <3>1, StagesAre, LenProperties
    <3>3. /\ \A i \in 1..Len(stages) : stages[i] \in DOMAIN specs
          /\ DOMAIN specs = 1..Len(specs)
      BY <1>1, Declared
    <3>4. decl = [k \in 1..Len(stages) |->
                    IF specs[stages[k]].makes = "external" THEN "fuse" ELSE specs[stages[k]].makes]
      BY DEF Chained!declarations
    <3> HIDE DEF stages
    <3>5. \A k \in 1..Len(stages) :
            (IF specs[stages[k]].makes = "external" THEN "fuse" ELSE specs[stages[k]].makes)
              \in Chained!Boundaries
      <4> TAKE k \in 1..Len(stages)
      <4>1. specs[stages[k]] \in Chained!PluginSpec
        BY <2>2, <3>3, ElementOfSeq
      <4>2. specs[stages[k]].makes \in Chained!Boundaries \cup {"external"}
        BY <4>1 DEF Chained!PluginSpec
      <4>3. "fuse" \in Chained!Boundaries
        BY DEF Chained!Boundaries
      <4> QED
        BY <4>2, <4>3
    <3> QED
      BY <3>2, <3>4, <3>5
  <2>5. ASSUME NEW path \in Ways, NEW carries \in BOOLEAN,
               NEW k \in DOMAIN Chained!declarations(chains[path])
        PROVE  /\ Chained!FaultUpstream(Chained!declarations(chains[path]), k, carries)
                    <=> Chained!MayHearParts(Chained!declarations(chains[path]), k, carries)
               /\ Chained!FaultDownstream(Chained!declarations(chains[path]), k, carries)
                    <=> Chained!MayBeLost(Chained!declarations(chains[path]), k, carries)
    <3> DEFINE decl == Chained!declarations(chains[path])
    <3>1. decl \in Seq(Chained!Boundaries) /\ k \in 1..Len(decl)
      BY <2>4
    <3> HIDE DEF decl
    <3>2. Chained!FaultUpstream(decl, k, carries) <=> Chained!MayHearParts(decl, k, carries)
      BY <3>1, HearingIs
    <3>3. Chained!FaultDownstream(decl, k, carries) <=> Chained!MayBeLost(decl, k, carries)
      BY <3>1, LosingIs
    <3> QED
      BY <3>2, <3>3 DEF decl
  <2>6. Chained!ScanIsExact
    BY <2>3, <2>5, Zenon DEF Chained!ScanIsExact
  <2>7. Chained!WarningIsExact
    <3> SUFFICES ASSUME NEW path \in DOMAIN chains
                 PROVE  LET decl == Chained!declarations(chains[path])
                        IN  Chained!datagram_hazard(decl) <=>
                              \E c \in Chained!Cuttings :
                                \E p \in Chained!Reach(decl, 1, Len(decl),
                                           {[units |-> c, message |-> c, seals |-> {}]}) :
                                  p.units # c
      BY Zenon DEF Chained!WarningIsExact
    <3> DEFINE decl == Chained!declarations(chains[path])
    <3>1. decl \in Seq(Chained!Boundaries)
      BY <2>3, <2>4
    <3> HIDE DEF decl
    <3>2. Chained!datagram_hazard(decl) <=>
            \E c \in Chained!Cuttings :
              \E p \in Chained!Reach(decl, 1, Len(decl),
                         {[units |-> c, message |-> c, seals |-> {}]}) : p.units # c
      BY <3>1, WarningIs
    <3> QED
      BY <3>2, Zenon DEF decl
  <2>8. Chained!OkMeansCarried
    <3> SUFFICES ASSUME verdict = "ok", NEW path \in Ways,
                        NEW k \in DOMAIN Chained!declarations(chains[path])
                 PROVE  /\ <<Chained!Stages(chains[path])[k], "upstream">> \in needs =>
                             ~Chained!MayHearParts(Chained!declarations(chains[path]), k,
                                datagram[IF path = "source-to-sink" THEN "source" ELSE "sink"])
                        /\ <<Chained!Stages(chains[path])[k], "downstream">> \in needs =>
                             ~Chained!MayBeLost(Chained!declarations(chains[path]), k,
                                datagram[IF path = "source-to-sink" THEN "sink" ELSE "source"])
      BY <2>3, Zenon DEF Chained!OkMeansCarried
    <3> DEFINE up   == Chained!Upstream(path)
               down == Chained!Downstream(path)
    <3>1. up \in {"source", "sink"} /\ down \in {"source", "sink"}
      BY DEF Chained!Upstream, Chained!Downstream
    <3>2. datagram[up] \in BOOLEAN /\ datagram[down] \in BOOLEAN
      BY <2>2, <3>1
    <3> HIDE DEF up, down
    <3>3. ~Chained!Unmet(path, datagram, needs)
      BY <2>1, Zenon DEF Judged
    <3>4. /\ ~(/\ <<Chained!Stages(chains[path])[k], "downstream">> \in needs
               /\ Chained!FaultDownstream(Chained!declarations(chains[path]), k, datagram[down]))
          /\ ~(/\ <<Chained!Stages(chains[path])[k], "upstream">> \in needs
               /\ Chained!FaultUpstream(Chained!declarations(chains[path]), k, datagram[up]))
      BY <3>3, Zenon DEF Chained!Unmet, up, down
    <3>5. /\ Chained!FaultUpstream(Chained!declarations(chains[path]), k, datagram[up])
               <=> Chained!MayHearParts(Chained!declarations(chains[path]), k, datagram[up])
          /\ Chained!FaultDownstream(Chained!declarations(chains[path]), k, datagram[down])
               <=> Chained!MayBeLost(Chained!declarations(chains[path]), k, datagram[down])
      BY <2>5, <3>2, Zenon
    <3>6. /\ up = (IF path = "source-to-sink" THEN "source" ELSE "sink")
          /\ down = (IF path = "source-to-sink" THEN "sink" ELSE "source")
      BY Zenon DEF up, down, Chained!Upstream, Chained!Downstream
    <3> QED
      BY <3>4, <3>5, <3>6, Zenon
  <2> QED
    BY <2>6, <2>7, <2>8 DEF ScanIsExact
<1> QED
  BY <1>1, ChainHolds, PTL
=============================================================================
