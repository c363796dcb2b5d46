------------------------- MODULE ScanDirListProofs --------------------------
(***************************************************************************)
(* What the list of a scan is worth, for any tree, any number of threads,  *)
(* changes and failures: no path stands on it twice but one that was put   *)
(* back, all of them are regular files, and nothing that stayed where it   *)
(* was is missing; and that the threads, taken together, do what           *)
(* SequentialScan does.                                                    *)
(***************************************************************************)
EXTENDS ScanDirProofs, WellFoundedInduction

-----------------------------------------------------------------------------
(***************************************************************************)
(* Induction, over sets: the library's theorem about minimal elements      *)
(* takes no operator.                                                      *)
(***************************************************************************)
LEMMA LeastOf ==
    ASSUME NEW T \in SUBSET Nat, T # {}
    PROVE  \E n \in T : \A m \in T : n <= m
<1>1. PICK n \in T : \A m \in T : ~(<<m, n>> \in OpToRel(<, Nat))
  BY NatLessThanWellFounded, WFMin, Zenon
<1>2. \A m \in T : <<m, n>> \in Nat \X Nat /\ <<m, n>>[1] = m /\ <<m, n>>[2] = n
  OBVIOUS
<1>3. \A m \in T : ~(m < n)
  <2> SUFFICES ASSUME NEW m \in T, m < n PROVE <<m, n>> \in OpToRel(<, Nat)
    BY <1>1, Zenon
  <2> QED
    BY <1>2 DEF OpToRel
<1> QED
  BY <1>3

LEMMA NatInductive ==
    ASSUME NEW S, 0 \in S, \A n \in Nat : n \in S => n + 1 \in S
    PROVE  Nat \subseteq S
<1> SUFFICES ASSUME Nat \ S # {} PROVE FALSE
  OBVIOUS
<1>1. PICK n \in Nat \ S : \A m \in Nat \ S : n <= m
  BY LeastOf
<1>2. n # 0 /\ n - 1 \in Nat /\ n - 1 \in S
  BY <1>1
<1> QED
  BY <1>1, <1>2

(* A path is empty, or it is a name behind a path.                         *)
LEMMA PathEnds ==
    ASSUME NEW p \in Paths, Len(p) # 0
    PROVE  \E q \in Paths, x \in Names : p = Append(q, x) /\ Len(q) = Len(p) - 1
<1> DEFINE q == SubSeq(p, 1, Len(p) - 1)
<1>1. p \in Seq(Names) /\ Len(p) \in Nat \ {0}
  BY DEF Paths
<1>2. q \in Seq(Names) /\ Len(q) = Len(p) - 1 /\ \A i \in 1..Len(q) : q[i] = p[i]
  <2>1. PICK n \in Nat : n = Len(p) - 1 /\ n \in 0..Len(p)
    <3>1. \A m \in Nat \ {0} : m - 1 \in Nat /\ m - 1 \in 0..m
      OBVIOUS
    <3> QED
      BY <1>1, <3>1, Zenon
  <2>2. /\ SubSeq(p, 1, n) \in Seq(Names) /\ Len(SubSeq(p, 1, n)) = n
        /\ \A i \in 1..n : SubSeq(p, 1, n)[i] = p[i]
    BY <1>1, <2>1
  <2> QED
    BY <2>1, <2>2
<1>3. p[Len(p)] \in Names
  BY <1>1
<1>4. p = Append(q, p[Len(p)])
  BY <1>1, <1>2, <1>3
<1> QED
  BY <1>2, <1>3, <1>4 DEF Paths

LEMMA PathInductive ==
    ASSUME NEW S, <<>> \in S,
           \A p \in Paths, x \in Names : p \in S => Append(p, x) \in S
    PROVE  Paths \subseteq S
<1> DEFINE L == {n \in Nat : \A p \in Paths : Len(p) = n => p \in S}
<1>1. 0 \in L
  <2>1. \A p \in Paths : Len(p) = 0 => p = <<>>
    BY DEF Paths
  <2> QED
    BY <2>1
<1>2. ASSUME NEW n \in Nat, n \in L PROVE n + 1 \in L
  <2> SUFFICES ASSUME NEW p \in Paths, Len(p) = n + 1 PROVE p \in S
    OBVIOUS
  <2>1. PICK q \in Paths, x \in Names : p = Append(q, x) /\ Len(q) = n
    BY PathEnds
  <2> QED
    BY <1>2, <2>1
<1>3. Nat \subseteq L
  <2> HIDE DEF L
  <2> QED
    BY <1>1, <1>2, NatInductive
<1> QED
  <2>1. \A p \in Paths : Len(p) \in Nat
    BY DEF Paths
  <2> QED
    BY <1>3, <2>1

-----------------------------------------------------------------------------
(***************************************************************************)
(* What a walk along a path is: the recursion of Walk has a solution, and  *)
(* a name more on the path is a step more of the walk.                     *)
(***************************************************************************)
Home == {[node |-> Root, links |-> 0]}
IsWalk(f, n, es, p) ==
    f = [i \in 0..n |-> IF i = 0 THEN Home ELSE Onward(f[i - 1], es, p[i])]

LEMMA WalkExists ==
    ASSUME NEW es, NEW p
    PROVE  \A n \in Nat : \E f : IsWalk(f, n, es, p)
<1> DEFINE S == {n \in Nat : \E f : IsWalk(f, n, es, p)}
<1>1. 0 \in S
  <2> DEFINE f == [i \in 0..0 |-> Home]
  <2>1. f = [i \in 0..0 |-> IF i = 0 THEN Home ELSE Onward(f[i - 1], es, p[i])]
    <3>1. \A i \in 0..0 : i = 0
      OBVIOUS
    <3> QED
      BY <3>1
  <2> QED
    BY <2>1 DEF IsWalk
<1>2. ASSUME NEW n \in Nat, n \in S PROVE n + 1 \in S
  <2>1. PICK f : IsWalk(f, n, es, p)
    BY <1>2
  <2> DEFINE g == [i \in 0..(n + 1) |-> IF i = n + 1 THEN Onward(f[n], es, p[n + 1]) ELSE f[i]]
  <2>2. \A i \in 0..n : f[i] = IF i = 0 THEN Home ELSE Onward(f[i - 1], es, p[i])
    BY <2>1 DEF IsWalk
  <2>3. ASSUME NEW i \in 0..(n + 1)
        PROVE  g[i] = IF i = 0 THEN Home ELSE Onward(g[i - 1], es, p[i])
    <3>1. CASE i = n + 1
      <4>1. g[i - 1] = f[n] /\ i - 1 = n
        BY <3>1
      <4> QED
        BY <3>1, <4>1
    <3>2. CASE i \in 0..n
      <4>1. g[i] = f[i] /\ (i # 0 => g[i - 1] = f[i - 1])
        BY <3>2
      <4> QED
        BY <2>2, <3>2, <4>1
    <3> QED
      BY <3>1, <3>2
  <2>4. \E h : g = [i \in 0..(n + 1) |-> h[i]]
    OBVIOUS
  <2> HIDE DEF g
  <2>5. IsWalk(g, n + 1, es, p)
    BY <2>3, <2>4 DEF IsWalk
  <2> QED
    BY <2>5
<1> HIDE DEF S
<1>3. Nat \subseteq S
  BY <1>1, <1>2, NatInductive
<1> QED
  BY <1>3 DEF S

LEMMA WalkTaken ==
    ASSUME NEW es, NEW p \in Paths
    PROVE  \E f : IsWalk(f, Len(p), es, p) /\ Walk(es, p) = f[Len(p)]
<1>1. Len(p) \in Nat
  BY DEF Paths
<1>2. \E f : f = [i \in 0..Len(p) |-> IF i = 0 THEN {[node |-> Root, links |-> 0]}
                                      ELSE Onward(f[i - 1], es, p[i])]
  <2>1. PICK f : IsWalk(f, Len(p), es, p)
    BY <1>1, WalkExists
  <2> QED
    BY <2>1, Zenon DEF IsWalk, Home
<1> DEFINE w == CHOOSE f : f = [i \in 0..Len(p) |-> IF i = 0 THEN {[node |-> Root, links |-> 0]}
                                                     ELSE Onward(f[i - 1], es, p[i])]
<1>3. w = [i \in 0..Len(p) |-> IF i = 0 THEN {[node |-> Root, links |-> 0]}
                               ELSE Onward(w[i - 1], es, p[i])]
  BY <1>2, Zenon
<1>4. Walk(es, p) = w[Len(p)]
  BY DEF Walk
<1> QED
  BY <1>3, <1>4 DEF IsWalk, Home

LEMMA WalkStarts == ASSUME NEW es PROVE Walk(es, <<>>) = Home
<1>1. <<>> \in Paths /\ Len(<<>>) = 0
  BY DEF Paths
<1>2. PICK f : IsWalk(f, 0, es, <<>>) /\ Walk(es, <<>>) = f[0]
  BY <1>1, WalkTaken
<1> QED
  BY <1>2 DEF IsWalk

LEMMA WalkGoesOn ==
    ASSUME NEW es, NEW p \in Paths, NEW x \in Names
    PROVE  Walk(es, Append(p, x)) = Onward(Walk(es, p), es, x)
<1>1. PICK m \in Nat : /\ Len(p) = m /\ Len(Append(p, x)) = m + 1 /\ Append(p, x) \in Paths
                       /\ Append(p, x)[m + 1] = x /\ \A i \in 1..m : p[i] = Append(p, x)[i]
  BY DEF Paths
<1>2. PICK f : IsWalk(f, m, es, p) /\ Walk(es, p) = f[m]
  BY <1>1, WalkTaken
<1>3. PICK g : /\ IsWalk(g, m + 1, es, Append(p, x))
               /\ Walk(es, Append(p, x)) = g[m + 1]
  BY <1>1, WalkTaken
<1>4. /\ \A i \in 0..m : f[i] = IF i = 0 THEN Home ELSE Onward(f[i - 1], es, p[i])
      /\ \A i \in 0..(m + 1) :
           g[i] = IF i = 0 THEN Home ELSE Onward(g[i - 1], es, Append(p, x)[i])
  BY <1>2, <1>3 DEF IsWalk
<1> DEFINE S == {k \in Nat : k <= m => f[k] = g[k]}
<1>5. 0 \in S
  BY <1>4
<1>6. ASSUME NEW k \in Nat, k \in S PROVE k + 1 \in S
  <2> SUFFICES ASSUME k + 1 <= m PROVE f[k + 1] = g[k + 1]
    OBVIOUS
  <2>1. k + 1 \in 0..m /\ k + 1 \in 0..(m + 1) /\ k + 1 \in 1..m /\ k + 1 # 0 /\ (k + 1) - 1 = k
    OBVIOUS
  <2>2. /\ f[k + 1] = Onward(f[k], es, p[k + 1])
        /\ g[k + 1] = Onward(g[k], es, Append(p, x)[k + 1])
    BY <1>4, <2>1
  <2>3. f[k] = g[k] /\ p[k + 1] = Append(p, x)[k + 1]
    BY <1>1, <1>6, <2>1
  <2> QED
    BY <2>2, <2>3
<1> HIDE DEF S
<1>7. Nat \subseteq S
  BY <1>5, <1>6, NatInductive
<1>8. f[m] = g[m]
  BY <1>7 DEF S
<1>9. g[m + 1] = Onward(g[m], es, x)
  <2>1. m + 1 \in 0..(m + 1) /\ m + 1 # 0 /\ (m + 1) - 1 = m
    OBVIOUS
  <2> QED
    BY <1>1, <1>4, <2>1
<1> QED
  BY <1>2, <1>3, <1>8, <1>9

-----------------------------------------------------------------------------
(***************************************************************************)
(* Paths that begin with another one.                                      *)
(***************************************************************************)
LEMMA PathLength == \A p \in Paths : Len(p) \in Nat
BY DEF Paths

LEMMA SamePath ==
    ASSUME NEW p \in Paths, NEW q \in Paths, Len(p) = Len(q), \A i \in 1..Len(p) : q[i] = p[i]
    PROVE  p = q
BY DEF Paths

LEMMA AppendPath ==
    ASSUME NEW p \in Paths, NEW x \in Names
    PROVE  /\ Append(p, x) \in Paths /\ Len(Append(p, x)) = Len(p) + 1
           /\ Append(p, x)[Len(p) + 1] = x /\ \A i \in 1..Len(p) : Append(p, x)[i] = p[i]
BY DEF Paths

LEMMA StartsOrder ==
    ASSUME NEW p \in Paths, NEW q \in Paths
    PROVE  /\ Starts(p, p)
           /\ Starts(q, p) /\ Len(q) <= Len(p) => p = q
           /\ \A r \in Paths : Starts(q, p) /\ Starts(r, q) => Starts(r, p)
           /\ \A r \in Paths : Starts(r, p) /\ Starts(r, q) => Starts(p, q) \/ Starts(q, p)
<1>1. Len(p) \in Nat /\ Len(q) \in Nat
  BY PathLength
<1>2. Starts(p, p)
  BY <1>1 DEF Starts
<1>3. Starts(q, p) /\ Len(q) <= Len(p) => p = q
  BY <1>1, SamePath DEF Starts
<1>4. ASSUME NEW r \in Paths, Starts(q, p), Starts(r, q) PROVE Starts(r, p)
  <2>1. Len(r) \in Nat
    BY PathLength
  <2> QED
    BY <1>1, <1>4, <2>1 DEF Starts
<1>5. ASSUME NEW r \in Paths, Starts(r, p), Starts(r, q) PROVE Starts(p, q) \/ Starts(q, p)
  BY <1>1, <1>5 DEF Starts
<1> QED
  BY <1>2, <1>3, <1>4, <1>5

LEMMA StartsAppend ==
    ASSUME NEW p \in Paths, NEW q \in Paths, NEW x \in Names
    PROVE  /\ Starts(Append(q, x), q)
           /\ Starts(Append(q, x), p) => p = Append(q, x) \/ Starts(q, p)
           /\ \A y \in Names : Starts(Append(q, x), Append(q, y)) => x = y
<1>1. Len(p) \in Nat /\ Len(q) \in Nat
  BY PathLength
<1>2. PICK r \in Paths : /\ r = Append(q, x) /\ Len(r) = Len(q) + 1
                         /\ \A i \in 1..Len(q) : r[i] = q[i]
  BY AppendPath
<1>3. Starts(r, q)
  BY <1>1, <1>2 DEF Starts
<1>4. Starts(r, p) => p = r \/ Starts(q, p)
  <2>1. Starts(r, p) /\ Len(p) = Len(r) => p = r
    BY StartsOrder DEF Starts
  <2>2. Starts(r, p) /\ Len(p) <= Len(q) => Starts(q, p)
    BY <1>1, <1>2 DEF Starts
  <2> QED
    BY <1>1, <1>2, <2>1, <2>2 DEF Starts
<1>5. ASSUME NEW y \in Names, Starts(r, Append(q, y)) PROVE x = y
  <2>1. PICK t \in Paths : t = Append(q, y) /\ Len(t) = Len(q) + 1 /\ t[Len(q) + 1] = y
    BY AppendPath
  <2>2. r[Len(q) + 1] = x
    BY <1>2, AppendPath
  <2> QED
    BY <1>1, <1>5, <2>1, <2>2 DEF Starts
<1> QED
  BY <1>2, <1>3, <1>4, <1>5

-----------------------------------------------------------------------------
(***************************************************************************)
(* Where walks lead.                                                       *)
(***************************************************************************)
LEMMA OnwardFrom ==
    ASSUME NEW ws, NEW es, NEW x, NEW w
    PROVE  w \in Onward(ws, es, x) <=>
             \E v \in ws, e \in es :
               /\ e.dir = v.node /\ e.name = x
               /\ w = [node |-> e.node, links |-> v.links + (IF e.link THEN 1 ELSE 0)]
<1>1. ASSUME w \in Onward(ws, es, x)
      PROVE  \E v \in ws, e \in es :
               /\ e.dir = v.node /\ e.name = x
               /\ w = [node |-> e.node, links |-> v.links + (IF e.link THEN 1 ELSE 0)]
  <2>1. PICK s \in ws \X es :
          /\ s[2].dir = s[1].node /\ s[2].name = x
          /\ w = [node |-> s[2].node, links |-> s[1].links + (IF s[2].link THEN 1 ELSE 0)]
    BY <1>1 DEF Onward
  <2>2. s[1] \in ws /\ s[2] \in es
    BY <2>1
  <2> QED
    BY <2>1, <2>2
<1>2. ASSUME NEW v \in ws, NEW e \in es, e.dir = v.node, e.name = x,
             w = [node |-> e.node, links |-> v.links + (IF e.link THEN 1 ELSE 0)]
      PROVE  w \in Onward(ws, es, x)
  <2>1. <<v, e>> \in ws \X es /\ <<v, e>>[1] = v /\ <<v, e>>[2] = e
    OBVIOUS
  <2>2. <<v, e>> \in {s \in ws \X es : s[2].dir = s[1].node /\ s[2].name = x}
    BY <1>2, <2>1
  <2> QED
    BY <1>2, <2>1, <2>2 DEF Onward
<1> QED
  BY <1>1, <1>2

(* A walk counts its links, along the entries that can be it leads to one  *)
(* place at most, and more entries only lead to more places.               *)
LEMMA WalkLinks ==
    ASSUME NEW es, NEW p \in Paths, NEW w \in Walk(es, p)
    PROVE  w.links \in Nat
<1> DEFINE S == {q \in Paths : \A v \in Walk(es, q) : v.links \in Nat}
<1>1. <<>> \in S
  <2>1. <<>> \in Paths
    BY DEF Paths
  <2> QED
    BY <2>1, WalkStarts DEF Home
<1>2. ASSUME NEW q \in Paths, NEW x \in Names, q \in S PROVE Append(q, x) \in S
  <2>1. \A v \in Onward(Walk(es, q), es, x) : v.links \in Nat
    BY <1>2, OnwardFrom
  <2> QED
    BY <2>1, WalkGoesOn, AppendPath
<1> HIDE DEF S
<1>3. Paths \subseteq S
  BY <1>1, <1>2, PathInductive
<1> QED
  BY <1>3 DEF S

LEMMA WalkOne ==
    ASSUME NEW es \in SUBSET Tree, NEW p \in Paths, NEW v \in Walk(es, p), NEW w \in Walk(es, p)
    PROVE  v = w
<1> DEFINE S == {q \in Paths : \A a, b \in Walk(es, q) : a = b}
<1>1. <<>> \in S
  <2>1. <<>> \in Paths
    BY DEF Paths
  <2> QED
    BY <2>1, WalkStarts DEF Home
<1>2. ASSUME NEW q \in Paths, NEW x \in Names, q \in S PROVE Append(q, x) \in S
  <2>1. ASSUME NEW a \in Onward(Walk(es, q), es, x), NEW b \in Onward(Walk(es, q), es, x)
        PROVE  a = b
    <3>1. PICK c \in Walk(es, q), e \in es :
            /\ e.dir = c.node /\ e.name = x
            /\ a = [node |-> e.node, links |-> c.links + (IF e.link THEN 1 ELSE 0)]
      BY OnwardFrom
    <3>2. PICK d \in Walk(es, q), f \in es :
            /\ f.dir = d.node /\ f.name = x
            /\ b = [node |-> f.node, links |-> d.links + (IF f.link THEN 1 ELSE 0)]
      BY OnwardFrom
    <3>3. c = d
      BY <1>2
    <3>4. e = f
      BY <3>1, <3>2, <3>3, ConstantsOK
    <3> QED
      BY <3>1, <3>2, <3>3, <3>4
  <2>2. Walk(es, Append(q, x)) = Onward(Walk(es, q), es, x) /\ Append(q, x) \in Paths
    BY WalkGoesOn, AppendPath
  <2> QED
    BY <2>1, <2>2, Zenon
<1> HIDE DEF S
<1>3. Paths \subseteq S
  BY <1>1, <1>2, PathInductive
<1> QED
  BY <1>3 DEF S

LEMMA WalkGrows ==
    ASSUME NEW es, NEW fs, es \subseteq fs, NEW p \in Paths
    PROVE  Walk(es, p) \subseteq Walk(fs, p)
<1> DEFINE S == {q \in Paths : Walk(es, q) \subseteq Walk(fs, q)}
<1>1. <<>> \in S
  <2>1. <<>> \in Paths
    BY DEF Paths
  <2> QED
    BY <2>1, WalkStarts
<1>2. ASSUME NEW q \in Paths, NEW x \in Names, q \in S PROVE Append(q, x) \in S
  <2>1. ASSUME NEW w \in Onward(Walk(es, q), es, x) PROVE w \in Onward(Walk(fs, q), fs, x)
    <3>1. PICK v \in Walk(es, q), e \in es :
            /\ e.dir = v.node /\ e.name = x
            /\ w = [node |-> e.node, links |-> v.links + (IF e.link THEN 1 ELSE 0)]
      BY OnwardFrom
    <3>2. v \in Walk(fs, q) /\ e \in fs
      BY <1>2
    <3> QED
      BY <3>1, <3>2, OnwardFrom
  <2>2. /\ Walk(es, Append(q, x)) = Onward(Walk(es, q), es, x)
        /\ Walk(fs, Append(q, x)) = Onward(Walk(fs, q), fs, x)
        /\ Append(q, x) \in Paths
    BY WalkGoesOn, AppendPath
  <2> QED
    BY <2>1, <2>2
<1> HIDE DEF S
<1>3. Paths \subseteq S
  BY <1>1, <1>2, PathInductive
<1> QED
  BY <1>3 DEF S

(* A walk along a path goes through every directory on the way.            *)
LEMMA WalkThrough ==
    ASSUME NEW es, NEW q \in Paths, NEW p \in Paths, Starts(q, p), p # q, NEW w \in Walk(es, q)
    PROVE  \E v \in Walk(es, p), e \in es :
             v.links <= w.links /\ e.dir = v.node /\ e.name = q[Len(p) + 1]
<1> DEFINE Through(r) ==
      \A a \in Walk(es, r) : \E v \in Walk(es, p), e \in es :
        v.links <= a.links /\ e.dir = v.node /\ e.name = r[Len(p) + 1]
<1> DEFINE S == {r \in Paths : Starts(r, p) /\ p # r => Through(r)}
<1>0. Len(p) \in Nat
  BY PathLength
<1>1. <<>> \in S
  <2>1. <<>> \in Paths /\ Len(<<>>) = 0
    BY DEF Paths
  <2>2. Starts(<<>>, p) => p = <<>>
    BY <1>0, <2>1, StartsOrder DEF Starts
  <2> QED
    BY <2>1, <2>2
<1>2. ASSUME NEW r \in Paths, NEW x \in Names, r \in S PROVE Append(r, x) \in S
  <2> SUFFICES ASSUME Starts(Append(r, x), p), p # Append(r, x) PROVE Through(Append(r, x))
    BY AppendPath
  <2>1. Starts(r, p) /\ Len(r) \in Nat
    BY StartsAppend, PathLength
  <2>2. Walk(es, Append(r, x)) = Onward(Walk(es, r), es, x)
    BY WalkGoesOn
  <2> SUFFICES ASSUME NEW a \in Onward(Walk(es, r), es, x)
               PROVE  \E v \in Walk(es, p), e \in es :
                        v.links <= a.links /\ e.dir = v.node
                        /\ e.name = Append(r, x)[Len(p) + 1]
    BY <2>2
  <2>3. PICK c \in Walk(es, r), e \in es :
          /\ e.dir = c.node /\ e.name = x
          /\ a = [node |-> e.node, links |-> c.links + (IF e.link THEN 1 ELSE 0)]
    BY OnwardFrom
  <2>4. c.links \in Nat /\ c.links <= a.links
    BY <2>3, WalkLinks
  <2>5. CASE p = r
    BY <2>3, <2>4, <2>5, AppendPath
  <2>6. CASE p # r
    <3>1. PICK v \in Walk(es, p), f \in es :
            v.links <= c.links /\ f.dir = v.node /\ f.name = r[Len(p) + 1]
      BY <1>2, <2>1, <2>6
    <3>2. Len(p) + 1 \in 1..Len(r)
      <4>1. ~(Len(r) <= Len(p))
        BY <2>1, <2>6, StartsOrder
      <4> QED
        BY <1>0, <2>1, <4>1
    <3>3. Append(r, x)[Len(p) + 1] = r[Len(p) + 1]
      BY <3>2, AppendPath
    <3>4. v.links \in Nat /\ v.links <= a.links
      <4>1. v.links \in Nat /\ a.links \in Nat
        <5>1. a.links = c.links + (IF e.link THEN 1 ELSE 0)
          BY <2>3
        <5> QED
          BY <2>4, <5>1, WalkLinks
      <4> QED
        BY <2>4, <3>1, <4>1
    <3> QED
      BY <3>1, <3>3, <3>4
  <2> QED
    BY <2>5, <2>6
<1> HIDE DEF S
<1>3. Paths \subseteq S
  BY <1>1, <1>2, PathInductive
<1>4. q \in S
  BY <1>3
<1> QED
  BY <1>4 DEF S

-----------------------------------------------------------------------------
(***************************************************************************)
(* The trees that are due or handed on (ScanDir) have nothing in common,   *)
(* with each other or with the list, but what was put back.                *)
(***************************************************************************)
Apart(a, b) == ~Starts(a, b) /\ ~Starts(b, a)
OneDir ==
    \A t \in Threads : Reading(t) =>
      \A e \in Left(t) : /\ e.dir = dirp[t]
                         /\ left[t][e] > 1 => Append(filename[t], e.name) \in again
AllApart ==
    /\ \A s, t \in Threads : s # t =>
         \A a \in Due(s), b \in Due(t) : Firm(a) /\ Firm(b) => Apart(a, b)
    /\ \A t \in Threads : \A a \in Due(t), b \in Handed : Firm(a) /\ Firm(b) => Apart(a, b)
Unlisted ==
    \A i \in 1..Len(list) : Firm(list[i]) =>
      /\ \A t \in Threads : \A a \in Due(t) : ~Starts(list[i], a)
      /\ \A b \in Handed : ~Starts(list[i], b)

OnceInv == ScanInv /\ OneDir /\ AllApart /\ Unlisted /\ ListedOnce

(* All of these are paths.                                                 *)
LEMMA DuePaths ==
    ASSUME ScanInv
    PROVE  /\ \A t \in Threads : Due(t) \subseteq Paths /\ filename[t] \in Paths
           /\ \A t \in Threads : \A e \in Left(t) : e \in Tree /\ e.name \in Names
           /\ Handed \subseteq Paths /\ again \subseteq Paths
           /\ Len(list) \in Nat /\ \A i \in 1..Len(list) : list[i] \in Paths
<1>1. /\ \A t \in Threads : filename[t] \in Paths /\ Left(t) \subseteq Tree
      /\ list \in Seq(Paths) /\ again \subseteq Paths
  BY DEF ScanInv, TypeOK, Left
<1>2. \A e \in Tree : e.name \in Names
  BY DEF Names
<1>3. ASSUME NEW t \in Threads PROVE Due(t) \subseteq Paths
  <2>1. \A e \in Left(t) : Append(filename[t], e.name) \in Paths
    BY <1>1, <1>2, AppendPath
  <2> QED
    BY <1>1, <2>1 DEF Due
<1>4. Handed \subseteq Paths
  BY DEF Handed, Hands, ScanInv, Clean
<1>5. Len(list) \in Nat /\ \A i \in 1..Len(list) : list[i] \in Paths
  BY <1>1
<1> QED
  BY <1>1, <1>2, <1>3, <1>4, <1>5

(* A path is firm if one that begins with it is; what was put back is not. *)
LEMMA FirmAbove ==
    ASSUME ScanInv, NEW p \in Paths, NEW q \in Paths
    PROVE  Firm(p) /\ Starts(p, q) => Firm(q)
<1>1. \A r \in again : Starts(p, q) /\ Starts(q, r) => Starts(p, r)
  BY DuePaths, StartsOrder
<1> QED
  BY <1>1 DEF Firm

LEMMA NotFirm == ASSUME ScanInv PROVE \A p \in again : ~Firm(p)
<1>1. \A p \in again : Starts(p, p)
  BY DuePaths, StartsOrder
<1> QED
  BY <1>1 DEF Firm

(* What these are does not depend on the state, or on the history only.    *)
LEMMA SameOrder ==
    /\ \A a, b : ((Apart(a, b))' <=> Apart(a, b)) /\ ((Starts(a, b))' <=> Starts(a, b))
    /\ again \subseteq again' => \A a : Firm(a)' => Firm(a)
    /\ again' = again => \A a : Firm(a)' <=> Firm(a)
BY DEF Apart, Starts, Firm

(* A step of the thread whose turn it is changes what this thread has yet  *)
(* to do, and what is handed on.                                           *)
LEMMA Turn ==
    ASSUME ScanInv, NEW t \in Threads, Running(t), NEW label, pc' = [pc EXCEPT ![t] = label]
    PROVE  /\ pc'[t] = label
           /\ Handed = IF pc[t] \in Hands THEN {path} ELSE {}
           /\ Handed' = IF label \in Hands THEN {path'} ELSE {}
           /\ \A s \in Threads \ {t} :
                filename'[s] = filename[s] /\ left'[s] = left[s] => Due(s)' = Due(s)
<1>1. pc'[t] = label /\ \A s \in Threads \ {t} : pc'[s] = pc[s]
  BY DEF ScanInv, TypeOK
<1>2. \A s \in Threads \ {t} : pc[s] \notin Hands
  BY OthersWait DEF Hands
<1>3. Handed = IF pc[t] \in Hands THEN {path} ELSE {}
  BY <1>2 DEF Handed
<1>4. Handed' = IF label \in Hands THEN {path'} ELSE {}
  BY <1>1, <1>2 DEF Handed, Hands
<1>5. \A s \in Threads \ {t} :
        filename'[s] = filename[s] /\ left'[s] = left[s] => Due(s)' = Due(s)
  BY <1>1 DEF Due, Reading, Left
<1> QED
  BY <1>1, <1>3, <1>4, <1>5

(* A directory that has been opened is the one its path leads to, and each *)
(* entry of it may be read once.                                           *)
LEMMA Opened ==
    ASSUME ScanInv, NEW t \in Threads, Open(t), ~Exit("exited")
    PROVE  /\ pc[t] = "open" /\ pc' = [pc EXCEPT ![t] = "read"] /\ pc'[t] = "read"
           /\ \A s \in Threads \ {t} :
                pc'[s] = pc[s] /\ left'[s] = left[s] /\ dirp'[s] = dirp[s]
           /\ dirp'[t] \in DirNodes /\ Finds(present, filename[t], {dirp'[t]})
           /\ \A e : e \in Left(t)' <=>
                e \in Tree /\ e.dir = dirp'[t] /\ (e \in present \/ e \notin touched)
           /\ \A e \in Tree : ~(left'[t][e] > 1)
           /\ UNCHANGED <<present, touched, changes, again, failed, path, list, filename, outcome>>
<1>1. PICK d \in DirNodes :
        /\ Finds(present, filename[t], {d}) /\ dirp' = [dirp EXCEPT ![t] = d]
        /\ left' = [left EXCEPT ![t] = [e \in Tree |->
             IF e.dir = d /\ (e \in present \/ e \notin touched) THEN 1 ELSE 0]]
  BY DEF Open
<1>2. /\ pc[t] = "open" /\ pc' = [pc EXCEPT ![t] = "read"]
      /\ UNCHANGED <<present, touched, changes, again, failed, path, list, filename, outcome>>
  BY DEF Open, Goto, world, shared
<1>3. DOMAIN pc = Threads /\ DOMAIN left = Threads /\ DOMAIN dirp = Threads
  BY DEF ScanInv, TypeOK
<1>4. /\ dirp'[t] = d /\ pc'[t] = "read"
      /\ \A e \in Tree :
           left'[t][e] = IF e.dir = d /\ (e \in present \/ e \notin touched) THEN 1 ELSE 0
      /\ \A s \in Threads \ {t} : pc'[s] = pc[s] /\ left'[s] = left[s] /\ dirp'[s] = dirp[s]
  BY <1>1, <1>2, <1>3
<1>5. \A e : e \in Left(t)' <=>
        e \in Tree /\ e.dir = dirp'[t] /\ (e \in present \/ e \notin touched)
  BY <1>4 DEF Left
<1>6. \A e \in Tree : ~(left'[t][e] > 1)
  BY <1>4
<1>7. dirp'[t] \in DirNodes /\ Finds(present, filename[t], {dirp'[t]})
  BY <1>1, <1>4
<1> QED
  BY <1>2, <1>4, <1>5, <1>6, <1>7, Zenon

(* An entry that has been read may be read once less.                      *)
LEMMA HasRead ==
    ASSUME ScanInv, NEW t \in Threads, NEW e \in Left(t), left' = [left EXCEPT ![t][e] = @ - 1]
    PROVE  /\ \A s \in Threads \ {t} : left'[s] = left[s]
           /\ \A f \in Tree \ {e} : left'[t][f] = left[t][f]
           /\ left[t][e] \in Nat \ {0} /\ left'[t][e] = left[t][e] - 1
           /\ Left(t)' \subseteq Left(t) /\ Left(t) \subseteq Left(t)' \cup {e}
           /\ e \in Left(t)' => left[t][e] > 1
<1>1. left \in [Threads -> [Tree -> Nat]] /\ e \in Tree /\ left[t][e] > 0
  BY DEF ScanInv, TypeOK, Left
<1>2. /\ \A s \in Threads \ {t} : left'[s] = left[s]
      /\ \A f \in Tree \ {e} : left'[t][f] = left[t][f]
      /\ left[t][e] \in Nat \ {0} /\ left'[t][e] = left[t][e] - 1
  BY <1>1
<1> QED
  BY <1>1, <1>2 DEF Left

(* What is put back may be read once more by those who read its directory. *)
LEMMA HasPutBack ==
    ASSUME ScanInv, NEW e \in Tree, PutBack(e), UNCHANGED <<pc, filename>>
    PROVE  /\ again \subseteq again'
           /\ \A p \in again' \ again :
                \E t \in Threads : Reading(t) /\ p = Append(filename[t], e.name)
           /\ \A t \in Threads : \A f \in Tree :
                \/ left'[t][f] = left[t][f]
                \/ f = e /\ Reading(t) /\ dirp[t] = e.dir
                   /\ Append(filename[t], e.name) \in again'
           /\ \A t \in Threads : (Reading(t)' <=> Reading(t)) /\ Left(t) \subseteq Left(t)'
           /\ \A t \in Threads : Due(t) \subseteq Due(t)' /\ Due(t)' \subseteq Due(t) \cup again'
<1>1. left \in [Threads -> [Tree -> Nat]]
  BY DEF ScanInv, TypeOK
<1>2. /\ again \subseteq again'
      /\ \A p \in again' \ again :
           \E t \in Threads : Reading(t) /\ p = Append(filename[t], e.name)
      /\ \A t \in Threads : Reading(t) /\ dirp[t] = e.dir => Append(filename[t], e.name) \in again'
  BY DEF PutBack
<1>3. \A t \in Threads :
        left'[t] = IF Reading(t) /\ dirp[t] = e.dir THEN [left[t] EXCEPT ![e] = @ + 1] ELSE left[t]
  BY DEF PutBack
<1>4. \A t \in Threads : \A f \in Tree :
        \/ left'[t][f] = left[t][f]
        \/ f = e /\ Reading(t) /\ dirp[t] = e.dir /\ left'[t][f] = left[t][f] + 1
  BY <1>1, <1>3
<1>5. \A t \in Threads : (Reading(t)' <=> Reading(t)) /\ Left(t) \subseteq Left(t)'
  <2>1. \A t \in Threads : Reading(t)' <=> Reading(t)
    BY DEF Reading
  <2>2. ASSUME NEW t \in Threads, NEW f \in Left(t) PROVE f \in Left(t)'
    <3>1. f \in Tree /\ left[t][f] \in Nat /\ left[t][f] > 0
      BY <1>1 DEF Left
    <3>2. left'[t][f] > 0
      BY <1>4, <3>1
    <3> QED
      BY <3>1, <3>2 DEF Left
  <2> QED
    BY <2>1, <2>2
<1>6. ASSUME NEW t \in Threads
      PROVE  Due(t) \subseteq Due(t)' /\ Due(t)' \subseteq Due(t) \cup again'
  <2>1. CASE ~Reading(t)
    BY <2>1 DEF Due, Reading
  <2>2. CASE Reading(t)
    <3>1. /\ Due(t) = {Append(filename[t], f.name) : f \in Left(t)}
          /\ Due(t)' = {Append(filename[t], f.name) : f \in Left(t)'}
      BY <2>2 DEF Due, Reading
    <3>2. \A f \in Left(t)' : f \in Left(t) \/ Append(filename[t], f.name) \in again'
      BY <1>2, <1>4 DEF Left
    <3> QED
      BY <1>5, <3>1, <3>2
  <2> QED
    BY <2>1, <2>2
<1> QED
  BY <1>2, <1>4, <1>5, <1>6

(* Nothing more to do but what was put back, and nothing listed.           *)
LEMMA LessDue ==
    ASSUME OnceInv, ScanInv', OneDir', list' = list, again \subseteq again',
           \A t \in Threads : Due(t)' \subseteq Due(t) \cup again', Handed' \subseteq Handed
    PROVE  OnceInv'
<1>1. \A a : Firm(a)' => Firm(a) /\ a \notin again'
  <2>1. again' \subseteq Paths /\ \A p \in Paths : (Starts(p, p))'
    BY StartsOrder, SameOrder DEF ScanInv, TypeOK
  <2> QED
    BY <2>1, SameOrder DEF Firm
<1>2. AllApart'
  <2>1. ASSUME NEW r \in Threads, NEW s \in Threads, r # s, NEW a \in Due(r)', NEW b \in Due(s)',
               Firm(a)', Firm(b)'
        PROVE  Apart(a, b)
    BY <1>1, <2>1 DEF OnceInv, AllApart
  <2>2. ASSUME NEW s \in Threads, NEW a \in Due(s)', NEW b \in Handed', Firm(a)', Firm(b)'
        PROVE  Apart(a, b)
    BY <1>1, <2>2 DEF OnceInv, AllApart
  <2> QED
    BY <2>1, <2>2, SameOrder DEF AllApart
<1>3. Unlisted'
  <2>1. ASSUME NEW i \in 1..Len(list), Firm(list[i])', NEW a,
               a \in Handed' \/ \E t \in Threads : a \in Due(t)'
        PROVE  ~Starts(list[i], a)
    <3>1. CASE a \in again'
      BY <2>1, <3>1, SameOrder DEF Firm
    <3>2. CASE a \notin again'
      BY <1>1, <2>1, <3>2 DEF OnceInv, Unlisted
    <3> QED
      BY <3>1, <3>2
  <2> QED
    BY <2>1, SameOrder DEF Unlisted
<1>4. ListedOnce'
  BY <1>1 DEF OnceInv, ListedOnce
<1> QED
  BY <1>2, <1>3, <1>4 DEF OnceInv

(* What is apart from a directory is apart from what is in it.             *)
LEMMA Beneath ==
    ASSUME NEW p \in Paths, NEW b \in Paths, NEW x \in Names
    PROVE  /\ Apart(p, b) => Apart(Append(p, x), b)
           /\ Starts(b, Append(p, x)) => Starts(b, p)
<1>1. Append(p, x) \in Paths /\ Starts(Append(p, x), p)
  BY AppendPath, StartsAppend
<1>2. Starts(b, Append(p, x)) => Starts(b, p)
  BY <1>1, StartsOrder
<1>3. Starts(Append(p, x), b) => Starts(b, p) \/ Starts(p, b)
  BY <1>1, StartsAppend
<1> QED
  BY <1>2, <1>3 DEF Apart

LEMMA OnceStep == OnceInv /\ [Next]_vars => OnceInv'
<1> SUFFICES ASSUME OnceInv, [Next]_vars PROVE OnceInv'
  OBVIOUS
<1>0. ScanInv /\ OneDir /\ AllApart /\ Unlisted /\ ListedOnce
  BY DEF OnceInv
<1>a. ScanInv'
  BY <1>0, ScanStep
<1>b. ASSUME UNCHANGED <<again, pc, path, list, filename, dirp, left>> PROVE OnceInv'
  <2>1. OneDir' /\ Handed' = Handed /\ \A t \in Threads : Due(t)' = Due(t)
    BY <1>0, <1>b DEF OneDir, Handed, Due, Reading, Left
  <2> QED
    BY <1>a, <1>b, <2>1, LessDue
<1>c. ASSUME NEW how, Exit(how) PROVE OnceInv'
  BY <1>b, <1>c DEF Exit, world, shared, threads
<1>1. ASSUME NEW t \in Threads, Copy(t) PROVE OnceInv'
  <2>1. /\ pc[t] = "copy" /\ pc' = [pc EXCEPT ![t] = "open"]
        /\ filename' = [filename EXCEPT ![t] = path]
        /\ UNCHANGED <<again, left, dirp, list>>
    BY <1>1 DEF Copy, Goto, world, shared
  <2>2. /\ Handed = {path} /\ Handed' = {} /\ pc'[t] = "open" /\ filename'[t] = path
        /\ \A s \in Threads \ {t} : Due(s)' = Due(s)
    <3>1. filename'[t] = path /\ \A s \in Threads \ {t} : filename'[s] = filename[s]
      BY <1>0, <2>1 DEF ScanInv, TypeOK
    <3>2. Handed = {path} /\ Handed' = {} /\ pc'[t] = "open"
      BY <1>0, <2>1, Turn DEF Running, Hands
    <3>3. \A s \in Threads \ {t} : Due(s)' = Due(s)
      BY <1>0, <2>1, <3>1, Turn DEF Running
    <3> QED
      BY <3>1, <3>2, <3>3
  <2>3. Due(t)' = {path}
    BY <2>2 DEF Due
  <2>4. AllApart'
    <3>1. ASSUME NEW s \in Threads \ {t}, NEW a \in Due(s), Firm(a), Firm(path)
          PROVE  Apart(a, path) /\ Apart(path, a)
      BY <1>0, <2>2, <3>1 DEF AllApart, Apart
    <3>2. ASSUME NEW r \in Threads, NEW s \in Threads, r # s, NEW a \in Due(r)', NEW b \in Due(s)',
                 Firm(a), Firm(b)
          PROVE  Apart(a, b)
      BY <1>0, <2>2, <2>3, <3>1, <3>2 DEF AllApart
    <3> QED
      BY <2>1, <2>2, <3>2, SameOrder DEF AllApart
  <2>5. Unlisted'
    BY <1>0, <2>1, <2>2, <2>3, SameOrder DEF Unlisted
  <2>6. ListedOnce'
    BY <1>0, <2>1, SameOrder DEF ListedOnce
  <2>7. OneDir'
    <3>1. /\ pc'[t] = "open"
          /\ \A s \in Threads \ {t} : pc'[s] = pc[s] /\ filename'[s] = filename[s]
      BY <1>0, <2>1 DEF ScanInv, TypeOK
    <3> QED
      BY <1>0, <2>1, <3>1 DEF OneDir, Reading, Left
  <2> QED
    BY <1>a, <2>4, <2>5, <2>6, <2>7 DEF OnceInv
<1>2. ASSUME NEW t \in Threads, Open(t) PROVE OnceInv'
  <2>1. CASE Exit("exited")
    BY <1>c, <2>1
  <2>2. CASE ~Exit("exited")
    <3>1. /\ pc[t] = "open" /\ pc' = [pc EXCEPT ![t] = "read"] /\ pc'[t] = "read"
          /\ \A s \in Threads \ {t} : pc'[s] = pc[s] /\ left'[s] = left[s] /\ dirp'[s] = dirp[s]
          /\ \A e \in Left(t)' : e \in Tree /\ e.dir = dirp'[t] /\ ~(left'[t][e] > 1)
          /\ UNCHANGED <<again, path, list, filename>>
      BY <1>0, <1>2, <2>2, Opened
    <3>2. Handed = {} /\ Handed' = {} /\ \A s \in Threads \ {t} : Due(s)' = Due(s)
      BY <1>0, <3>1, Turn DEF Running, Hands
    <3>3. Due(t) = {filename[t]} /\ Due(t)' = {Append(filename[t], e.name) : e \in Left(t)'}
      BY <3>1 DEF Due, Reading
    <3>4. /\ filename[t] \in Paths
          /\ \A b \in Due(t)' : \E x \in Names :
               b = Append(filename[t], x) /\ b \in Paths /\ (Firm(b) => Firm(filename[t]))
      <4>1. filename[t] \in Paths
        BY <1>0, DuePaths
      <4>2. ASSUME NEW x \in Names
            PROVE  /\ Append(filename[t], x) \in Paths
                   /\ Firm(Append(filename[t], x)) => Firm(filename[t])
        BY <1>0, <4>1, AppendPath, StartsAppend, FirmAbove
      <4>3. \A e \in Left(t)' : e.name \in Names
        BY <3>1 DEF Names
      <4> QED
        BY <3>3, <4>1, <4>2, <4>3
    <3>5. OneDir'
      <4>1. ASSUME NEW s \in Threads \ {t}
            PROVE  Left(s)' = Left(s) /\ (Reading(s)' <=> Reading(s))
        BY <3>1 DEF Left, Reading
      <4> QED
        BY <1>0, <3>1, <4>1 DEF OneDir
    <3>6. ASSUME NEW s \in Threads \ {t}, NEW a \in Due(s), NEW b \in Due(t)', Firm(a), Firm(b)
          PROVE  Apart(a, b) /\ Apart(b, a)
      <4>1. PICK x \in Names : b = Append(filename[t], x)
        BY <3>4
      <4>2. Apart(filename[t], a) /\ a \in Paths
        BY <1>0, <3>3, <3>4, <3>6, DuePaths DEF AllApart, Apart
      <4>3. Apart(b, a)
        BY <3>4, <4>1, <4>2, Beneath
      <4> QED
        BY <4>3 DEF Apart
    <3>7. AllApart'
      <4>1. ASSUME NEW r \in Threads, NEW s \in Threads, r # s, NEW a \in Due(r)', NEW b \in Due(s)',
                   Firm(a), Firm(b)
            PROVE  Apart(a, b)
        BY <1>0, <3>2, <3>6, <4>1 DEF AllApart
      <4> QED
        BY <3>1, <3>2, <4>1, SameOrder DEF AllApart
    <3>8. Unlisted'
      <4>1. ASSUME NEW i \in 1..Len(list), Firm(list[i]), NEW b \in Due(t)'
            PROVE  ~Starts(list[i], b)
        <5>1. PICK x \in Names : b = Append(filename[t], x)
          BY <3>4
        <5>2. ~Starts(list[i], filename[t]) /\ list[i] \in Paths
          BY <1>0, <3>3, <4>1, DuePaths DEF Unlisted
        <5> QED
          BY <3>4, <5>1, <5>2, Beneath
      <4>2. ASSUME NEW i \in 1..Len(list), Firm(list[i]), NEW s \in Threads, NEW b \in Due(s)'
            PROVE  ~Starts(list[i], b)
        BY <1>0, <3>2, <4>1, <4>2 DEF Unlisted
      <4> QED
        BY <3>1, <3>2, <4>2, SameOrder DEF Unlisted
    <3>9. ListedOnce'
      BY <1>0, <3>1, SameOrder DEF ListedOnce
    <3> QED
      BY <1>a, <3>5, <3>7, <3>8, <3>9 DEF OnceInv
  <2> QED
    BY <2>1, <2>2
<1>3. ASSUME NEW t \in Threads, Read(t) PROVE OnceInv'
  <2>1. PICK e \in Left(t) :
          /\ pc[t] = "read" /\ pc' = [pc EXCEPT ![t] = "stat"]
          /\ path' = Append(filename[t], e.name) /\ left' = [left EXCEPT ![t][e] = @ - 1]
          /\ UNCHANGED <<again, list, filename, dirp>>
    BY <1>3 DEF Read, ReadEntry, Goto, world
  <2>2. /\ \A s \in Threads \ {t} : left'[s] = left[s]
        /\ Left(t)' \subseteq Left(t) /\ (e \in Left(t)' => left[t][e] > 1)
        /\ \A f \in Left(t) : left'[t][f] > 1 => left[t][f] > 1
    <3>1. /\ \A s \in Threads \ {t} : left'[s] = left[s]
          /\ \A f \in Tree \ {e} : left'[t][f] = left[t][f]
          /\ left[t][e] \in Nat \ {0} /\ left'[t][e] = left[t][e] - 1
          /\ Left(t)' \subseteq Left(t) /\ (e \in Left(t)' => left[t][e] > 1)
      BY <1>0, <2>1, HasRead
    <3>2. \A f \in Left(t) : f \in Tree
      BY DEF Left
    <3>3. \A f \in Left(t) : left'[t][f] > 1 => left[t][f] > 1
      BY <3>1, <3>2
    <3> QED
      BY <3>1, <3>3
  <2>3. /\ Handed = {} /\ Handed' = {path'} /\ pc'[t] = "stat"
        /\ \A s \in Threads \ {t} : Due(s)' = Due(s)
    BY <1>0, <2>1, <2>2, Turn DEF Running, Hands
  <2>4. /\ Due(t) = {Append(filename[t], f.name) : f \in Left(t)}
        /\ Due(t)' = {Append(filename[t], f.name) : f \in Left(t)'}
    BY <2>1, <2>3 DEF Due, Reading
  <2>5. Due(t)' \subseteq Due(t) /\ path' \in Due(t)
    BY <2>1, <2>2, <2>4
  <2>6. ASSUME NEW a \in Due(t)', Firm(a), Firm(path') PROVE Apart(a, path')
    <3>1. PICK f \in Left(t)' : a = Append(filename[t], f.name)
      BY <2>4
    <3>2. /\ filename[t] \in Paths /\ f.name \in Names /\ e.name \in Names
          /\ f \in Tree /\ e \in Tree /\ f.dir = e.dir
      BY <1>0, <2>1, <2>2, DuePaths DEF OneDir, Reading
    <3>3. f # e
      <4> SUFFICES ASSUME f = e PROVE FALSE
        OBVIOUS
      <4>1. Append(filename[t], e.name) \in again
        BY <1>0, <2>1, <2>2 DEF OneDir, Reading
      <4> QED
        BY <1>0, <2>1, <2>6, <4>1, NotFirm
    <3>4. f.name # e.name
      BY <3>2, <3>3, ConstantsOK
    <3> QED
      BY <2>1, <3>1, <3>2, <3>4, StartsAppend DEF Apart
  <2>7. AllApart'
    <3>1. ASSUME NEW r \in Threads, NEW s \in Threads, r # s, NEW a \in Due(r)', NEW b \in Due(s)',
                 Firm(a), Firm(b)
          PROVE  Apart(a, b)
      BY <1>0, <2>3, <2>5, <3>1 DEF AllApart
    <3>2. ASSUME NEW s \in Threads, NEW a \in Due(s)', Firm(a), Firm(path') PROVE Apart(a, path')
      BY <1>0, <2>3, <2>5, <2>6, <3>2 DEF AllApart
    <3>3. again' = again
      BY <2>1
    <3> QED
      BY <2>3, <3>1, <3>2, <3>3, SameOrder DEF AllApart
  <2>8. Unlisted'
    <3>1. again' = again /\ list' = list /\ \A s \in Threads : Due(s)' \subseteq Due(s)
      BY <2>1, <2>3, <2>5
    <3>2. \A i \in 1..Len(list) : Firm(list[i]) => ~Starts(list[i], path')
      BY <1>0, <2>5 DEF Unlisted
    <3> QED
      BY <1>0, <2>3, <3>1, <3>2, SameOrder DEF Unlisted
  <2>9. ListedOnce'
    BY <1>0, <2>1, SameOrder DEF ListedOnce
  <2>10. OneDir'
    <3>1. ASSUME NEW s \in Threads \ {t}
          PROVE  Left(s)' = Left(s) /\ (Reading(s)' <=> Reading(s))
      <4>1. pc'[s] = pc[s]
        BY <1>0, <2>1 DEF ScanInv, TypeOK
      <4> QED
        BY <2>2, <4>1 DEF Left, Reading
    <3>2. Reading(t)
      BY <2>1 DEF Reading
    <3> QED
      BY <1>0, <2>1, <2>2, <3>1, <3>2 DEF OneDir
  <2> QED
    BY <1>a, <2>7, <2>8, <2>9, <2>10 DEF OnceInv
<1>4. ASSUME NEW t \in Threads, NEW label \in {"read", "record", "create", "ended", "hung"},
             pc[t] \in {"read", "stat", "create"}, pc[t] = "read" => label = "ended",
             pc' = [pc EXCEPT ![t] = label],
             UNCHANGED <<again, path, list, filename, dirp, left>>
      PROVE  OnceInv'
  <2>1. Handed' \subseteq Handed /\ \A s \in Threads \ {t} : Due(s)' = Due(s)
    BY <1>0, <1>4, Turn DEF Running, Hands
  <2>2. pc'[t] = label /\ \A s \in Threads \ {t} : pc'[s] = pc[s]
    BY <1>0, <1>4 DEF ScanInv, TypeOK
  <2>3. Due(t)' \subseteq Due(t)
    BY <1>4, <2>2 DEF Due, Reading, Left
  <2>4. OneDir'
    <3>1. \A s \in Threads : (Reading(s)' => Reading(s)) /\ Left(s)' = Left(s)
      BY <1>4, <2>2 DEF Reading, Left
    <3> QED
      BY <1>0, <1>4, <3>1 DEF OneDir
  <2> QED
    BY <1>a, <1>4, <2>1, <2>3, <2>4, LessDue
<1>5. ASSUME NEW t \in Threads, Close(t) PROVE OnceInv'
  <2>1. CASE Exit("done")
    BY <1>c, <2>1
  <2>2. CASE ~Exit("done")
    BY <1>4, <1>5, <2>2 DEF Close, Goto, world, shared
  <2> QED
    BY <2>1, <2>2
<1>6. ASSUME NEW t \in Threads, Stat(t) PROVE OnceInv'
  BY <1>4, <1>6 DEF Stat, Goto, world, shared
<1>7. ASSUME NEW t \in Threads, Record(t) PROVE OnceInv'
  <2>1. /\ pc[t] = "record" /\ pc' = [pc EXCEPT ![t] = "read"]
        /\ list' = list \/ list' = Append(list, path)
        /\ UNCHANGED <<again, filename, dirp, left>>
    BY <1>7 DEF Record, WriteLine, Goto, world
  <2>2. /\ Handed = {path} /\ Handed' = {} /\ pc'[t] = "read"
        /\ \A s \in Threads \ {t} : Due(s)' = Due(s)
    BY <1>0, <2>1, Turn DEF Running, Hands
  <2>3. \A s \in Threads : Due(s)' = Due(s)
    BY <2>1, <2>2 DEF Due, Reading, Left
  <2>4. OneDir'
    <3>1. pc'[t] = "read" /\ \A s \in Threads \ {t} : pc'[s] = pc[s]
      BY <1>0, <2>1 DEF ScanInv, TypeOK
    <3>2. \A s \in Threads : (Reading(s)' <=> Reading(s)) /\ Left(s)' = Left(s)
      BY <2>1, <3>1 DEF Reading, Left
    <3> QED
      BY <1>0, <2>1, <3>2 DEF OneDir
  <2>5. CASE list' = list
    BY <1>a, <2>1, <2>2, <2>3, <2>4, <2>5, LessDue
  <2>6. CASE list' = Append(list, path)
    <3>1. list \in Seq(Paths) /\ path \in Paths /\ Len(list) \in Nat
      BY <1>0, <2>2, DuePaths DEF ScanInv, TypeOK
    <3>2. /\ Len(list') = Len(list) + 1 /\ list'[Len(list) + 1] = path
          /\ \A i \in 1..Len(list) : list'[i] = list[i]
      BY <2>6, <3>1
    <3>3. again' = again
      BY <2>1
    <3>4. AllApart'
      BY <1>0, <2>2, <2>3, <3>3, SameOrder DEF AllApart
    <3>5. Unlisted'
      <4>1. ASSUME NEW i \in 1..Len(list'), Firm(list'[i]), NEW s \in Threads, NEW a \in Due(s)
            PROVE  ~Starts(list'[i], a)
        <5>1. CASE i \in 1..Len(list)
          BY <1>0, <3>2, <4>1, <5>1 DEF Unlisted
        <5>2. CASE i = Len(list) + 1
          <6>1. Firm(path) /\ a \in Paths /\ (Starts(path, a) => Firm(a))
            BY <1>0, <3>1, <3>2, <4>1, <5>2, DuePaths, FirmAbove
          <6> QED
            BY <1>0, <2>2, <3>2, <5>2, <6>1 DEF AllApart, Apart
        <5> QED
          BY <3>1, <3>2, <5>1, <5>2
      <4> QED
        BY <2>2, <2>3, <3>3, <4>1, SameOrder DEF Unlisted
    <3>6. ListedOnce'
      <4>1. \A i \in 1..Len(list) : Firm(list[i]) => list[i] # path
        BY <1>0, <2>2, <3>1, StartsOrder DEF Unlisted
      <4> QED
        BY <1>0, <3>1, <3>2, <3>3, <4>1, SameOrder DEF ListedOnce
    <3> QED
      BY <1>a, <2>4, <3>4, <3>5, <3>6 DEF OnceInv
  <2> QED
    BY <2>1, <2>5, <2>6
<1>8. ASSUME NEW t \in Threads, Create(t) PROVE OnceInv'
  <2>1. PICK c \in Threads \ {t} :
          /\ pc[c] = "none" /\ pc[t] = "create"
          /\ pc' = [pc EXCEPT ![t] = "join", ![c] = "copy"]
          /\ UNCHANGED <<again, path, list, filename, dirp, left>>
    BY <1>8 DEF Create, Start, Free, world, shared
  <2>2. /\ pc'[t] = "join" /\ pc'[c] = "copy"
        /\ \A s \in Threads \ {t, c} : pc'[s] = pc[s]
    BY <1>0, <2>1 DEF ScanInv, TypeOK
  <2>3. Handed = {path} /\ Handed' \subseteq {path}
    BY <2>1 DEF Handed, Hands
  <2>4. \A s \in Threads : Due(s)' \subseteq Due(s) /\ (Reading(s)' => Reading(s))
    BY <2>1, <2>2 DEF Due, Reading, Left
  <2>5. OneDir'
    BY <1>0, <2>1, <2>4 DEF OneDir, Left
  <2> QED
    BY <1>a, <2>1, <2>3, <2>4, <2>5, LessDue
<1>9. ASSUME NEW t \in Threads, CreateFails(t) PROVE OnceInv'
  <2>1. CASE Exit("died")
    BY <1>c, <2>1
  <2>2. CASE ~Exit("died")
    BY <1>4, <1>9, <2>2 DEF CreateFails, Goto, world, shared
  <2> QED
    BY <2>1, <2>2
<1>10. ASSUME NEW t \in Threads, Join(t) PROVE OnceInv'
  <2>1. PICK c \in Threads \ {t} :
          /\ pc[t] = "join" /\ pc[c] = "ended"
          /\ pc' = [pc EXCEPT ![t] = "read", ![c] = "none"]
          /\ UNCHANGED <<again, path, list, filename, dirp, left>>
    BY <1>0, <1>10 DEF Join, ScanInv, TypeOK, world, shared
  <2>2. /\ pc'[t] = "read" /\ pc'[c] = "none"
        /\ \A s \in Threads \ {t, c} : pc'[s] = pc[s]
    BY <1>0, <2>1 DEF ScanInv, TypeOK
  <2>3. Handed' \subseteq Handed
    BY <2>1, <2>2 DEF Handed, Hands
  <2>4. \A s \in Threads : Due(s)' \subseteq Due(s) /\ (Reading(s)' => Reading(s))
    BY <2>1, <2>2 DEF Due, Reading, Left
  <2>5. OneDir'
    BY <1>0, <2>1, <2>4 DEF OneDir, Left
  <2> QED
    BY <1>a, <2>1, <2>3, <2>4, <2>5, LessDue
<1>11. ASSUME NEW e \in Tree, Change(e) PROVE OnceInv'
  <2>1. CASE UNCHANGED <<again, left>>
    BY <1>b, <1>11, <2>1 DEF Change, shared
  <2>2. CASE PutBack(e)
    <3>1. UNCHANGED <<pc, path, list, filename, dirp>>
      BY <1>11 DEF Change, shared
    <3>2. /\ again \subseteq again'
          /\ \A t \in Threads : \A f \in Tree :
               \/ left'[t][f] = left[t][f]
               \/ f = e /\ Reading(t) /\ dirp[t] = e.dir
                  /\ Append(filename[t], e.name) \in again'
          /\ \A t \in Threads : Reading(t)' <=> Reading(t)
          /\ \A t \in Threads : Due(t)' \subseteq Due(t) \cup again'
      BY <1>0, <2>2, <3>1, HasPutBack
    <3>3. OneDir'
      <4>1. ASSUME NEW t \in Threads, Reading(t), NEW f \in Left(t)'
            PROVE  f.dir = dirp[t] /\ (left'[t][f] > 1 => Append(filename[t], f.name) \in again')
        <5>1. f \in Tree /\ left'[t][f] > 0
          BY DEF Left
        <5>2. CASE left'[t][f] = left[t][f]
          BY <1>0, <3>2, <4>1, <5>1, <5>2 DEF OneDir, Left
        <5>3. CASE left'[t][f] # left[t][f]
          BY <3>2, <5>1, <5>3
        <5> QED
          BY <5>2, <5>3
      <4> QED
        BY <3>1, <3>2, <4>1 DEF OneDir
    <3>4. Handed' = Handed
      BY <3>1 DEF Handed
    <3> QED
      BY <1>a, <3>1, <3>2, <3>3, <3>4, LessDue
  <2> QED
    BY <1>11, <2>1, <2>2 DEF Change, Remove
<1>12. CASE UNCHANGED vars
  BY <1>b, <1>12 DEF vars, world, shared, threads
<1> QED
  BY <1>1, <1>2, <1>3, <1>5, <1>6, <1>7, <1>8, <1>9, <1>10, <1>11, <1>12 DEF Next, Step

LEMMA OnceInit == Init => OnceInv
<1> SUFFICES ASSUME Init PROVE OnceInv
  OBVIOUS
<1>1. /\ list = <<>> /\ Len(<<>>) = 0
      /\ \A t \in Threads : pc[t] \in {"copy", "none"}
  BY DEF Init
<1>2. \A t \in Threads : Due(t) = {}
  BY <1>1 DEF Due, Reading
<1> QED
  BY <1>1, <1>2, ScanInit DEF OnceInv, OneDir, Reading, AllApart, Unlisted, ListedOnce

LEMMA OnceInvariant == Spec => []OnceInv
BY OnceInit, OnceStep, PTL DEF Spec

(* Whatever tree it is, however many threads there are, whatever fails and *)
(* whatever other programs remove, make and put back at any time: the list *)
(* holds a path twice only if a name on it was put back in a directory     *)
(* while that was being read.                                              *)
THEOREM PathsListedOnce == Spec => []ListedOnce
<1>1. OnceInv => ListedOnce
  BY DEF OnceInv
<1> QED
  BY <1>1, OnceInvariant, PTL

-----------------------------------------------------------------------------
(***************************************************************************)
(* As long as nobody changes the tree, the path a thread is handed, or is  *)
(* about to open, is one of a directory.                                   *)
(***************************************************************************)
Openable ==
    touched = {} =>
      \A t \in Threads :
        /\ pc[t] \in {"copy", "create"} => Finds(present, path, DirNodes)
        /\ pc[t] = "open" => Finds(present, filename[t], DirNodes)

QuietInv == ScanInv /\ Openable /\ GivesUpDisturbed

LEMMA QuietInit == Init => QuietInv
<1> SUFFICES ASSUME Init PROVE QuietInv
  OBVIOUS
<1>1. Finds(present, <<>>, DirNodes)
  <2>1. PICK w : w = [node |-> Root, links |-> 0]
    OBVIOUS
  <2>2. Walk(present, <<>>) = {w}
    BY <2>1, WalkStarts, Zenon DEF Home
  <2> QED
    BY <2>1, <2>2, ConstantsOK DEF Finds
<1> QED
  BY <1>1, ScanInit DEF Init, QuietInv, Openable, GivesUpDisturbed

LEMMA QuietStep == QuietInv /\ [Next]_vars => QuietInv'
<1> SUFFICES ASSUME QuietInv, [Next]_vars PROVE QuietInv'
  OBVIOUS
<1>0. ScanInv /\ Openable /\ GivesUpDisturbed /\ ScanInv'
  BY ScanStep DEF QuietInv
<1>a. ASSUME UNCHANGED <<present, touched, pc, path, filename>>, GivesUpDisturbed'
      PROVE  QuietInv'
  BY <1>0, <1>a DEF QuietInv, Openable, Finds
<1>b. ASSUME NEW t \in Threads, Running(t), NEW label, pc' = [pc EXCEPT ![t] = label],
             touched = {} =>
               /\ label \in {"copy", "create"} => Finds(present, path', DirNodes)
               /\ label = "open" => Finds(present, filename'[t], DirNodes),
             UNCHANGED <<present, touched, outcome>>, failed \subseteq failed'
      PROVE  QuietInv'
  <2>1. pc'[t] = label /\ \A s \in Threads \ {t} : pc'[s] \in {"none", "join", "hung"}
    BY <1>0, <1>b, OthersWait DEF ScanInv, TypeOK
  <2>2. Openable'
    BY <1>b, <2>1 DEF Openable, Finds
  <2>3. GivesUpDisturbed'
    BY <1>0, <1>b DEF GivesUpDisturbed
  <2> QED
    BY <1>0, <2>2, <2>3 DEF QuietInv
<1>1. ASSUME NEW t \in Threads, Copy(t) PROVE QuietInv'
  <2>1. /\ pc[t] = "copy" /\ pc' = [pc EXCEPT ![t] = "open"] /\ filename'[t] = path
        /\ UNCHANGED <<present, touched, outcome, failed>>
    BY <1>0, <1>1 DEF Copy, Goto, world, ScanInv, TypeOK
  <2> QED
    BY <1>0, <1>b, <2>1 DEF Running, Openable
<1>2. ASSUME NEW t \in Threads, Open(t) PROVE QuietInv'
  <2>1. CASE Exit("exited")
    <3>1. GivesUpDisturbed'
      BY <1>0, <1>2, <2>1 DEF Open, Exit, Openable, GivesUpDisturbed, world, Goto
    <3> QED
      BY <1>a, <2>1, <3>1 DEF Exit, world, shared, threads
  <2>2. CASE ~Exit("exited")
    BY <1>2, <1>b, <2>2 DEF Open, Goto, Running, world
  <2> QED
    BY <2>1, <2>2
<1>3. ASSUME NEW t \in Threads, Read(t) PROVE QuietInv'
  BY <1>3, <1>b DEF Read, ReadEntry, Goto, Running, world
<1>4. ASSUME NEW t \in Threads, Close(t) PROVE QuietInv'
  <2>1. CASE Exit("done")
    <3>1. GivesUpDisturbed'
      BY <2>1 DEF Exit, GivesUpDisturbed
    <3> QED
      BY <1>a, <2>1, <3>1 DEF Exit, world, shared, threads
  <2>2. CASE ~Exit("done")
    BY <1>4, <1>b, <2>2 DEF Close, Goto, Running, world
  <2> QED
    BY <2>1, <2>2
<1>5. ASSUME NEW t \in Threads, Stat(t) PROVE QuietInv'
  BY <1>5, <1>b DEF Stat, Goto, Running, world, shared
<1>6. ASSUME NEW t \in Threads, Record(t) PROVE QuietInv'
  BY <1>6, <1>b DEF Record, WriteLine, Goto, Running, world
<1>7. ASSUME NEW t \in Threads, Create(t) PROVE QuietInv'
  <2>1. PICK c \in Threads \ {t} :
          /\ pc[t] = "create" /\ pc' = [pc EXCEPT ![t] = "join", ![c] = "copy"]
          /\ UNCHANGED <<present, touched, failed, path, filename, outcome>>
    BY <1>7 DEF Create, Start, Free, world, shared
  <2>2. \A s \in Threads : pc'[s] \in {"copy", "join"} \/ pc'[s] = pc[s]
    BY <1>0, <2>1 DEF ScanInv, TypeOK
  <2>3. Openable'
    BY <1>0, <2>1, <2>2 DEF Openable, Finds
  <2>4. GivesUpDisturbed'
    BY <1>0, <2>1 DEF GivesUpDisturbed
  <2> QED
    BY <1>0, <2>3, <2>4 DEF QuietInv
<1>8. ASSUME NEW t \in Threads, CreateFails(t) PROVE QuietInv'
  <2>1. CASE Exit("died")
    <3>1. GivesUpDisturbed'
      BY <2>1 DEF Exit, GivesUpDisturbed
    <3> QED
      BY <1>a, <2>1, <3>1 DEF Exit, world, shared, threads
  <2>2. CASE ~Exit("died")
    BY <1>8, <1>b, <2>2 DEF CreateFails, Goto, Running, world
  <2> QED
    BY <2>1, <2>2
<1>9. ASSUME NEW t \in Threads, Join(t) PROVE QuietInv'
  <2>1. PICK c \in Threads :
          /\ pc' = [pc EXCEPT ![t] = "read", ![c] = "none"]
          /\ UNCHANGED <<present, touched, failed, path, filename, outcome>>
    BY <1>0, <1>9 DEF Join, ScanInv, TypeOK, world, shared
  <2>2. \A s \in Threads : pc'[s] \in {"read", "none"} \/ pc'[s] = pc[s]
    BY <1>0, <2>1 DEF ScanInv, TypeOK
  <2>3. Openable'
    BY <1>0, <2>1, <2>2 DEF Openable, Finds
  <2>4. GivesUpDisturbed'
    BY <1>0, <2>1 DEF GivesUpDisturbed
  <2> QED
    BY <1>0, <2>3, <2>4 DEF QuietInv
<1>10. ASSUME NEW e \in Tree, Change(e) PROVE QuietInv'
  <2>1. touched' # {}
    BY <1>10 DEF Change
  <2> QED
    BY <1>0, <2>1 DEF QuietInv, Openable, GivesUpDisturbed
<1>11. CASE UNCHANGED vars
  <2>1. GivesUpDisturbed'
    BY <1>0, <1>11 DEF GivesUpDisturbed, vars, world
  <2> QED
    BY <1>11, <1>a, <2>1 DEF vars, world, shared, threads
<1> QED
  BY <1>1, <1>2, <1>3, <1>4, <1>5, <1>6, <1>7, <1>8, <1>9, <1>10, <1>11 DEF Next, Step

(* The scan of a tree nobody changes does not meet a directory it cannot   *)
(* open, however deep the tree is and however links go round in it: it is  *)
(* given up only when opendir fails by itself.                             *)
THEOREM GivenUpDisturbed == Spec => []GivesUpDisturbed
<1>1. QuietInv => GivesUpDisturbed
  BY DEF QuietInv
<1> QED
  BY <1>1, QuietInit, QuietStep, PTL DEF Spec

-----------------------------------------------------------------------------
(***************************************************************************)
(* Every thread but main has a parent that waits for it, in the directory  *)
(* above its own: so nobody waits when main runs.                          *)
(***************************************************************************)
Nested ==
    \A s \in Threads :
      pc[s] = "join" /\ pc[child[s]] # "copy" => Below(filename[child[s]], filename[s])
Parented ==
    \A c \in Threads \ {Main} :
      pc[c] # "none" => \E s \in Threads : pc[s] = "join" /\ child[s] = c
ParentInv == ScanInv /\ Nested /\ Parented

LEMMA ParentInit == Init => ParentInv
BY ScanInit, ConstantsOK DEF Init, ParentInv, Nested, Parented

LEMMA ParentStep == ParentInv /\ [Next]_vars => ParentInv'
<1> SUFFICES ASSUME ParentInv, [Next]_vars PROVE ParentInv'
  OBVIOUS
<1>0. ScanInv /\ Nested /\ Parented /\ ScanInv'
  BY ScanStep DEF ParentInv
<1>t. /\ DOMAIN pc = Threads /\ DOMAIN child = Threads /\ DOMAIN filename = Threads
      /\ \A s \in Threads : child[s] \in Threads
  BY <1>0 DEF ScanInv, TypeOK
<1>a. ASSUME UNCHANGED <<pc, filename, child>> PROVE ParentInv'
  BY <1>0, <1>a DEF ParentInv, Nested, Parented, Below
<1>b. ASSUME NEW t \in Threads, NEW label, pc' = [pc EXCEPT ![t] = label],
             pc[t] \notin {"none", "copy", "join"}, label \notin {"none", "copy", "join"},
             UNCHANGED <<filename, child>>
      PROVE  ParentInv'
  <2>1. pc'[t] = label /\ \A s \in Threads \ {t} : pc'[s] = pc[s]
    BY <1>t, <1>b
  <2>2. Nested'
    BY <1>0, <1>t, <1>b, <2>1 DEF Nested, Below
  <2>3. Parented'
    BY <1>0, <1>t, <1>b, <2>1 DEF Parented
  <2> QED
    BY <1>0, <2>2, <2>3 DEF ParentInv
<1>1. ASSUME NEW t \in Threads, Copy(t) PROVE ParentInv'
  <2>1. /\ pc[t] = "copy" /\ pc'[t] = "open" /\ \A s \in Threads \ {t} : pc'[s] = pc[s]
        /\ filename'[t] = path /\ \A s \in Threads \ {t} : filename'[s] = filename[s]
        /\ child' = child
    BY <1>1, <1>t DEF Copy, Goto
  <2>2. ASSUME NEW s \in Threads, pc[s] = "join", child[s] = t PROVE Below(path, filename[s])
    BY <1>0, <2>1, <2>2 DEF ScanInv, OwnPath
  <2>3. Nested'
    <3>1. \A p, q : (Below(p, q))' <=> Below(p, q)
      BY DEF Below
    <3> QED
      BY <1>0, <1>t, <2>1, <2>2, <3>1 DEF Nested
  <2>4. Parented'
    BY <1>0, <2>1 DEF Parented
  <2> QED
    BY <1>0, <2>3, <2>4 DEF ParentInv
<1>2. ASSUME NEW t \in Threads, Open(t) PROVE ParentInv'
  <2>1. CASE Exit("exited")
    BY <1>a, <2>1 DEF Exit, threads
  <2>2. CASE ~Exit("exited")
    BY <1>2, <1>b, <2>2 DEF Open, Goto
  <2> QED
    BY <2>1, <2>2
<1>3. ASSUME NEW t \in Threads, Read(t) PROVE ParentInv'
  BY <1>3, <1>b DEF Read, ReadEntry, Goto
<1>4. ASSUME NEW t \in Threads, Close(t) PROVE ParentInv'
  <2>1. CASE Exit("done")
    BY <1>a, <2>1 DEF Exit, threads
  <2>2. CASE ~Exit("done")
    BY <1>4, <1>b, <2>2 DEF Close, Goto
  <2> QED
    BY <2>1, <2>2
<1>5. ASSUME NEW t \in Threads, Stat(t) PROVE ParentInv'
  BY <1>5, <1>b DEF Stat, Goto
<1>6. ASSUME NEW t \in Threads, Record(t) PROVE ParentInv'
  BY <1>6, <1>b DEF Record, WriteLine, Goto
<1>7. ASSUME NEW t \in Threads, Create(t) PROVE ParentInv'
  <2>1. PICK c \in Threads \ {t} :
          /\ pc[c] = "none" /\ pc[t] = "create"
          /\ pc' = [pc EXCEPT ![t] = "join", ![c] = "copy"]
          /\ child' = [child EXCEPT ![t] = c, ![c] = Main] /\ filename' = filename
    BY <1>7 DEF Create, Start, Free
  <2>2. /\ pc'[t] = "join" /\ pc'[c] = "copy" /\ child'[t] = c
        /\ \A s \in Threads \ {t, c} : pc'[s] = pc[s] /\ child'[s] = child[s]
    BY <1>t, <2>1
  <2>3. \A s \in Threads : pc[s] = "join" => child[s] # c /\ s # c /\ s # t
    BY <1>0, <2>1 DEF ScanInv, Waits
  <2>4. ASSUME NEW s \in Threads \ {t}, pc'[s] = "join"
        PROVE  /\ pc[s] = "join" /\ child'[s] = child[s] /\ child[s] # c
               /\ pc'[child[s]] # "copy" => pc[child[s]] # "copy"
    BY <1>t, <2>1, <2>2, <2>3, <2>4
  <2>5. Nested'
    <3>1. \A p, q : (Below(p, q))' <=> Below(p, q)
      BY DEF Below
    <3> QED
      BY <1>0, <2>1, <2>2, <2>4, <3>1 DEF Nested
  <2>6. Parented'
    <3>1. ASSUME NEW d \in Threads \ {Main}, d # c, pc'[d] # "none"
          PROVE  \E s \in Threads : pc'[s] = "join" /\ child'[s] = d
      <4>1. pc[d] # "none"
        BY <2>1, <2>2, <3>1
      <4>2. PICK s \in Threads : pc[s] = "join" /\ child[s] = d
        BY <1>0, <4>1 DEF Parented
      <4>3. pc'[s] = "join" /\ child'[s] = d
        BY <2>2, <2>3, <4>2
      <4> QED
        BY <4>3
    <3> QED
      BY <2>2, <3>1 DEF Parented
  <2> QED
    BY <1>0, <2>5, <2>6 DEF ParentInv
<1>8. ASSUME NEW t \in Threads, CreateFails(t) PROVE ParentInv'
  <2>1. CASE Exit("died")
    BY <1>a, <2>1 DEF Exit, threads
  <2>2. CASE ~Exit("died")
    BY <1>8, <1>b, <2>2 DEF CreateFails, Goto
  <2> QED
    BY <2>1, <2>2
<1>9. ASSUME NEW t \in Threads, Join(t) PROVE ParentInv'
  <2>1. PICK c \in Threads \ {t} :
          /\ c = child[t] /\ pc[t] = "join" /\ pc[c] = "ended"
          /\ pc' = [pc EXCEPT ![t] = "read", ![c] = "none"] /\ UNCHANGED <<filename, child>>
    BY <1>9, <1>t DEF Join
  <2>2. /\ pc'[t] = "read" /\ pc'[c] = "none" /\ \A s \in Threads \ {t, c} : pc'[s] = pc[s]
    BY <1>t, <2>1
  <2>3. \A s \in Threads \ {t} : pc[s] = "join" => child[s] # c /\ s # c
    BY <1>0, <2>1 DEF ScanInv, Waits
  <2>4. Nested'
    <3>1. \A p, q : (Below(p, q))' <=> Below(p, q)
      BY DEF Below
    <3>2. ASSUME NEW s \in Threads, pc'[s] = "join", pc'[child[s]] # "copy"
          PROVE  pc[s] = "join" /\ pc[child[s]] # "copy"
      BY <1>t, <2>1, <2>2, <2>3, <3>2
    <3> QED
      BY <1>0, <2>1, <3>1, <3>2 DEF Nested
  <2>5. Parented'
    <3>1. ASSUME NEW d \in Threads \ {Main}, pc'[d] # "none"
          PROVE  \E s \in Threads : pc'[s] = "join" /\ child'[s] = d
      <4>1. pc[d] # "none" /\ d # c
        BY <2>1, <2>2, <3>1
      <4>2. PICK s \in Threads : pc[s] = "join" /\ child[s] = d
        BY <1>0, <4>1 DEF Parented
      <4>3. s # t
        BY <2>1, <4>1, <4>2
      <4> QED
        BY <2>1, <2>2, <2>3, <4>2, <4>3
    <3> QED
      BY <3>1 DEF Parented
  <2> QED
    BY <1>0, <2>4, <2>5 DEF ParentInv
<1>10. ASSUME NEW e \in Tree, Change(e) PROVE ParentInv'
  BY <1>10, <1>a DEF Change, threads
<1>11. CASE UNCHANGED vars
  BY <1>11, <1>a DEF vars, threads
<1> QED
  BY <1>1, <1>2, <1>3, <1>4, <1>5, <1>6, <1>7, <1>8, <1>9, <1>10, <1>11 DEF Next, Step

LEMMA NobodyWaits ==
    ASSUME ParentInv, Running(Main), NEW t \in Threads
    PROVE  pc[t] # "join"
<1> SUFFICES ASSUME pc[t] = "join" PROVE FALSE
  OBVIOUS
<1> DEFINE L == {Len(filename[s]) : s \in {s \in Threads : pc[s] = "join"}}
<1>0. \A s \in Threads : filename[s] \in Paths /\ Len(filename[s]) \in Nat
  BY PathLength DEF ParentInv, ScanInv, TypeOK
<1>1. PICK n \in L : \A m \in L : n <= m
  <2>1. L \in SUBSET Nat /\ Len(filename[t]) \in L
    BY <1>0
  <2> HIDE DEF L
  <2> QED
    BY <2>1, LeastOf
<1>2. PICK s \in Threads : pc[s] = "join" /\ n = Len(filename[s])
  OBVIOUS
<1>3. s \in Threads \ {Main}
  BY <1>2 DEF Running
<1>4. PICK r \in Threads : pc[r] = "join" /\ child[r] = s
  BY <1>2, <1>3 DEF ParentInv, Parented
<1>5. Len(filename[s]) = Len(filename[r]) + 1
  BY <1>2, <1>4 DEF ParentInv, Nested, Below
<1>6. n <= Len(filename[r])
  BY <1>1, <1>4
<1> QED
  BY <1>0, <1>2, <1>5, <1>6

-----------------------------------------------------------------------------
(***************************************************************************)
(* What was found is what is or was there; and the directory a thread has  *)
(* open is the one its path led to all the time, if it led to one.         *)
(***************************************************************************)
Stable == present \ touched
Seen == present \cup touched
Files ==
    /\ \A i \in 1..Len(list) : Finds(Seen, list[i], FileNodes)
    /\ \A t \in Threads : pc[t] = "record" => Finds(Seen, path, FileNodes)
DirKept ==
    \A t \in Threads : Reading(t) =>
      \A v \in Walk(Stable, filename[t]) : v.node = dirp[t]
KeptInv == OnceInv /\ ParentInv /\ Files /\ DirKept

LEMMA FindsGrows ==
    ASSUME NEW es, NEW fs, es \subseteq fs, NEW p \in Paths, NEW nodes, Finds(es, p, nodes)
    PROVE  Finds(fs, p, nodes)
BY WalkGrows DEF Finds

(* Only other programs change where paths lead.                            *)
LEMMA SameWorld ==
    ASSUME UNCHANGED <<present, touched>>
    PROVE  /\ Stable' = Stable /\ Seen' = Seen
           /\ \A es, p : Walk(es, p)' = Walk(es, p)
           /\ \A es, p, nodes : (Finds(es, p, nodes))' <=> Finds(es, p, nodes)
BY DEF Stable, Seen, Walk, Finds

LEMMA KeptInit == Init => KeptInv
<1> SUFFICES ASSUME Init PROVE KeptInv
  OBVIOUS
<1>1. list = <<>> /\ Len(<<>>) = 0 /\ \A t \in Threads : pc[t] \in {"copy", "none"}
  BY DEF Init
<1> QED
  BY <1>1, OnceInit, ParentInit DEF KeptInv, Files, DirKept, Reading

LEMMA KeptStep == KeptInv /\ [Next]_vars => KeptInv'
<1> SUFFICES ASSUME KeptInv, [Next]_vars PROVE KeptInv'
  OBVIOUS
<1>0. /\ ParentInv /\ ScanInv /\ Files /\ DirKept /\ ParentInv' /\ ScanInv' /\ OnceInv'
      /\ present \subseteq Tree /\ touched \subseteq Tree
  BY ParentStep, OnceStep DEF KeptInv, ParentInv, ScanInv, TypeOK
<1>t. DOMAIN pc = Threads /\ DOMAIN filename = Threads /\ DOMAIN dirp = Threads
  BY <1>0 DEF ScanInv, TypeOK
<1>a. ASSUME UNCHANGED <<present, touched, pc, path, list, filename, dirp>> PROVE KeptInv'
  <2>1. Files' /\ DirKept'
    BY <1>0, <1>a, SameWorld DEF Files, DirKept, Reading
  <2> QED
    BY <1>0, <2>1 DEF KeptInv
<1>b. ASSUME NEW t \in Threads, Running(t), NEW label, pc' = [pc EXCEPT ![t] = label],
             label = "record" => Finds(Seen, path', FileNodes),
             label \in {"read", "stat", "record", "create", "join"} =>
               Reading(t) /\ dirp'[t] = dirp[t] /\ filename'[t] = filename[t],
             \A s \in Threads \ {t} : dirp'[s] = dirp[s] /\ filename'[s] = filename[s],
             UNCHANGED <<present, touched, list>>
      PROVE  KeptInv'
  <2>1. pc'[t] = label /\ \A s \in Threads \ {t} : pc'[s] = pc[s] /\ pc[s] # "record"
    BY <1>0, <1>b, <1>t, OthersWait
  <2>2. Files'
    BY <1>0, <1>b, <2>1, SameWorld DEF Files
  <2>3. DirKept'
    <3>1. ASSUME NEW s \in Threads, Reading(s)'
          PROVE  Reading(s) /\ dirp'[s] = dirp[s] /\ filename'[s] = filename[s]
      BY <1>b, <2>1, <3>1 DEF Reading
    <3> QED
      BY <1>0, <1>b, <3>1, SameWorld DEF DirKept
  <2> QED
    BY <1>0, <2>2, <2>3 DEF KeptInv
<1>1. ASSUME NEW t \in Threads, Copy(t) PROVE KeptInv'
  BY <1>1, <1>b, <1>t DEF Copy, Goto, Running, world, shared
<1>2. ASSUME NEW t \in Threads, Open(t) PROVE KeptInv'
  <2>1. CASE Exit("exited")
    BY <1>a, <2>1 DEF Exit, world, shared, threads
  <2>2. CASE ~Exit("exited")
    <3>1. /\ pc'[t] = "read" /\ Finds(present, filename[t], {dirp'[t]})
          /\ \A s \in Threads \ {t} : pc'[s] = pc[s] /\ dirp'[s] = dirp[s]
          /\ UNCHANGED <<present, touched, path, list, filename>>
      BY <1>0, <1>2, <2>2, Opened
    <3>2. ASSUME NEW v \in Walk(Stable, filename[t]) PROVE v.node = dirp'[t]
      <4>1. PICK w \in Walk(present, filename[t]) : w.node = dirp'[t]
        BY <3>1 DEF Finds
      <4>2. v \in Walk(present, filename[t])
        BY <1>0, WalkGrows DEF Stable, ScanInv, TypeOK
      <4> QED
        BY <1>0, <4>1, <4>2, WalkOne DEF ScanInv, TypeOK
    <3>3. Files'
      BY <1>0, <3>1, SameWorld DEF Files
    <3>4. DirKept'
      BY <1>0, <3>1, <3>2, SameWorld DEF DirKept, Reading
    <3> QED
      BY <1>0, <3>3, <3>4 DEF KeptInv
  <2> QED
    BY <2>1, <2>2
<1>3. ASSUME NEW t \in Threads, Read(t) PROVE KeptInv'
  <2>1. /\ pc[t] = "read" /\ pc' = [pc EXCEPT ![t] = "stat"]
        /\ UNCHANGED <<present, touched, list, filename, dirp>>
    BY <1>3 DEF Read, ReadEntry, Goto, world
  <2> QED
    BY <1>t, <1>b, <2>1 DEF Running, Reading
<1>4. ASSUME NEW t \in Threads, Close(t) PROVE KeptInv'
  <2>1. CASE Exit("done")
    BY <1>a, <2>1 DEF Exit, world, shared, threads
  <2>2. CASE ~Exit("done")
    BY <1>4, <1>b, <2>2 DEF Close, Goto, Running, world, shared
  <2> QED
    BY <2>1, <2>2
<1>5. ASSUME NEW t \in Threads, Stat(t) PROVE KeptInv'
  <2>1. PICK label \in {"record", "create", "read"} :
          /\ pc[t] = "stat" /\ pc' = [pc EXCEPT ![t] = label]
          /\ label = "record" => Finds(present, path, FileNodes)
          /\ UNCHANGED <<present, touched, path, list, filename, dirp>>
    BY <1>5 DEF Stat, Goto, world, shared
  <2>2. label = "record" => Finds(Seen, path', FileNodes)
    <3>1. path \in Paths
      BY <1>0, <2>1 DEF ScanInv, Clean
    <3> QED
      BY <2>1, <3>1, FindsGrows DEF Seen
  <2> QED
    BY <1>b, <2>1, <2>2 DEF Running, Reading
<1>6. ASSUME NEW t \in Threads, Record(t) PROVE KeptInv'
  <2>1. /\ pc[t] = "record" /\ pc' = [pc EXCEPT ![t] = "read"]
        /\ list' = list \/ list' = Append(list, path)
        /\ UNCHANGED <<present, touched, filename, dirp>>
    BY <1>6 DEF Record, WriteLine, Goto, world
  <2>2. pc'[t] = "read" /\ \A s \in Threads \ {t} : pc'[s] = pc[s] /\ pc[s] # "record"
    BY <1>0, <1>t, <2>1, OthersWait DEF Running
  <2>3. Files'
    <3>1. Finds(Seen, path, FileNodes) /\ list \in Seq(Paths) /\ path \in Paths
      BY <1>0, <2>1 DEF Files, ScanInv, TypeOK, Clean
    <3>2. ASSUME NEW i \in 1..Len(list')
          PROVE  list'[i] = path \/ (i \in 1..Len(list) /\ list'[i] = list[i])
      <4>1. CASE list' = list
        BY <4>1
      <4>2. CASE list' = Append(list, path)
        <5>1. /\ Len(list') = Len(list) + 1 /\ Len(list) \in Nat
              /\ list'[Len(list) + 1] = path /\ \A j \in 1..Len(list) : list'[j] = list[j]
          BY <3>1, <4>2
        <5> QED
          BY <5>1
      <4> QED
        BY <2>1, <4>1, <4>2
    <3> QED
      BY <1>0, <2>1, <2>2, <3>1, <3>2, SameWorld DEF Files
  <2>4. DirKept'
    BY <1>0, <2>1, <2>2, SameWorld DEF DirKept, Reading
  <2> QED
    BY <1>0, <2>3, <2>4 DEF KeptInv
<1>7. ASSUME NEW t \in Threads, Create(t) PROVE KeptInv'
  <2>1. PICK c \in Threads \ {t} :
          /\ pc[t] = "create" /\ pc' = [pc EXCEPT ![t] = "join", ![c] = "copy"]
          /\ UNCHANGED <<present, touched, path, list, filename, dirp>>
    BY <1>7 DEF Create, Start, Free, world, shared
  <2>2. pc'[t] = "join" /\ pc'[c] = "copy" /\ \A s \in Threads \ {t, c} : pc'[s] = pc[s]
    BY <1>t, <2>1
  <2>3. Files'
    BY <1>0, <2>1, <2>2, SameWorld DEF Files
  <2>4. DirKept'
    BY <1>0, <2>1, <2>2, SameWorld DEF DirKept, Reading
  <2> QED
    BY <1>0, <2>3, <2>4 DEF KeptInv
<1>8. ASSUME NEW t \in Threads, CreateFails(t) PROVE KeptInv'
  <2>1. CASE Exit("died")
    BY <1>a, <2>1 DEF Exit, world, shared, threads
  <2>2. CASE ~Exit("died")
    BY <1>8, <1>b, <2>2 DEF CreateFails, Goto, Running, Reading, world, shared
  <2> QED
    BY <2>1, <2>2
<1>9. ASSUME NEW t \in Threads, Join(t) PROVE KeptInv'
  <2>1. PICK c \in Threads \ {t} :
          /\ pc[t] = "join" /\ pc' = [pc EXCEPT ![t] = "read", ![c] = "none"]
          /\ UNCHANGED <<present, touched, path, list, filename, dirp>>
    BY <1>0, <1>9 DEF Join, ScanInv, TypeOK, world, shared
  <2>2. pc'[t] = "read" /\ pc'[c] = "none" /\ \A s \in Threads \ {t, c} : pc'[s] = pc[s]
    BY <1>t, <2>1
  <2>3. Files'
    BY <1>0, <2>1, <2>2, SameWorld DEF Files
  <2>4. DirKept'
    BY <1>0, <2>1, <2>2, SameWorld DEF DirKept, Reading
  <2> QED
    BY <1>0, <2>3, <2>4 DEF KeptInv
<1>10. ASSUME NEW e \in Tree, Change(e) PROVE KeptInv'
  <2>1. /\ Stable' \subseteq Stable /\ Seen \subseteq Seen'
        /\ UNCHANGED <<pc, path, list, filename, dirp>>
    BY <1>10 DEF Change, Remove, Make, Stable, Seen, shared, threads
  <2>2. /\ \A i \in 1..Len(list) : list[i] \in Paths
        /\ \A t \in Threads : pc[t] = "record" => path \in Paths
    BY <1>0, DuePaths DEF ScanInv, Clean
  <2>3. Files'
    <3>1. \A es, p, nodes : (Finds(es, p, nodes))' <=> Finds(es, p, nodes)
      BY DEF Finds, Walk
    <3> QED
      BY <1>0, <2>1, <2>2, <3>1, FindsGrows DEF Files
  <2>4. DirKept'
    <3>1. \A es, p : Walk(es, p)' = Walk(es, p)
      BY DEF Walk
    <3>2. \A t \in Threads : Walk(Stable', filename[t]) \subseteq Walk(Stable, filename[t])
      BY <1>0, <2>1, WalkGrows DEF ScanInv, TypeOK
    <3> QED
      BY <1>0, <2>1, <3>1, <3>2 DEF DirKept, Reading
  <2> QED
    BY <1>0, <2>3, <2>4 DEF KeptInv
<1>11. CASE UNCHANGED vars
  BY <1>11, <1>a DEF vars, world, shared, threads
<1> QED
  BY <1>1, <1>2, <1>3, <1>4, <1>5, <1>6, <1>7, <1>8, <1>9, <1>10, <1>11 DEF Next, Step

-----------------------------------------------------------------------------
(***************************************************************************)
(* As long as nothing is passed over in silence, a file that stays where   *)
(* it is is listed or yet to be found, by each of its paths; so it is      *)
(* listed when the scan is done.                                           *)
(***************************************************************************)
Silent == failed \cap {"write", "create"} # {}
Stays(p) == Finds(Stable, p, FileNodes)
Listed(p) == \E i \in 1..Len(list) : list[i] = p
ToDo(p) ==
    \/ \E t \in Threads : \E a \in Due(t) : Starts(p, a)
    \/ \E b \in Handed : Starts(p, b)
Cover ==
    outcome = "running" /\ ~Silent => \A p \in Paths : Stays(p) => Listed(p) \/ ToDo(p)
Complete == outcome = "done" /\ ~Silent => \A p \in Paths : Stays(p) => Listed(p)
CoverInv == KeptInv /\ Cover /\ Complete

LEMMA NothingLost ==
    ASSUME KeptInv', Cover, Complete, UNCHANGED <<list, outcome>>, failed \subseteq failed',
           Stable' \subseteq Stable,
           \A p \in Paths : ~Silent' /\ Stays(p) /\ ToDo(p) => ToDo(p)'
    PROVE  CoverInv'
<1>1. \A p \in Paths : Stays(p)' => Stays(p)
  <2>1. \A es, p, nodes : (Finds(es, p, nodes))' <=> Finds(es, p, nodes)
    BY DEF Finds, Walk
  <2> QED
    BY <2>1, FindsGrows DEF Stays
<1>2. \A p \in Paths : Listed(p)' <=> Listed(p)
  BY DEF Listed
<1>3. Silent => Silent'
  BY DEF Silent
<1>4. Cover'
  BY <1>1, <1>2, <1>3 DEF Cover
<1>5. Complete'
  BY <1>1, <1>2, <1>3 DEF Complete
<1> QED
  BY <1>4, <1>5 DEF CoverInv

(* The same, for the thread whose turn it is.                              *)
LEMMA TurnKeeps ==
    ASSUME CoverInv, KeptInv', NEW t \in Threads, Running(t),
           NEW label, pc' = [pc EXCEPT ![t] = label],
           \A s \in Threads \ {t} : left'[s] = left[s] /\ filename'[s] = filename[s],
           UNCHANGED <<present, touched, list, outcome>>, failed \subseteq failed',
           \A p \in Paths : ~Silent' /\ Stays(p) =>
             \A a \in Due(t) \cup Handed : Starts(p, a) =>
               \E b \in Due(t)' \cup Handed' : Starts(p, b)
    PROVE  CoverInv'
<1>1. \A s \in Threads \ {t} : Due(s)' = Due(s)
  BY Turn DEF CoverInv, KeptInv, ParentInv
<1>2. \A a, b : (Starts(a, b))' <=> Starts(a, b)
  BY DEF Starts
<1>3. ASSUME NEW p \in Paths, ~Silent', Stays(p), ToDo(p) PROVE ToDo(p)'
  <2>1. CASE \E a \in Due(t) \cup Handed : Starts(p, a)
    <3>1. PICK b \in Due(t)' \cup Handed' : Starts(p, b)
      BY <1>3, <2>1
    <3> QED
      BY <1>2, <3>1 DEF ToDo
  <2>2. CASE \E s \in Threads \ {t} : \E a \in Due(s) : Starts(p, a)
    BY <1>1, <1>2, <2>2 DEF ToDo
  <2> QED
    BY <1>3, <2>1, <2>2 DEF ToDo
<1>4. Stable' = Stable
  BY DEF Stable
<1> QED
  BY <1>3, <1>4, NothingLost DEF CoverInv

(* A path with another one in front of it has the next name behind that,   *)
(* and where it stays leads through an entry of that name there.           *)
LEMMA StaysThrough ==
    ASSUME NEW p \in Paths, NEW q \in Paths, Starts(p, q), p # q, Stays(p),
           present \subseteq Tree
    PROVE  \E v \in Walk(Stable, q), e \in Stable :
             /\ v.links <= MaxLinks /\ v.node = e.dir /\ e.name \in Names
             /\ e.name = p[Len(q) + 1] /\ Starts(p, Append(q, e.name))
<1>1. PICK w \in Walk(Stable, p) : w.links <= MaxLinks /\ w.node \in FileNodes
  BY DEF Stays, Finds
<1>2. PICK v \in Walk(Stable, q), e \in Stable :
        v.links <= w.links /\ e.dir = v.node /\ e.name = p[Len(q) + 1]
  BY WalkThrough
<1>3. v.links <= MaxLinks
  <2>1. v.links \in Nat /\ w.links \in Nat /\ MaxLinks \in Nat
    BY WalkLinks, ConstantsOK
  <2> QED
    BY <1>1, <1>2, <2>1
<1>4. e.name \in Names
  BY DEF Stable, Names
<1>5. Starts(p, Append(q, e.name))
  <2>1. PICK r \in Paths : /\ r = Append(q, e.name) /\ Len(r) = Len(q) + 1
                           /\ r[Len(q) + 1] = e.name /\ \A i \in 1..Len(q) : r[i] = q[i]
    BY <1>4, AppendPath
  <2>2. Len(p) \in Nat /\ Len(q) \in Nat /\ Len(q) <= Len(p) /\ \A i \in 1..Len(q) : p[i] = q[i]
    BY PathLength DEF Starts
  <2>3. ~(Len(p) <= Len(q))
    BY StartsOrder
  <2> QED
    BY <1>2, <2>1, <2>2, <2>3 DEF Starts
<1> QED
  BY <1>2, <1>3, <1>4, <1>5

(* What stays in a directory is found when the directory is opened, or     *)
(* looked up.                                                              *)
LEMMA StaysIn ==
    ASSUME NEW p \in Paths, NEW q \in Paths, Starts(p, q), p # q, Stays(p),
           present \subseteq Tree
    PROVE  \E e \in Stable :
             /\ Finds(present, q, {e.dir} \cap DirNodes) /\ Finds(present, q, DirNodes)
             /\ e.name \in Names /\ Starts(p, Append(q, e.name))
<1>1. PICK v \in Walk(Stable, q), e \in Stable :
        /\ v.links <= MaxLinks /\ v.node = e.dir /\ e.name \in Names
        /\ Starts(p, Append(q, e.name))
  BY StaysThrough
<1>2. v \in Walk(present, q) /\ e.dir \in DirNodes
  BY WalkGrows, ConstantsOK DEF Stable
<1> QED
  BY <1>1, <1>2 DEF Finds

(* A file has nothing below it.                                            *)
LEMMA StaysNotBelow ==
    ASSUME NEW es \in SUBSET Tree, Stable \subseteq es, present \subseteq Tree,
           NEW p \in Paths, NEW q \in Paths,
           Finds(es, q, FileNodes), Starts(p, q), Stays(p)
    PROVE  p = q
<1> SUFFICES ASSUME p # q PROVE FALSE
  OBVIOUS
<1>1. PICK v \in Walk(Stable, q), e \in Stable : v.node = e.dir
  BY StaysThrough
<1>2. v \in Walk(es, q) /\ v.node \in DirNodes
  BY <1>1, WalkGrows, ConstantsOK DEF Stable
<1>3. PICK w \in Walk(es, q) : w.node \in FileNodes
  BY DEF Finds
<1> QED
  BY <1>2, <1>3, WalkOne, ConstantsOK

(* Nothing that stays is left over in a directory that has been read.      *)
LEMMA NothingLeft ==
    ASSUME KeptInv, NEW t \in Threads, pc[t] = "read", Left(t) \cap Stable = {},
           NEW p \in Paths, Stays(p), NEW a \in Due(t)
    PROVE  ~Starts(p, a)
<1> SUFFICES ASSUME Starts(p, a) PROVE FALSE
  OBVIOUS
<1>0. ScanInv /\ OneDir /\ DirKept /\ present \subseteq Tree
  BY DEF KeptInv, OnceInv, ScanInv, TypeOK
<1>1. PICK f \in Left(t) : a = Append(filename[t], f.name)
  BY DEF Due
<1>2. filename[t] \in Paths /\ f \in Tree /\ f.name \in Names /\ Len(filename[t]) \in Nat
  BY <1>0, DuePaths, PathLength
<1>3. /\ a \in Paths /\ Len(a) = Len(filename[t]) + 1 /\ a[Len(filename[t]) + 1] = f.name
      /\ Starts(a, filename[t])
  BY <1>1, <1>2, AppendPath, StartsAppend
<1>4. Starts(p, filename[t]) /\ p # filename[t] /\ p[Len(filename[t]) + 1] = f.name
  <2>1. Starts(p, filename[t])
    BY <1>2, <1>3, StartsOrder
  <2>2. Len(p) \in Nat /\ Len(a) <= Len(p) /\ \A i \in 1..Len(a) : p[i] = a[i]
    BY PathLength DEF Starts
  <2> QED
    BY <1>2, <1>3, <2>1, <2>2
<1>5. PICK v \in Walk(Stable, filename[t]), e \in Stable :
        v.node = e.dir /\ e.name = p[Len(filename[t]) + 1]
  BY <1>0, <1>2, <1>4, StaysThrough
<1>6. v.node = f.dir
  BY <1>0, <1>1, <1>5 DEF DirKept, OneDir, Reading
<1>7. e = f
  BY <1>2, <1>4, <1>5, <1>6, <1>0, ConstantsOK DEF Stable
<1> QED
  BY <1>1, <1>5, <1>7

LEMMA FileOrDir ==
    ASSUME NEW es \in SUBSET Tree, NEW p \in Paths, Finds(es, p, DirNodes)
    PROVE  ~Finds(es, p, FileNodes)
BY WalkOne, ConstantsOK DEF Finds

LEMMA CoverInit == Init => CoverInv
<1> SUFFICES ASSUME Init PROVE CoverInv
  OBVIOUS
<1>1. Handed = {<<>>} /\ <<>> \in Paths /\ Len(<<>>) = 0 /\ outcome = "running"
  BY ConstantsOK DEF Init, Handed, Hands, Paths
<1>2. \A p \in Paths : Starts(p, <<>>)
  BY <1>1, PathLength DEF Starts
<1> QED
  BY <1>1, <1>2, KeptInit DEF CoverInv, Cover, Complete, ToDo

LEMMA CoverStep == CoverInv /\ [Next]_vars => CoverInv'
<1> SUFFICES ASSUME CoverInv, [Next]_vars PROVE CoverInv'
  OBVIOUS
<1>0. /\ KeptInv /\ Cover /\ Complete /\ KeptInv' /\ ParentInv /\ ScanInv
      /\ present \in SUBSET Tree /\ touched \in SUBSET Tree
      /\ Stable \subseteq present /\ present \subseteq Seen /\ Seen \in SUBSET Tree
  BY KeptStep DEF CoverInv, KeptInv, ParentInv, ScanInv, TypeOK, Stable, Seen
<1>t. DOMAIN pc = Threads /\ DOMAIN filename = Threads /\ DOMAIN left = Threads
  BY <1>0 DEF ScanInv, TypeOK
<1>p. \A p \in Paths : Starts(p, p)
  BY StartsOrder
<1>a. ASSUME outcome' \in {"exited", "died"} PROVE CoverInv'
  BY <1>0, <1>a DEF CoverInv, Cover, Complete
<1>b. ASSUME UNCHANGED <<pc, path, list, outcome>>, failed \subseteq failed',
             Stable' \subseteq Stable, \A t \in Threads : Due(t) \subseteq Due(t)'
      PROVE  CoverInv'
  <2>1. \A p \in Paths : ToDo(p) => ToDo(p)'
    <3>1. Handed' = Handed
      BY <1>b DEF Handed
    <3> QED
      BY <1>b, <3>1, SameOrder DEF ToDo
  <2> QED
    BY <1>0, <1>b, <2>1, NothingLost
<1>1. ASSUME NEW t \in Threads, Copy(t) PROVE CoverInv'
  <2>1. /\ pc[t] = "copy" /\ pc' = [pc EXCEPT ![t] = "open"]
        /\ filename' = [filename EXCEPT ![t] = path]
        /\ UNCHANGED <<present, touched, failed, path, list, left, outcome>>
    BY <1>1 DEF Copy, Goto, world, shared
  <2>2. Handed = {path} /\ Due(t) = {} /\ Due(t)' = {path}
    BY <1>0, <1>t, <2>1, Turn DEF Running, Hands, Due, Reading, Left
  <2> QED
    BY <1>0, <1>t, <2>1, <2>2, TurnKeeps DEF Running
<1>2. ASSUME NEW t \in Threads, outcome = "running", Open(t) PROVE CoverInv'
  <2>1. CASE Exit("exited")
    BY <1>a, <2>1 DEF Exit
  <2>2. CASE ~Exit("exited")
    <3>1. /\ pc[t] = "open" /\ pc' = [pc EXCEPT ![t] = "read"] /\ pc'[t] = "read"
          /\ \A s \in Threads \ {t} : left'[s] = left[s]
          /\ dirp'[t] \in DirNodes /\ Finds(present, filename[t], {dirp'[t]})
          /\ \A e : e \in Left(t)' <=>
               e \in Tree /\ e.dir = dirp'[t] /\ (e \in present \/ e \notin touched)
          /\ UNCHANGED <<present, touched, failed, path, list, filename, outcome>>
      BY <1>0, <1>2, <2>2, Opened
    <3>2. ASSUME NEW p \in Paths, Stays(p), Starts(p, filename[t])
          PROVE  \E e \in Left(t)' : Starts(p, Append(filename[t], e.name))
      <4>1. filename[t] \in Paths
        BY <1>0 DEF ScanInv, TypeOK
      <4>2. p # filename[t]
        <5>1. Finds(present, p, FileNodes)
          BY <1>0, <3>2, FindsGrows DEF Stays
        <5>2. Finds(present, filename[t], DirNodes)
          BY <3>1 DEF Finds
        <5> QED
          BY <1>0, <4>1, <5>1, <5>2, FileOrDir
      <4>3. PICK e \in Stable :
              /\ Finds(present, filename[t], {e.dir} \cap DirNodes)
              /\ Starts(p, Append(filename[t], e.name))
        BY <1>0, <3>2, <4>1, <4>2, StaysIn
      <4>4. e.dir = dirp'[t]
        <5>1. PICK v \in Walk(present, filename[t]) : v.node = e.dir
          BY <4>3 DEF Finds
        <5>2. PICK w \in Walk(present, filename[t]) : w.node = dirp'[t]
          BY <3>1 DEF Finds
        <5> QED
          BY <1>0, <4>1, <5>1, <5>2, WalkOne
      <4> QED
        BY <1>0, <3>1, <4>3, <4>4
    <3>3. /\ Handed = {} /\ Due(t) = {filename[t]}
          /\ Due(t)' = {Append(filename[t], e.name) : e \in Left(t)'}
      <4>1. Handed = {}
        BY <1>0, <3>1, Turn DEF Running, Hands
      <4>2. Due(t) = {filename[t]} /\ Due(t)' = {Append(filename[t], e.name) : e \in Left(t)'}
        BY <3>1 DEF Due, Reading
      <4> QED
        BY <4>1, <4>2
    <3> QED
      BY <1>0, <3>1, <3>2, <3>3, TurnKeeps DEF Running
  <2> QED
    BY <2>1, <2>2
<1>3. ASSUME NEW t \in Threads, Read(t) PROVE CoverInv'
  <2>1. PICK e \in Left(t) :
          /\ pc[t] = "read" /\ pc' = [pc EXCEPT ![t] = "stat"]
          /\ path' = Append(filename[t], e.name) /\ left' = [left EXCEPT ![t][e] = @ - 1]
          /\ UNCHANGED <<present, touched, failed, list, filename, outcome>>
    BY <1>3 DEF Read, ReadEntry, Goto, world
  <2>2. /\ \A s \in Threads \ {t} : left'[s] = left[s]
        /\ Left(t) \subseteq Left(t)' \cup {e}
    BY <1>0, <2>1, HasRead
  <2>3. Handed = {} /\ Handed' = {path'} /\ pc'[t] = "stat"
    BY <1>0, <2>1, Turn DEF Running, Hands
  <2>4. /\ Due(t) = {Append(filename[t], f.name) : f \in Left(t)}
        /\ Due(t)' = {Append(filename[t], f.name) : f \in Left(t)'}
    BY <2>1, <2>3 DEF Due, Reading
  <2>5. Due(t) \cup Handed \subseteq Due(t)' \cup Handed'
    BY <2>1, <2>2, <2>3, <2>4
  <2> QED
    BY <1>0, <2>1, <2>2, <2>5, TurnKeeps DEF Running
<1>4. ASSUME NEW t \in Threads, outcome = "running", Close(t) PROVE CoverInv'
  <2>1. pc[t] = "read" /\ Left(t) \cap Stable = {} /\ failed' = failed
    BY <1>4 DEF Close, Stable
  <2>2. Handed = {} /\ \A p \in Paths : Stays(p) => \A a \in Due(t) : ~Starts(p, a)
    <3>1. Handed = {}
      BY <1>0, <2>1, OthersWait DEF Running, Handed, Hands
    <3> QED
      BY <1>0, <2>1, <3>1, NothingLeft
  <2>3. CASE t = Main /\ Exit("done")
    <3>1. \A s \in Threads \ {t} : Due(s) = {}
      <4>1. ASSUME NEW s \in Threads \ {t} PROVE pc[s] \in {"none", "hung"}
        BY <1>0, <2>1, <2>3, OthersWait, NobodyWaits DEF Running
      <4> QED
        BY <4>1 DEF Due, Reading, Left
    <3>2. \A p \in Paths : Stays(p) => ~ToDo(p)
      BY <2>2, <3>1 DEF ToDo
    <3>3. ~Silent => \A p \in Paths : Stays(p) => Listed(p)
      BY <1>0, <1>4, <3>2 DEF Cover
    <3>4. UNCHANGED <<present, touched, list, failed>> /\ outcome' = "done"
      BY <2>1, <2>3 DEF Exit, world, shared
    <3>5. \A p : (Stays(p)' <=> Stays(p)) /\ (Listed(p)' <=> Listed(p))
      BY <3>4 DEF Stays, Listed, Stable, Finds, Walk
    <3> QED
      BY <1>0, <3>3, <3>4, <3>5 DEF CoverInv, Cover, Complete, Silent
  <2>4. CASE t # Main /\ Goto(t, "ended")
    BY <1>0, <1>4, <2>1, <2>2, <2>4, TurnKeeps DEF Close, Goto, Running, world, shared
  <2> QED
    BY <1>4, <2>3, <2>4 DEF Close
<1>5. ASSUME NEW t \in Threads, Stat(t) PROVE CoverInv'
  <2>1. PICK label \in {"record", "create", "read"} :
          /\ pc[t] = "stat" /\ pc' = [pc EXCEPT ![t] = label]
          /\ label = "read" => ~Finds(present, path, FileNodes) /\ ~Finds(present, path, DirNodes)
          /\ UNCHANGED <<present, touched, failed, path, list, filename, left, outcome>>
    BY <1>5 DEF Stat, Goto, world, shared
  <2>2. pc'[t] = label /\ Due(t)' = Due(t) /\ Handed = {path} /\ path \in Paths
    <3>1. pc'[t] = label
      BY <1>t, <2>1
    <3>2. Due(t)' = Due(t)
      BY <2>1, <3>1 DEF Due, Reading, Left
    <3>3. Handed = {path}
      BY <1>0, <2>1, Turn DEF Running, Hands
    <3>4. path \in Paths
      BY <1>0, <2>1 DEF ScanInv, Clean
    <3> QED
      BY <3>1, <3>2, <3>3, <3>4
  <2>3. CASE label # "read"
    <3>1. Handed' = {path}
      BY <1>0, <2>1, <2>3, Turn DEF Running, Hands
    <3> QED
      BY <1>0, <2>1, <2>2, <3>1, TurnKeeps DEF Running
  <2>4. CASE label = "read"
    <3>1. ASSUME NEW p \in Paths, Stays(p) PROVE ~Starts(p, path)
      <4> SUFFICES ASSUME Starts(p, path) PROVE FALSE
        OBVIOUS
      <4>1. p # path
        BY <1>0, <2>1, <2>4, <3>1, FindsGrows DEF Stays
      <4> QED
        BY <1>0, <2>1, <2>2, <2>4, <3>1, <4>1, StaysIn
    <3> QED
      BY <1>0, <2>1, <2>2, <3>1, TurnKeeps DEF Running
  <2> QED
    BY <2>3, <2>4
<1>6. ASSUME NEW t \in Threads, Record(t) PROVE CoverInv'
  <2>1. /\ pc[t] = "record" /\ pc' = [pc EXCEPT ![t] = "read"]
        /\ \/ list' = Append(list, path) /\ failed' = failed
           \/ list' = list /\ failed' = failed \cup {"write"}
        /\ UNCHANGED <<present, touched, filename, left, outcome>>
    BY <1>6 DEF Record, WriteLine, Goto, world
  <2>2. /\ path \in Paths /\ Handed = {path} /\ pc'[t] = "read"
        /\ \A s \in Threads : Due(s)' = Due(s)
    <3>1. pc'[t] = "read" /\ \A s \in Threads \ {t} : Due(s)' = Due(s)
      BY <1>0, <1>t, <2>1, Turn DEF Running
    <3>2. Due(t)' = Due(t)
      BY <2>1, <3>1 DEF Due, Reading, Left
    <3> QED
      BY <1>0, <2>1, <3>1, <3>2, Turn DEF Running, Hands, ScanInv, Clean
  <2>3. CASE list' = list /\ failed' = failed \cup {"write"}
    <3>1. Silent'
      BY <2>3 DEF Silent
    <3> QED
      BY <1>0, <2>1, <2>3, <3>1, TurnKeeps DEF Running
  <2>4. CASE list' = Append(list, path) /\ failed' = failed
    <3>1. /\ list \in Seq(Paths) /\ Len(list) \in Nat /\ Len(list') = Len(list) + 1
          /\ list'[Len(list) + 1] = path /\ \A i \in 1..Len(list) : list'[i] = list[i]
      BY <1>0, <2>2, <2>4 DEF ScanInv, TypeOK
    <3>2. \A p \in Paths : Listed(p) => Listed(p)'
      BY <3>1 DEF Listed
    <3>3. \A p \in Paths : p = path => Listed(p)'
      BY <3>1 DEF Listed
    <3>4. ASSUME NEW p \in Paths, Stays(p), Starts(p, path) PROVE p = path
      <4>1. Finds(Seen, path, FileNodes) /\ Stable \subseteq Seen
        BY <1>0, <2>1 DEF KeptInv, Files
      <4> QED
        BY <1>0, <2>2, <3>4, <4>1, StaysNotBelow
    <3>5. \A p \in Paths : Stays(p)' <=> Stays(p)
      BY <2>1, SameWorld DEF Stays
    <3>6. ASSUME NEW p \in Paths, Stays(p), ToDo(p), ~Listed(p)' PROVE ToDo(p)'
      <4>1. \A a, b : (Starts(a, b))' <=> Starts(a, b)
        BY DEF Starts
      <4>2. ~Starts(p, path)
        BY <3>3, <3>4, <3>6
      <4> QED
        BY <2>2, <3>6, <4>1, <4>2 DEF ToDo
    <3>7. Cover'
      BY <1>0, <2>1, <2>4, <3>2, <3>5, <3>6 DEF Cover, Silent
    <3>8. Complete'
      BY <1>0, <2>1, <2>4, <3>2, <3>5 DEF Complete, Silent
    <3> QED
      BY <1>0, <3>7, <3>8 DEF CoverInv
  <2> QED
    BY <2>1, <2>3, <2>4
<1>7. ASSUME NEW t \in Threads, Create(t) PROVE CoverInv'
  <2>1. PICK c \in Threads \ {t} :
          /\ pc[c] = "none" /\ pc[t] = "create"
          /\ pc' = [pc EXCEPT ![t] = "join", ![c] = "copy"]
          /\ UNCHANGED <<present, touched, failed, path, list, filename, left, outcome>>
    BY <1>7 DEF Create, Start, Free, world, shared
  <2>2. pc'[t] = "join" /\ pc'[c] = "copy" /\ \A s \in Threads \ {t, c} : pc'[s] = pc[s]
    BY <1>t, <2>1
  <2>3. Handed' = {path} /\ Handed \subseteq {path}
    BY <2>1, <2>2 DEF Handed, Hands
  <2>4. \A s \in Threads : Due(s)' = Due(s)
    BY <2>1, <2>2 DEF Due, Reading, Left
  <2>5. \A p \in Paths : ToDo(p) => ToDo(p)'
    BY <2>3, <2>4 DEF ToDo, Starts
  <2> QED
    BY <1>0, <2>1, <2>5, NothingLost DEF Stable
<1>8. ASSUME NEW t \in Threads, CreateFails(t) PROVE CoverInv'
  <2>1. CASE Exit("died")
    BY <1>a, <2>1 DEF Exit
  <2>2. CASE ~Exit("died")
    <3>1. PICK label \in {"read", "hung"} :
            /\ pc[t] = "create" /\ pc' = [pc EXCEPT ![t] = label]
            /\ failed' = failed \cup {"create"}
            /\ UNCHANGED <<present, touched, list, filename, left, outcome>>
      BY <1>8, <2>2 DEF CreateFails, Goto, world, shared
    <3>2. Silent'
      BY <3>1 DEF Silent
    <3> QED
      BY <1>0, <3>1, <3>2, TurnKeeps DEF Running
  <2> QED
    BY <2>1, <2>2
<1>9. ASSUME NEW t \in Threads, Join(t) PROVE CoverInv'
  <2>1. PICK c \in Threads \ {t} :
          /\ pc[t] = "join" /\ pc[c] = "ended"
          /\ pc' = [pc EXCEPT ![t] = "read", ![c] = "none"]
          /\ UNCHANGED <<present, touched, failed, path, list, filename, left, outcome>>
    BY <1>0, <1>9 DEF Join, ScanInv, TypeOK, world, shared
  <2>2. pc'[t] = "read" /\ pc'[c] = "none" /\ \A s \in Threads \ {t, c} : pc'[s] = pc[s]
    BY <1>t, <2>1
  <2>3. Handed' = Handed
    BY <2>1, <2>2 DEF Handed, Hands
  <2>4. \A s \in Threads : Due(s)' = Due(s)
    BY <2>1, <2>2 DEF Due, Reading, Left
  <2>5. \A p \in Paths : ToDo(p) => ToDo(p)'
    BY <2>3, <2>4 DEF ToDo, Starts
  <2> QED
    BY <1>0, <2>1, <2>5, NothingLost DEF Stable
<1>10. ASSUME NEW e \in Tree, Change(e) PROVE CoverInv'
  <2>1. /\ UNCHANGED <<failed, pc, path, list, filename, outcome>>
        /\ Stable' \subseteq Stable
    BY <1>10 DEF Change, Remove, Make, Stable, shared
  <2>2. CASE left' = left
    <3>1. \A t \in Threads : Due(t)' = Due(t)
      BY <2>1, <2>2 DEF Due, Reading, Left
    <3> QED
      BY <1>b, <2>1, <3>1
  <2>3. CASE PutBack(e)
    <3>1. \A t \in Threads : Due(t) \subseteq Due(t)'
      BY <1>0, <2>1, <2>3, HasPutBack
    <3> QED
      BY <1>b, <2>1, <3>1
  <2> QED
    BY <1>10, <2>2, <2>3 DEF Change, Remove
<1>11. CASE UNCHANGED vars
  <2>1. \A t \in Threads : Due(t)' = Due(t)
    BY <1>11 DEF vars, threads, Due, Reading, Left
  <2> QED
    BY <1>11, <1>b, <2>1 DEF vars, Stable, world, shared, threads
<1> QED
  BY <1>1, <1>2, <1>3, <1>4, <1>5, <1>6, <1>7, <1>8, <1>9, <1>10, <1>11 DEF Next, Step

(* What the list holds are regular files, and a scan that comes to its end *)
(* without a write or a thread that failed has every file that stayed      *)
(* where it was on it, by each of its paths.                               *)
THEOREM RightListKept == Spec => []RightList
<1>1. CoverInv => RightList
  <2> SUFFICES ASSUME CoverInv PROVE RightList
    OBVIOUS
  <2>1. Files /\ Complete
    BY DEF CoverInv, KeptInv
  <2>2. AllPaths \subseteq Paths
    BY DEF AllPaths, Paths
  <2>3. \A i \in 1..Len(list) : Finds(present \cup touched, list[i], FileNodes)
    BY <2>1 DEF Files, Seen
  <2>4. ASSUME outcome = "done", failed \cap {"write", "create"} = {},
               NEW p \in AllPaths, Finds(present \ touched, p, FileNodes)
        PROVE  \E i \in 1..Len(list) : list[i] = p
    BY <2>1, <2>2, <2>4 DEF Complete, Silent, Stays, Stable, Listed
  <2> QED
    BY <2>3, <2>4 DEF RightList
<1> QED
  BY <1>1, CoverInit, CoverStep, PTL DEF Spec

-----------------------------------------------------------------------------
(***************************************************************************)
(* The threads, taken together, are the one program of SequentialScan.     *)
(***************************************************************************)
ToScan == (UNION {Due(t) : t \in Threads}) \cup Handed
OpenPaths == {filename[t] : t \in {t \in Threads : Reading(t)}}
Others(t) == UNION {Due(s) : s \in Threads \ {t}}

(* What a step has to do to be one of SequentialScan.                      *)
LEMMA SequentialStutters ==
    UNCHANGED <<ToScan, OpenPaths, again, list, outcome>> => UNCHANGED Sequential!vars
BY DEF Sequential!vars, ToScan, OpenPaths

(* A path that has been taken up is still there only if it was put back.   *)
LEMMA SequentialRest ==
    ASSUME NEW p, NEW rest, rest = ToScan \ {p} \/ (rest = ToScan /\ ~Firm(p))
    PROVE  rest \in Sequential!RestOf(p)
<1>1. ~Firm(p) => \E q \in again : Sequential!Starts(p, q)
  BY DEF Firm, Starts, Sequential!Starts
<1> QED
  BY <1>1 DEF Sequential!RestOf, ToScan

LEMMA SequentialExpands ==
    ASSUME outcome = "running", UNCHANGED <<again, list, outcome>>,
           NEW p \in ToScan, NEW found \in SUBSET {Append(p, x) : x \in Names},
           NEW rest, rest = ToScan \ {p} \/ (rest = ToScan /\ ~Firm(p)),
           ToScan' = rest \cup found, OpenPaths' = OpenPaths \cup {p}
    PROVE  Sequential!Next
<1>1. rest \in Sequential!RestOf(p)
  BY SequentialRest
<1>2. Sequential!Expand
  BY <1>1, Zenon DEF Sequential!Expand, Sequential!EntriesOf, ToScan, OpenPaths
<1> QED
  BY <1>2, Zenon DEF Sequential!Next

LEMMA SequentialRecords ==
    ASSUME outcome = "running", UNCHANGED <<OpenPaths, again, outcome>>,
           NEW p \in ToScan, list' = Append(list, p),
           ToScan' = ToScan \ {p} \/ (ToScan' = ToScan /\ ~Firm(p))
    PROVE  Sequential!Next
<1>1. ToScan' \in Sequential!RestOf(p)
  BY SequentialRest
<1>2. Sequential!Record
  BY <1>1, Zenon DEF Sequential!Record, ToScan, OpenPaths
<1> QED
  BY <1>2, Zenon DEF Sequential!Next

LEMMA SequentialPassesOver ==
    ASSUME outcome = "running", UNCHANGED <<again, list, outcome>>,
           ToScan' \subseteq ToScan, OpenPaths' \subseteq OpenPaths
    PROVE  Sequential!Next
<1>1. Sequential!PassOver
  BY Zenon DEF Sequential!PassOver, ToScan, OpenPaths
<1> QED
  BY <1>1, Zenon DEF Sequential!Next

LEMMA SequentialPutsBack ==
    ASSUME outcome = "running", UNCHANGED <<OpenPaths, list, outcome>>,
           ToScan \subseteq ToScan', again \subseteq again', ToScan' \subseteq ToScan \cup again',
           \A p \in (ToScan' \ ToScan) \cup (again' \ again) :
             \E q \in OpenPaths, x \in Names : p = Append(q, x)
    PROVE  Sequential!Next
<1>1. (ToScan' \ ToScan) \cup (again' \ again) \subseteq
        UNION {Sequential!EntriesOf(q) : q \in OpenPaths}
  BY DEF Sequential!EntriesOf
<1>2. Sequential!PutBack
  BY <1>1, Zenon DEF Sequential!PutBack, ToScan, OpenPaths
<1> QED
  BY <1>2, Zenon DEF Sequential!Next

LEMMA SequentialEnds ==
    ASSUME outcome = "running", UNCHANGED <<ToScan, OpenPaths, again, list>>,
           \/ outcome' \in {"exited", "died"}
           \/ outcome' = "done" /\ \A p, q \in ToScan : Sequential!Siblings(p, q)
    PROVE  Sequential!Next
<1>1. CASE outcome' \in {"exited", "died"}
  BY <1>1 DEF Sequential!Next, Sequential!GiveUp, ToScan, OpenPaths
<1>2. CASE outcome' = "done" /\ \A p, q \in ToScan : Sequential!Siblings(p, q)
  <2>1. Sequential!Finish
    BY <1>2 DEF Sequential!Finish, ToScan, OpenPaths
  <2> QED
    BY <2>1 DEF Sequential!Next
<1> QED
  BY <1>1, <1>2

(* What others have to do stays with them, and is nothing of what the      *)
(* thread whose turn it is has to do or hands on, but what was put back.   *)
LEMMA TurnOfOne ==
    ASSUME OnceInv, NEW t \in Threads, Running(t),
           NEW label, pc' = [pc EXCEPT ![t] = label],
           \A s \in Threads \ {t} : left'[s] = left[s] /\ filename'[s] = filename[s]
    PROVE  /\ ToScan = Others(t) \cup Due(t) \cup Handed
           /\ ToScan' = Others(t) \cup Due(t)' \cup Handed'
           /\ \A p : p \in Others(t) /\ p \in Due(t) \cup Handed => ~Firm(p)
           /\ \A p : p \in Due(t) /\ p \in Handed => ~Firm(p)
<1>1. ScanInv /\ \A s \in Threads \ {t} : Due(s)' = Due(s)
  BY Turn DEF OnceInv
<1>2. \A p \in Paths : ~Apart(p, p)
  BY StartsOrder DEF Apart
<1>3. \A s \in Threads : Due(s) \subseteq Paths
  BY <1>1, DuePaths
<1>4. /\ \A p : p \in Others(t) /\ p \in Due(t) \cup Handed => ~Firm(p)
      /\ \A p : p \in Due(t) /\ p \in Handed => ~Firm(p)
  BY <1>2, <1>3 DEF OnceInv, AllApart, Others
<1>5. Others(t)' = Others(t)
  BY <1>1 DEF Others
<1>6. ToScan = Others(t) \cup Due(t) \cup Handed
  <2>1. \A a : a \in Others(t) \/ a \in Due(t) <=> \E s \in Threads : a \in Due(s)
    BY DEF Others
  <2>2. \A a : a \in ToScan <=> (\E s \in Threads : a \in Due(s)) \/ a \in Handed
    BY DEF ToScan
  <2>3. \A a : a \in ToScan <=> a \in Others(t) \cup Due(t) \cup Handed
    BY <2>1, <2>2
  <2> QED
    BY <2>3
<1>7. ToScan' = Others(t)' \cup Due(t)' \cup Handed'
  <2>1. \A a : a \in Others(t)' \/ a \in Due(t)' <=> \E s \in Threads : a \in Due(s)'
    BY DEF Others
  <2>2. \A a : a \in ToScan' <=> (\E s \in Threads : a \in Due(s)') \/ a \in Handed'
    BY DEF ToScan
  <2>3. \A a : a \in ToScan' <=> a \in Others(t)' \cup Due(t)' \cup Handed'
    BY <2>1, <2>2
  <2> QED
    BY <2>3
<1> QED
  BY <1>4, <1>5, <1>6, <1>7

LEMMA SequentialInit == Init => Sequential!Init
<1> SUFFICES ASSUME Init PROVE Sequential!Init
  OBVIOUS
<1>1. Handed = {<<>>}
  BY ConstantsOK DEF Init, Handed, Hands
<1>2. \A t \in Threads : Due(t) = {}
  BY DEF Init, Due, Reading
<1>3. ToScan = {<<>>}
  BY <1>1, <1>2 DEF ToScan
<1>4. OpenPaths = {}
  BY DEF Init, OpenPaths, Reading
<1> QED
  BY <1>3, <1>4 DEF Init, Sequential!Init, ToScan, OpenPaths

(* One directory has been read to its end, and there is nothing else.      *)
LEMMA OneDirLeft ==
    ASSUME ParentInv, pc[Main] = "read", Main \in Threads,
           NEW p \in ToScan, NEW q \in ToScan
    PROVE  Sequential!Siblings(p, q)
<1>1. ScanInv /\ filename[Main] \in Paths
  BY DEF ParentInv, ScanInv, TypeOK
<1>2. \A s \in Threads \ {Main} : pc[s] \in {"none", "hung"}
  BY <1>1, OthersWait, NobodyWaits DEF Running
<1>3. Handed = {}
  BY <1>2 DEF Handed, Hands
<1>4. \A s \in Threads \ {Main} : Due(s) = {}
  BY <1>2 DEF Due, Reading
<1>5. p \in Due(Main) /\ q \in Due(Main)
  BY <1>3, <1>4 DEF ToScan
<1>6. PICK e \in Left(Main) : p = Append(filename[Main], e.name)
  BY <1>5 DEF Due, Reading
<1>7. PICK f \in Left(Main) : q = Append(filename[Main], f.name)
  BY <1>5 DEF Due, Reading
<1>8. e.name \in Names /\ f.name \in Names
  BY <1>1, DuePaths
<1>9. PICK n \in Nat : n = Len(filename[Main])
  BY <1>1, PathLength
<1>10. /\ Len(p) = n + 1 /\ Len(q) = n + 1
       /\ \A i \in 1..n : p[i] = filename[Main][i] /\ q[i] = filename[Main][i]
  BY <1>1, <1>6, <1>7, <1>8, <1>9, AppendPath
<1> QED
  BY <1>10 DEF Sequential!Siblings

(* The directories that are open change with the turn.                     *)
LEMMA TurnOpens ==
    ASSUME ScanInv, NEW t \in Threads, NEW label, pc' = [pc EXCEPT ![t] = label],
           \A s \in Threads \ {t} : filename'[s] = filename[s]
    PROVE  /\ (Reading(t)' => Reading(t) /\ filename'[t] = filename[t]) => OpenPaths' \subseteq OpenPaths
           /\ (Reading(t)' <=> Reading(t)) /\ (Reading(t) => filename'[t] = filename[t])
                => OpenPaths' = OpenPaths
           /\ Reading(t)' /\ ~Reading(t) => OpenPaths' = OpenPaths \cup {filename'[t]}
<1>1. \A s \in Threads \ {t} : (Reading(s)' <=> Reading(s)) /\ filename'[s] = filename[s]
  BY DEF ScanInv, TypeOK, Reading
<1>2. \A p : p \in OpenPaths <=> \E s \in Threads : Reading(s) /\ p = filename[s]
  BY DEF OpenPaths
<1>3. \A p : p \in OpenPaths' <=> \E s \in Threads : Reading(s)' /\ p = filename'[s]
  BY DEF OpenPaths
<1>4. ASSUME Reading(t)' => Reading(t) /\ filename'[t] = filename[t]
      PROVE  OpenPaths' \subseteq OpenPaths
  BY <1>1, <1>2, <1>3, <1>4
<1>5. ASSUME Reading(t)' <=> Reading(t), Reading(t) => filename'[t] = filename[t]
      PROVE  OpenPaths' = OpenPaths
  <2>1. \A p : p \in OpenPaths' <=> p \in OpenPaths
    BY <1>1, <1>2, <1>3, <1>5
  <2> QED
    BY <2>1
<1>6. ASSUME Reading(t)', ~Reading(t)
      PROVE  OpenPaths' = OpenPaths \cup {filename'[t]}
  <2>1. \A p : p \in OpenPaths' <=> p \in OpenPaths \/ p = filename'[t]
    BY <1>1, <1>2, <1>3, <1>6
  <2> QED
    BY <2>1
<1> QED
  BY <1>4, <1>5, <1>6

LEMMA SequentialStep ==
    ASSUME OnceInv, ParentInv, [Next]_vars
    PROVE  [Sequential!Next]_(Sequential!vars)
<1>0. ScanInv
  BY DEF OnceInv
<1>t. DOMAIN pc = Threads /\ DOMAIN filename = Threads
  BY <1>0 DEF ScanInv, TypeOK
<1>a. ASSUME UNCHANGED <<ToScan, OpenPaths, again, list, outcome>>
      PROVE  [Sequential!Next]_(Sequential!vars)
  BY <1>a, SequentialStutters
<1>b. ASSUME UNCHANGED <<pc, path, filename, left>> PROVE UNCHANGED <<ToScan, OpenPaths>>
  BY <1>b DEF ToScan, OpenPaths, Due, Reading, Left, Handed
<1>c. ASSUME NEW how \in {"exited", "died"}, Exit(how), outcome = "running"
      PROVE  Sequential!Next
  BY <1>b, <1>c, SequentialEnds DEF Exit, world, shared, threads
<1>d. ASSUME NEW t \in Threads, Running(t), NEW label, pc' = [pc EXCEPT ![t] = label],
             \A s \in Threads \ {t} : left'[s] = left[s] /\ filename'[s] = filename[s],
             Due(t)' \cup Handed' \subseteq Due(t) \cup Handed,
             Reading(t)' => Reading(t) /\ filename'[t] = filename[t],
             UNCHANGED <<again, list, outcome>>, outcome = "running"
      PROVE  Sequential!Next
  <2>1. ToScan' \subseteq ToScan
    BY <1>d, TurnOfOne
  <2>2. OpenPaths' \subseteq OpenPaths
    BY <1>0, <1>d, TurnOpens
  <2> QED
    BY <1>d, <2>1, <2>2, SequentialPassesOver
<1>1. ASSUME NEW t \in Threads, outcome = "running", Copy(t) PROVE Sequential!Next
  <2>1. /\ pc[t] = "copy" /\ pc' = [pc EXCEPT ![t] = "open"]
        /\ filename' = [filename EXCEPT ![t] = path]
        /\ UNCHANGED <<again, path, list, left, outcome>>
    BY <1>1 DEF Copy, Goto, world, shared
  <2>2. Handed = {path} /\ Handed' = {} /\ Due(t)' = {path} /\ ~Reading(t)'
    <3>1. Handed = {path} /\ Handed' = {}
      BY <1>0, <2>1, Turn DEF Running, Hands
    <3> QED
      BY <1>t, <2>1, <3>1 DEF Due, Reading
  <2> QED
    BY <1>t, <1>1, <1>d, <2>1, <2>2 DEF Running
<1>2. ASSUME NEW t \in Threads, outcome = "running", Open(t) PROVE Sequential!Next
  <2>1. CASE Exit("exited")
    BY <1>2, <1>c, <2>1
  <2>2. CASE ~Exit("exited")
    <3>1. /\ pc[t] = "open" /\ pc' = [pc EXCEPT ![t] = "read"] /\ pc'[t] = "read"
          /\ \A s \in Threads \ {t} : left'[s] = left[s]
          /\ \A e \in Left(t)' : e \in Tree
          /\ UNCHANGED <<again, path, list, filename, outcome>>
      BY <1>0, <1>2, <2>2, Opened
    <3>2. \A e \in Left(t)' : e.name \in Names
      BY <3>1 DEF Names
    <3>3. Due(t) = {filename[t]} /\ Due(t)' = {Append(filename[t], e.name) : e \in Left(t)'}
      BY <3>1 DEF Due, Reading
    <3>4. Handed = {} /\ Handed' = {}
      BY <1>0, <3>1, Turn DEF Running, Hands
    <3>5. PICK found \in SUBSET {Append(filename[t], x) : x \in Names} : found = Due(t)'
      BY <3>2, <3>3
    <3>6. OpenPaths' = OpenPaths \cup {filename[t]}
      <4>1. Reading(t)' /\ ~Reading(t)
        BY <3>1 DEF Reading
      <4> QED
        BY <1>0, <3>1, <4>1, TurnOpens
    <3>7. /\ ToScan = Others(t) \cup {filename[t]} /\ ToScan' = Others(t) \cup found
          /\ filename[t] \in Others(t) => ~Firm(filename[t])
      BY <3>1, <3>3, <3>4, <3>5, TurnOfOne DEF Running
    <3>8. PICK rest : /\ rest = Others(t)
                      /\ rest = ToScan \ {filename[t]} \/ (rest = ToScan /\ ~Firm(filename[t]))
      BY <3>7
    <3> QED
      BY <1>2, <3>1, <3>6, <3>7, <3>8, SequentialExpands
  <2> QED
    BY <2>1, <2>2
<1>3. ASSUME NEW t \in Threads, outcome = "running", Read(t) PROVE Sequential!Next
  <2>1. PICK e \in Left(t) :
          /\ pc[t] = "read" /\ pc' = [pc EXCEPT ![t] = "stat"]
          /\ path' = Append(filename[t], e.name) /\ left' = [left EXCEPT ![t][e] = @ - 1]
          /\ UNCHANGED <<again, list, filename, outcome>>
    BY <1>3 DEF Read, ReadEntry, Goto, world
  <2>2. Left(t)' \subseteq Left(t) /\ \A s \in Threads \ {t} : left'[s] = left[s]
    BY <1>0, <2>1, HasRead
  <2>3. Handed = {} /\ Handed' = {path'} /\ pc'[t] = "stat"
    BY <1>0, <2>1, Turn DEF Running, Hands
  <2>4. /\ Due(t) = {Append(filename[t], f.name) : f \in Left(t)}
        /\ Due(t)' = {Append(filename[t], f.name) : f \in Left(t)'} /\ Reading(t)
    BY <2>1, <2>3 DEF Due, Reading
  <2>5. Due(t)' \cup Handed' \subseteq Due(t) \cup Handed
    BY <2>1, <2>2, <2>3, <2>4
  <2> QED
    BY <1>3, <1>d, <2>1, <2>2, <2>4, <2>5 DEF Running
<1>4. ASSUME NEW t \in Threads, outcome = "running",
             NEW label \in {"read", "record", "create", "ended", "hung"},
             pc[t] \in {"read", "stat", "create"}, pc[t] = "read" => label = "ended",
             pc' = [pc EXCEPT ![t] = label],
             UNCHANGED <<again, path, list, filename, left, outcome>>
      PROVE  Sequential!Next
  <2>1. Handed' \subseteq Handed /\ pc'[t] = label
    BY <1>0, <1>t, <1>4, Turn DEF Running, Hands
  <2>2. Due(t)' \subseteq Due(t) /\ Reading(t)
    BY <1>4, <2>1 DEF Due, Reading, Left
  <2> QED
    BY <1>4, <1>d, <2>1, <2>2 DEF Running
<1>5. ASSUME NEW t \in Threads, outcome = "running", Close(t) PROVE Sequential!Next
  <2>1. CASE t = Main /\ Exit("done")
    <3>1. pc[Main] = "read" /\ Main \in Threads
      BY <1>5, <2>1 DEF Close
    <3>2. \A p, q \in ToScan : Sequential!Siblings(p, q)
      BY <3>1, OneDirLeft
    <3> QED
      BY <1>5, <1>b, <2>1, <3>2, SequentialEnds DEF Exit, world, shared, threads
  <2>2. CASE ~(t = Main /\ Exit("done"))
    BY <1>4, <1>5, <2>2 DEF Close, Goto, world, shared
  <2> QED
    BY <2>1, <2>2
<1>6. ASSUME NEW t \in Threads, outcome = "running", Stat(t) PROVE Sequential!Next
  BY <1>4, <1>6 DEF Stat, Goto, world, shared
<1>7. ASSUME NEW t \in Threads, outcome = "running", Record(t) PROVE Sequential!Next
  <2>1. /\ pc[t] = "record" /\ pc' = [pc EXCEPT ![t] = "read"]
        /\ list' = list \/ list' = Append(list, path)
        /\ UNCHANGED <<again, filename, left, outcome>>
    BY <1>7 DEF Record, WriteLine, Goto, world
  <2>2. Handed = {path} /\ Handed' = {} /\ pc'[t] = "read"
    BY <1>0, <1>t, <2>1, Turn DEF Running, Hands
  <2>3. Due(t)' = Due(t) /\ Reading(t) /\ Reading(t)'
    BY <2>1, <2>2 DEF Due, Reading, Left
  <2>4. CASE list' = list
    BY <1>7, <1>d, <2>1, <2>2, <2>3, <2>4 DEF Running
  <2>5. CASE list' = Append(list, path)
    <3>1. /\ ToScan = Others(t) \cup Due(t) \cup {path}
          /\ ToScan' = Others(t) \cup Due(t)
          /\ path \in Others(t) \/ path \in Due(t) => ~Firm(path)
      <4>1. Running(t) /\ \A s \in Threads \ {t} : left'[s] = left[s] /\ filename'[s] = filename[s]
        BY <2>1 DEF Running
      <4> QED
        BY <2>1, <2>2, <2>3, <4>1, TurnOfOne
    <3>2. path \in ToScan /\ (ToScan' = ToScan \ {path} \/ (ToScan' = ToScan /\ ~Firm(path)))
      BY <3>1
    <3>3. OpenPaths' = OpenPaths
      BY <1>0, <2>1, <2>3, TurnOpens
    <3> QED
      BY <1>7, <2>1, <2>5, <3>2, <3>3, SequentialRecords
  <2> QED
    BY <2>1, <2>4, <2>5
<1>8. ASSUME NEW t \in Threads, outcome = "running", Create(t) PROVE Sequential!Next
  <2>1. PICK c \in Threads \ {t} :
          /\ pc[c] = "none" /\ pc[t] = "create"
          /\ pc' = [pc EXCEPT ![t] = "join", ![c] = "copy"]
          /\ UNCHANGED <<again, path, list, filename, left, outcome>>
    BY <1>8 DEF Create, Start, Free, world, shared
  <2>2. pc'[t] = "join" /\ pc'[c] = "copy" /\ \A s \in Threads \ {t, c} : pc'[s] = pc[s]
    BY <1>t, <2>1
  <2>3. Handed = {path} /\ Handed' = {path}
    BY <2>1, <2>2 DEF Handed, Hands
  <2>4. \A s \in Threads : Due(s)' = Due(s) /\ (Reading(s)' <=> Reading(s))
    BY <2>1, <2>2 DEF Due, Reading, Left
  <2>5. ToScan' = ToScan /\ OpenPaths' = OpenPaths
    BY <2>1, <2>3, <2>4 DEF ToScan, OpenPaths
  <2> QED
    BY <1>8, <2>1, <2>5, SequentialPassesOver
<1>9. ASSUME NEW t \in Threads, outcome = "running", CreateFails(t) PROVE Sequential!Next
  <2>1. CASE Exit("died")
    BY <1>9, <1>c, <2>1
  <2>2. CASE ~Exit("died")
    BY <1>4, <1>9, <2>2 DEF CreateFails, Goto, world, shared
  <2> QED
    BY <2>1, <2>2
<1>10. ASSUME NEW t \in Threads, outcome = "running", Join(t) PROVE Sequential!Next
  <2>1. PICK c \in Threads \ {t} :
          /\ pc[t] = "join" /\ pc[c] = "ended"
          /\ pc' = [pc EXCEPT ![t] = "read", ![c] = "none"]
          /\ UNCHANGED <<again, path, list, filename, left, outcome>>
    BY <1>0, <1>10 DEF Join, ScanInv, TypeOK, world, shared
  <2>2. pc'[t] = "read" /\ pc'[c] = "none" /\ \A s \in Threads \ {t, c} : pc'[s] = pc[s]
    BY <1>t, <2>1
  <2>3. Handed' = Handed
    BY <2>1, <2>2 DEF Handed, Hands
  <2>4. \A s \in Threads : Due(s)' = Due(s) /\ (Reading(s)' <=> Reading(s))
    BY <2>1, <2>2 DEF Due, Reading, Left
  <2>5. ToScan' = ToScan /\ OpenPaths' = OpenPaths
    BY <2>1, <2>3, <2>4 DEF ToScan, OpenPaths
  <2> QED
    BY <1>10, <2>1, <2>5, SequentialPassesOver
<1>11. ASSUME NEW e \in Tree, Change(e) PROVE [Sequential!Next]_(Sequential!vars)
  <2>1. UNCHANGED <<pc, path, list, filename, outcome>> /\ outcome = "running"
    BY <1>11 DEF Change, shared
  <2>2. CASE UNCHANGED <<again, left>>
    BY <1>a, <1>b, <2>1, <2>2
  <2>3. CASE PutBack(e)
    <3>1. /\ again \subseteq again'
          /\ \A p \in again' \ again :
               \E t \in Threads : Reading(t) /\ p = Append(filename[t], e.name)
          /\ \A t \in Threads : \A f \in Tree :
               left'[t][f] = left[t][f] \/ (f = e /\ Reading(t))
          /\ \A t \in Threads : Reading(t)' <=> Reading(t)
          /\ \A t \in Threads : Due(t) \subseteq Due(t)' /\ Due(t)' \subseteq Due(t) \cup again'
      BY <1>0, <2>1, <2>3, HasPutBack
    <3>2. /\ e.name \in Names /\ \A t \in Threads : Reading(t) => filename[t] \in OpenPaths
      BY DEF Names, OpenPaths
    <3>3. Handed' = Handed /\ OpenPaths' = OpenPaths
      BY <2>1, <3>1 DEF Handed, OpenPaths
    <3>4. ASSUME NEW t \in Threads, NEW p \in Due(t)', p \notin Due(t)
          PROVE  Reading(t) /\ p = Append(filename[t], e.name)
      <4>1. Reading(t)
        BY <2>1, <3>4 DEF Due, Reading
      <4>2. PICK f \in Left(t)' : p = Append(filename[t], f.name)
        BY <2>1, <3>1, <3>4, <4>1 DEF Due, Reading
      <4>3. f \notin Left(t)
        BY <3>4, <4>1, <4>2 DEF Due, Reading
      <4> QED
        BY <3>1, <4>1, <4>2, <4>3 DEF Left
    <3>5. \A p \in ToScan' \ ToScan : \E t \in Threads : Reading(t) /\ p = Append(filename[t], e.name)
      BY <3>3, <3>4 DEF ToScan
    <3>6. \A p \in (ToScan' \ ToScan) \cup (again' \ again) :
            \E q \in OpenPaths, x \in Names : p = Append(q, x)
      BY <3>1, <3>2, <3>5
    <3>7. ToScan \subseteq ToScan' /\ ToScan' \subseteq ToScan \cup again'
      BY <3>1, <3>3 DEF ToScan
    <3> QED
      BY <2>1, <3>1, <3>3, <3>6, <3>7, SequentialPutsBack
  <2> QED
    BY <1>11, <2>2, <2>3 DEF Change, Remove
<1>12. CASE UNCHANGED vars
  BY <1>12, <1>a, <1>b DEF vars, world, shared, threads
<1> QED
  BY <1>1, <1>2, <1>3, <1>5, <1>6, <1>7, <1>8, <1>9, <1>10, <1>11, <1>12 DEF Next, Step

(* However many threads there are, whatever fails and whatever other       *)
(* programs remove, make and put back, together they do what one program   *)
(* does that takes up each path once, and once more only if it was put     *)
(* back below a directory being read; and main does not return over the    *)
(* work of another thread.                                                 *)
THEOREM ScanImplemented == Spec => ImplementsSequential
<1>1. Spec => []ParentInv
  BY ParentInit, ParentStep, PTL DEF Spec
<1> QED
  BY <1>1, SequentialInit, SequentialStep, OnceInvariant, PTL
     DEF Spec, ImplementsSequential, Sequential!Spec

-----------------------------------------------------------------------------
(***************************************************************************)
(* What SequentialScan itself promises: the trees still to be listed have  *)
(* nothing in common, with each other or with the list, but what was put   *)
(* back.                                                                   *)
(***************************************************************************)
FirmIn(p, A) == \A q \in A : ~Starts(p, q)
Disjoint(T, A, L) ==
    /\ T \subseteq Paths /\ A \subseteq Paths /\ L \in Seq(Paths)
    /\ \A a, b \in T : a # b /\ FirmIn(a, A) /\ FirmIn(b, A) => Apart(a, b)
    /\ \A i \in 1..Len(L) : FirmIn(L[i], A) => \A a \in T : ~Starts(L[i], a)
    /\ \A i, j \in 1..Len(L) : L[i] = L[j] /\ FirmIn(L[i], A) => i = j

LEMMA FirmInAbove ==
    ASSUME NEW A \in SUBSET Paths, NEW p \in Paths, NEW q \in Paths
    PROVE  FirmIn(p, A) /\ Starts(p, q) => FirmIn(q, A)
<1>1. \A r \in A : Starts(p, q) /\ Starts(q, r) => Starts(p, r)
  BY StartsOrder
<1> QED
  BY <1>1 DEF FirmIn

LEMMA NotFirmIn == ASSUME NEW A \in SUBSET Paths PROVE \A p \in A : ~FirmIn(p, A)
<1>1. \A p \in A : Starts(p, p)
  BY StartsOrder
<1> QED
  BY <1>1 DEF FirmIn

(* Nothing more but what is put back.                                      *)
LEMMA LessDisjoint ==
    ASSUME NEW T, NEW A, NEW L, Disjoint(T, A, L), NEW U \in SUBSET Paths, NEW B \in SUBSET Paths,
           A \subseteq B, U \subseteq T \cup B
    PROVE  Disjoint(U, B, L)
<1>1. \A p : FirmIn(p, B) => FirmIn(p, A)
  BY DEF FirmIn
<1>2. \A p \in U : FirmIn(p, B) => p \in T
  BY NotFirmIn
<1>3. \A a, b \in U : a # b /\ FirmIn(a, B) /\ FirmIn(b, B) => Apart(a, b)
  BY <1>1, <1>2 DEF Disjoint
<1>4. ASSUME NEW i \in 1..Len(L), FirmIn(L[i], B), NEW a \in U PROVE ~Starts(L[i], a)
  <2>1. CASE a \in B
    BY <1>4, <2>1 DEF FirmIn
  <2>2. CASE a \in T
    BY <1>1, <1>4, <2>2 DEF Disjoint
  <2> QED
    BY <2>1, <2>2
<1>5. \A i, j \in 1..Len(L) : L[i] = L[j] /\ FirmIn(L[i], B) => i = j
  BY <1>1 DEF Disjoint
<1> QED
  BY <1>3, <1>4, <1>5 DEF Disjoint

(* A directory gives way to what was found in it, or stays if it was put   *)
(* back.                                                                   *)
LEMMA ExpandDisjoint ==
    ASSUME NEW T, NEW A, NEW L, Disjoint(T, A, L), NEW p \in T,
           NEW rest, rest = T \ {p} \/ (rest = T /\ ~FirmIn(p, A)),
           NEW found \in SUBSET {Append(p, x) : x \in Names}
    PROVE  Disjoint(rest \cup found, A, L)
<1>1. /\ T \subseteq Paths /\ p \in Paths /\ L \in Seq(Paths) /\ A \in SUBSET Paths
      /\ rest \subseteq T
  BY DEF Disjoint
<1>2. \A b \in found : \E x \in Names :
        b = Append(p, x) /\ b \in Paths /\ (FirmIn(b, A) => FirmIn(p, A))
  <2>1. ASSUME NEW x \in Names
        PROVE  Append(p, x) \in Paths /\ (FirmIn(Append(p, x), A) => FirmIn(p, A))
    BY <1>1, AppendPath, StartsAppend, FirmInAbove
  <2> QED
    BY <2>1
<1>3. ASSUME NEW a \in rest, NEW b \in found, FirmIn(a, A), FirmIn(b, A)
      PROVE  Apart(a, b) /\ Apart(b, a)
  <2>1. PICK x \in Names : b = Append(p, x)
    BY <1>2
  <2>2. a \in T /\ a # p
    BY <1>1, <1>2, <1>3
  <2>3. Apart(p, a) /\ a \in Paths
    BY <1>1, <1>2, <1>3, <2>2 DEF Disjoint
  <2>4. Apart(b, a)
    BY <1>1, <2>1, <2>3, Beneath
  <2> QED
    BY <2>4 DEF Apart
<1>4. ASSUME NEW a \in found, NEW b \in found, a # b PROVE Apart(a, b)
  <2>1. PICK x \in Names, y \in Names : a = Append(p, x) /\ b = Append(p, y) /\ x # y
    BY <1>2, <1>4
  <2> QED
    BY <1>1, <2>1, StartsAppend DEF Apart
<1>5. \A a, b \in rest \cup found : a # b /\ FirmIn(a, A) /\ FirmIn(b, A) => Apart(a, b)
  <2>1. \A a, b \in rest : a # b /\ FirmIn(a, A) /\ FirmIn(b, A) => Apart(a, b)
    BY <1>1 DEF Disjoint
  <2> QED
    BY <1>3, <1>4, <2>1
<1>6. ASSUME NEW i \in 1..Len(L), FirmIn(L[i], A), NEW a \in rest \cup found
      PROVE  ~Starts(L[i], a)
  <2>1. CASE a \in rest
    BY <1>1, <1>6, <2>1 DEF Disjoint
  <2>2. CASE a \in found
    <3>1. PICK x \in Names : a = Append(p, x)
      BY <1>2, <2>2
    <3>2. ~Starts(L[i], p) /\ L[i] \in Paths
      BY <1>1, <1>6 DEF Disjoint
    <3> QED
      BY <1>1, <3>1, <3>2, Beneath
  <2> QED
    BY <2>1, <2>2
<1>7. rest \cup found \subseteq Paths
  BY <1>1, <1>2
<1> QED
  BY <1>5, <1>6, <1>7 DEF Disjoint

(* A path goes from what is to be listed to the list, or stays, too.       *)
LEMMA RecordDisjoint ==
    ASSUME NEW T, NEW A, NEW L, Disjoint(T, A, L), NEW p \in T,
           NEW rest, rest = T \ {p} \/ (rest = T /\ ~FirmIn(p, A))
    PROVE  Disjoint(rest, A, Append(L, p))
<1>1. /\ p \in Paths /\ L \in Seq(Paths) /\ Len(L) \in Nat /\ T \subseteq Paths
      /\ A \in SUBSET Paths /\ rest \subseteq T
  BY DEF Disjoint
<1>2. PICK M : M = Append(L, p)
  OBVIOUS
<1>3. /\ M \in Seq(Paths) /\ Len(M) = Len(L) + 1 /\ M[Len(L) + 1] = p
      /\ \A i \in 1..Len(L) : M[i] = L[i]
  BY <1>1, <1>2
<1>4. ASSUME NEW i \in 1..Len(M), FirmIn(M[i], A), NEW a \in rest PROVE ~Starts(M[i], a)
  <2>1. CASE i \in 1..Len(L)
    BY <1>1, <1>3, <1>4, <2>1 DEF Disjoint
  <2>2. CASE i = Len(L) + 1
    <3> SUFFICES ASSUME Starts(p, a) PROVE FALSE
      BY <1>3, <2>2
    <3>1. a \in T /\ a # p /\ FirmIn(p, A)
      BY <1>1, <1>3, <1>4, <2>2
    <3>2. FirmIn(a, A)
      BY <1>1, <3>1, FirmInAbove
    <3> QED
      BY <3>1, <3>2 DEF Disjoint, Apart
  <2> QED
    BY <1>1, <1>3, <2>1, <2>2
<1>5. \A i \in 1..Len(L) : FirmIn(L[i], A) => L[i] # p
  BY <1>1, StartsOrder DEF Disjoint
<1>6. \A i, j \in 1..Len(M) : M[i] = M[j] /\ FirmIn(M[i], A) => i = j
  BY <1>1, <1>3, <1>5 DEF Disjoint
<1>7. \A a, b \in rest : a # b /\ FirmIn(a, A) /\ FirmIn(b, A) => Apart(a, b)
  BY <1>1 DEF Disjoint
<1> QED
  BY <1>1, <1>2, <1>3, <1>4, <1>6, <1>7 DEF Disjoint

(* Whatever does what SequentialScan does lists no path twice but one that *)
(* was put back: the abstraction the threads are measured against promises *)
(* it by itself.                                                           *)
THEOREM SequentialListsOnce == ImplementsSequential => []ListedOnce
<1> DEFINE SeqInv == Disjoint(ToScan, again, list) /\ OpenPaths \subseteq Paths
<1>1. Sequential!Init => SeqInv
  <2> SUFFICES ASSUME Sequential!Init PROVE SeqInv
    OBVIOUS
  <2>1. ToScan = {<<>>} /\ list = <<>> /\ again = {} /\ OpenPaths = {}
    BY DEF Sequential!Init, ToScan, OpenPaths
  <2>2. <<>> \in Paths /\ <<>> \in Seq(Paths) /\ Len(<<>>) = 0
    BY DEF Paths
  <2> QED
    BY <2>1, <2>2 DEF Disjoint
<1>2. ASSUME SeqInv, [Sequential!Next]_(Sequential!vars) PROVE SeqInv'
  <2>1. PICK T, U : T = ToScan /\ U = ToScan'
    OBVIOUS
  <2>2. PICK A, B : A = again /\ B = again'
    OBVIOUS
  <2>3. PICK L, M : L = list /\ M = list'
    OBVIOUS
  <2>4. PICK O, P : O = OpenPaths /\ P = OpenPaths'
    OBVIOUS
  <2>5. Disjoint(T, A, L) /\ O \subseteq Paths
    BY <1>2, <2>1, <2>2, <2>3, <2>4
  <2>6. \A p : \A rest \in Sequential!RestOf(p) :
          rest = T \ {p} \/ (rest = T /\ ~FirmIn(p, A))
    <3>1. \A p, q : Sequential!Starts(p, q) <=> Starts(p, q)
      BY DEF Sequential!Starts, Starts
    <3> QED
      BY <2>1, <2>2, <3>1 DEF Sequential!RestOf, FirmIn, ToScan
  <2>7. \/ M = L /\ B = A /\ U \subseteq T /\ P \subseteq O
        \/ M = L /\ B = A /\ \E p \in T : \E rest \in Sequential!RestOf(p) :
             \E found \in SUBSET {Append(p, x) : x \in Names} :
               U = rest \cup found /\ P = O \cup {p}
        \/ B = A /\ P = O /\ \E p \in T : M = Append(L, p) /\ U \in Sequential!RestOf(p)
        \/ /\ M = L /\ P = O /\ A \subseteq B /\ U \subseteq T \cup B
           /\ (U \ T) \cup (B \ A) \subseteq UNION {{Append(p, x) : x \in Names} : p \in O}
    <3> USE <2>1, <2>2, <2>3, <2>4
    <3>1. CASE Sequential!Expand
      BY <3>1, Zenon DEF Sequential!Expand, Sequential!EntriesOf, ToScan, OpenPaths
    <3>2. CASE Sequential!Record
      BY <3>2, Zenon DEF Sequential!Record, ToScan, OpenPaths
    <3>3. CASE Sequential!PassOver
      BY <3>3, Zenon DEF Sequential!PassOver, ToScan, OpenPaths
    <3>4. CASE Sequential!PutBack
      BY <3>4, Zenon DEF Sequential!PutBack, Sequential!EntriesOf, ToScan, OpenPaths
    <3>5. CASE Sequential!Finish \/ Sequential!GiveUp \/ UNCHANGED Sequential!vars
      <4>1. UNCHANGED <<ToScan, OpenPaths, again, list>>
        BY <3>5, Zenon
        DEF Sequential!Finish, Sequential!GiveUp, Sequential!vars, ToScan, OpenPaths
      <4> QED
        BY <4>1
    <3> QED
      BY <1>2, <3>1, <3>2, <3>3, <3>4, <3>5 DEF Sequential!Next
  <2>8. Disjoint(U, B, M) /\ P \subseteq Paths
    <3>1. CASE M = L /\ B = A /\ U \subseteq T /\ P \subseteq O
      BY <2>5, <3>1 DEF Disjoint
    <3>2. ASSUME NEW p \in T, NEW rest \in Sequential!RestOf(p),
                 NEW found \in SUBSET {Append(p, x) : x \in Names},
                 M = L, B = A, U = rest \cup found, P = O \cup {p}
          PROVE  Disjoint(U, B, M) /\ P \subseteq Paths
      <4>1. Disjoint(U, B, M)
        BY <2>5, <2>6, <3>2, ExpandDisjoint
      <4> QED
        BY <2>5, <3>2, <4>1 DEF Disjoint
    <3>3. ASSUME NEW p \in T, M = Append(L, p), U \in Sequential!RestOf(p), B = A, P = O
          PROVE  Disjoint(U, B, M) /\ P \subseteq Paths
      BY <2>5, <2>6, <3>3, RecordDisjoint
    <3>4. ASSUME M = L, P = O, A \subseteq B, U \subseteq T \cup B,
                 (U \ T) \cup (B \ A) \subseteq UNION {{Append(p, x) : x \in Names} : p \in O}
          PROVE  Disjoint(U, B, M) /\ P \subseteq Paths
      <4>1. UNION {{Append(p, x) : x \in Names} : p \in O} \subseteq Paths
        <5>1. \A p \in O : \A x \in Names : Append(p, x) \in Paths
          BY <2>5, AppendPath
        <5>2. \A p \in O : {Append(p, x) : x \in Names} \subseteq Paths
          BY <5>1
        <5> QED
          BY <5>2, Zenon
      <4>2. T \subseteq Paths /\ A \subseteq Paths
        BY <2>5 DEF Disjoint
      <4>3. U \in SUBSET Paths /\ B \in SUBSET Paths
        BY <3>4, <4>1, <4>2
      <4> QED
        BY <2>5, <3>4, <4>3, LessDisjoint
    <3> QED
      BY <2>7, <3>1, <3>2, <3>3, <3>4
  <2>9. Disjoint(ToScan', again', list') /\ OpenPaths' \subseteq Paths
    BY <2>1, <2>2, <2>3, <2>4, <2>8
  <2> QED
    BY <2>9 DEF Disjoint, FirmIn, Apart, Starts, Paths
<1>3. SeqInv => ListedOnce
  BY DEF Disjoint, ListedOnce, Firm, FirmIn
<1> HIDE DEF SeqInv
<1> QED
  BY <1>1, <1>2, <1>3, PTL DEF ImplementsSequential, Sequential!Spec
=============================================================================
