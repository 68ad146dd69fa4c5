--------------------------- MODULE DatabaseProofs ---------------------------
(***************************************************************************)
(* Proofs about the catalog and about the scans that feed the write        *)
(* statements, for any tables, statements and indexes.                     *)
(***************************************************************************)
EXTENDS Database, FiniteSetTheorems, NaturalsInduction, WellFoundedInduction, TLAPS

\* A set of naturals has a least element: the induction that the proofs use.
LEMMA LeastNatural ==
  ASSUME NEW S \in SUBSET Nat, S # {}
  PROVE  \E m \in S : \A x \in S : m <= x
<1> DEFINE R == OpToRel(<, Nat)
<1>1. IsWellFoundedOn(R, Nat)
  BY NatLessThanWellFounded
<1>2. \A x, y \in Nat : <<x, y>> \in R <=> x < y
  BY DEF OpToRel
<1> HIDE DEF R
<1>3. PICK m \in S : \A y \in S : ~(<<y, m>> \in R)
  BY <1>1, WFMin
<1>4. ASSUME NEW y \in S PROVE m <= y
  <2>1. ~(y < m)
    BY <1>2, <1>3
  <2> QED BY <2>1
<1> QED BY <1>4

-----------------------------------------------------------------------------
(* The catalog. *)

\* The two maps of a catalog describe the same indexes.
CatalogGood(oids, names) ==
  /\ \A t \in DOMAIN names :
       /\ DOMAIN names[t] # {}
       /\ \A name \in DOMAIN names[t] : /\ names[t][name] \in DOMAIN oids
                                        /\ oids[names[t][name]].table = t
                                        /\ oids[names[t][name]].name = name
  /\ \A o \in DOMAIN oids : /\ oids[o].table \in DOMAIN names
                            /\ oids[o].name \in DOMAIN names[oids[o].table]
                            /\ names[oids[o].table][oids[o].name] = o

\* Map f is a part of map g.
PartOf(f, g) == DOMAIN f \subseteq DOMAIN g /\ \A x \in DOMAIN f : f[x] = g[x]

\* DropIndex takes one index out of both maps.
LEMMA DropIndexGood ==
  ASSUME NEW cat, CatalogGood(cat.oids, cat.names), NEW t \in DOMAIN cat.names, NEW name \in DOMAIN cat.names[t]
  PROVE  LET c == DropIndex(cat, t, name)
         IN  /\ c = [oids |-> c.oids, names |-> c.names]
             /\ CatalogGood(c.oids, c.names) /\ PartOf(c.oids, cat.oids)
<1> DEFINE c == DropIndex(cat, t, name)
           oid == cat.names[t][name]
<1>a. PICK left, oids, names :
        /\ left = Without(cat.names[t], name) /\ oids = Without(cat.oids, oid)
        /\ names = IF DOMAIN left = {} THEN Without(cat.names, t) ELSE With(cat.names, t, left)
  OBVIOUS
<1>b. c = [oids |-> oids, names |-> names]
  BY <1>a, Zenon DEF DropIndex
<1> HIDE DEF c
<1>1. c = [oids |-> c.oids, names |-> c.names] /\ c.oids = oids /\ c.names = names
  BY <1>b
<1>2. oid \in DOMAIN cat.oids /\ cat.oids[oid].table = t /\ cat.oids[oid].name = name
  BY DEF CatalogGood
<1> HIDE DEF oid
<1>3. DOMAIN c.oids = DOMAIN cat.oids \ {oid} /\ \A o \in DOMAIN c.oids : c.oids[o] = cat.oids[o]
  <2>0. oids = Without(cat.oids, oid)
    BY <1>a
  <2>1. DOMAIN oids = DOMAIN cat.oids \ {oid} /\ \A o \in DOMAIN oids : oids[o] = cat.oids[o]
    BY <2>0 DEF Without
  <2> QED BY <1>1, <2>1
<1>4. DOMAIN left = DOMAIN cat.names[t] \ {name} /\ \A n \in DOMAIN left : left[n] = cat.names[t][n]
  <2>1. left = Without(cat.names[t], name)
    BY <1>a
  <2> QED BY <2>1 DEF Without
<1>5. /\ DOMAIN c.names = IF DOMAIN left = {} THEN DOMAIN cat.names \ {t} ELSE DOMAIN cat.names
      /\ \A u \in DOMAIN c.names : c.names[u] = IF u = t THEN left ELSE cat.names[u]
  <2>1. CASE DOMAIN left = {}
    <3>1. names = Without(cat.names, t)
      BY <1>a, <2>1
    <3>2. DOMAIN names = DOMAIN cat.names \ {t} /\ \A u \in DOMAIN names : names[u] = cat.names[u]
      BY <3>1 DEF Without
    <3> QED BY <1>1, <2>1, <3>2
  <2>2. CASE DOMAIN left # {}
    <3>1. names = With(cat.names, t, left)
      BY <1>a, <2>2
    <3>2. /\ DOMAIN names = DOMAIN cat.names \cup {t}
          /\ \A u \in DOMAIN names : names[u] = IF u = t THEN left ELSE cat.names[u]
      BY <3>1 DEF With
    <3> QED BY <1>1, <2>2, <3>2
  <2> QED BY <2>1, <2>2
<1>6. ASSUME NEW u \in DOMAIN c.names
      PROVE  /\ DOMAIN c.names[u] # {}
             /\ \A n \in DOMAIN c.names[u] : /\ c.names[u][n] \in DOMAIN c.oids
                                             /\ c.oids[c.names[u][n]].table = u
                                             /\ c.oids[c.names[u][n]].name = n
  <2>1. u \in DOMAIN cat.names /\ DOMAIN c.names[u] # {}
    BY <1>5, ZenonT(60) DEF CatalogGood
  <2>2. ASSUME NEW n \in DOMAIN c.names[u]
        PROVE  n \in DOMAIN cat.names[u] /\ c.names[u][n] = cat.names[u][n] /\ ~(u = t /\ n = name)
    BY <1>4, <1>5
  <2>3. ASSUME NEW n \in DOMAIN c.names[u] PROVE cat.names[u][n] # oid
    <3>1. cat.oids[cat.names[u][n]].table = u /\ cat.oids[cat.names[u][n]].name = n
      BY <2>1, <2>2 DEF CatalogGood
    <3> QED BY <1>2, <2>2, <3>1
  <2>4. ASSUME NEW n \in DOMAIN c.names[u]
        PROVE  /\ cat.names[u][n] \in DOMAIN cat.oids
               /\ cat.oids[cat.names[u][n]].table = u /\ cat.oids[cat.names[u][n]].name = n
    BY <2>1, <2>2 DEF CatalogGood
  <2> QED BY <1>3, <2>1, <2>2, <2>3, <2>4
<1>7. ASSUME NEW o \in DOMAIN c.oids
      PROVE  /\ c.oids[o].table \in DOMAIN c.names
             /\ c.oids[o].name \in DOMAIN c.names[c.oids[o].table]
             /\ c.names[c.oids[o].table][c.oids[o].name] = o
  <2> DEFINE u == cat.oids[o].table
             n == cat.oids[o].name
  <2>1. o \in DOMAIN cat.oids /\ o # oid /\ c.oids[o] = cat.oids[o]
    BY <1>3
  <2>2. u \in DOMAIN cat.names /\ n \in DOMAIN cat.names[u] /\ cat.names[u][n] = o
    BY <2>1 DEF CatalogGood
  <2>3. ~(u = t /\ n = name)
    BY <2>1, <2>2 DEF oid
  <2>4. u = t => n \in DOMAIN left /\ left[n] = o
    BY <1>4, <2>2, <2>3
  <2>5. u \in DOMAIN c.names /\ n \in DOMAIN c.names[u] /\ c.names[u][n] = o
    <3> HIDE DEF u, n
    <3>1. u = t => DOMAIN left # {}
      BY <2>4
    <3>2. u \in DOMAIN c.names
      BY <1>5, <2>2, <3>1
    <3>3. c.names[u] = IF u = t THEN left ELSE cat.names[u]
      BY <1>5, <3>2
    <3> QED BY <2>2, <2>4, <3>2, <3>3
  <2> QED BY <2>1, <2>5
<1>8. CatalogGood(c.oids, c.names)
  BY <1>6, <1>7 DEF CatalogGood
<1>9. PartOf(c.oids, cat.oids)
  BY <1>3 DEF PartOf
<1> QED BY <1>1, <1>8, <1>9 DEF c

\* What DROP INDEX has made of the catalog after some of its names.
DropGood(acc) ==
  /\ acc = [cat |-> [oids |-> acc.cat.oids, names |-> acc.cat.names], thrown |-> acc.thrown]
  /\ CatalogGood(acc.cat.oids, acc.cat.names) /\ PartOf(acc.cat.oids, indexes_)

LEMMA DropNameGood ==
  ASSUME NEW acc, DropGood(acc), NEW name, NEW missingOk
  PROVE  DropGood(DropName(acc, name, missingOk))
<1> DEFINE owners == {t \in DOMAIN acc.cat.names : name \in DOMAIN acc.cat.names[t]}
           t == CHOOSE x \in owners : TRUE
<1>1. PICK after : after = DropName(acc, name, missingOk)
  OBVIOUS
<1>2. PICK c : c = DropIndex(acc.cat, t, name)
  OBVIOUS
<1>3. \/ after = acc
      \/ \E b : after = [acc EXCEPT !.thrown = b]
      \/ owners # {} /\ after = [acc EXCEPT !.cat = c]
  <2>1. CASE acc.thrown
    BY <1>1, <2>1 DEF DropName
  <2>2. CASE ~acc.thrown /\ owners = {}
    BY <1>1, <2>2 DEF DropName
  <2>3. CASE ~acc.thrown /\ owners # {} /\ Cardinality(owners) > 1
    BY <1>1, <2>3 DEF DropName
  <2>4. CASE ~acc.thrown /\ owners # {} /\ ~(Cardinality(owners) > 1)
    BY <1>1, <1>2, <2>4 DEF DropName
  <2> QED BY <2>1, <2>2, <2>3, <2>4
<1> HIDE DEF t
<1>4. CASE after = acc
  BY <1>1, <1>4
<1>5. CASE \E b : after = [acc EXCEPT !.thrown = b]
  <2>1. PICK b : after = [acc EXCEPT !.thrown = b]
    BY <1>5
  <2>2. after = [cat |-> acc.cat, thrown |-> b]
    BY <2>1 DEF DropGood
  <2>3. after.cat = acc.cat /\ after.thrown = b
    BY <2>2
  <2> QED BY <1>1, <2>2, <2>3 DEF DropGood
<1>6. CASE owners # {} /\ after = [acc EXCEPT !.cat = c]
  <2>1. t \in owners
    BY <1>6 DEF t
  <2>2. t \in DOMAIN acc.cat.names /\ name \in DOMAIN acc.cat.names[t]
    BY <2>1
  <2> HIDE DEF owners
  <2>3. CatalogGood(acc.cat.oids, acc.cat.names)
    BY DEF DropGood
  <2>4. /\ c = [oids |-> c.oids, names |-> c.names]
        /\ CatalogGood(c.oids, c.names) /\ PartOf(c.oids, acc.cat.oids)
    BY <1>2, <2>2, <2>3, DropIndexGood
  <2>5. after = [cat |-> c, thrown |-> acc.thrown]
    BY <1>6 DEF DropGood
  <2>6. after.cat = c /\ after.thrown = acc.thrown
    BY <2>5
  <2>7. PartOf(c.oids, indexes_)
    BY <2>4 DEF PartOf, DropGood
  <2> QED BY <1>1, <2>4, <2>5, <2>6, <2>7 DEF DropGood
<1> QED BY <1>3, <1>4, <1>5, <1>6

\* DROP INDEX keeps the catalog in order, whatever its names and wherever it stops.
LEMMA DropNamesGood ==
  ASSUME NEW names, Len(names) \in Nat, NEW missingOk, CatalogGood(indexes_, index_names_)
  PROVE  DropGood(DropNames(names, missingOk))
<1> DEFINE N == Len(names)
           start == [cat |-> [oids |-> indexes_, names |-> index_names_], thrown |-> FALSE]
           after == CHOOSE g : g = [n \in 0 .. N |->
                                      IF n = 0 THEN start ELSE DropName(g[n - 1], names[n], missingOk)]
           IsRun(g, m) == g = [n \in 0 .. m |->
                                 IF n = 0 THEN start ELSE DropName(g[n - 1], names[n], missingOk)]
           short == {m \in 0 .. N : ~\E g : IsRun(g, m)}
           bad == {n \in 0 .. N : ~DropGood(after[n])}
<1>1. PICK s : s = start
  OBVIOUS
<1>2. DropGood(s)
  <2>1. s.cat = [oids |-> indexes_, names |-> index_names_] /\ s.thrown = FALSE
    BY <1>1
  <2>2. s.cat.oids = indexes_ /\ s.cat.names = index_names_
    BY <2>1
  <2>3. PartOf(indexes_, indexes_)
    BY DEF PartOf
  <2> QED BY <1>1, <2>1, <2>2, <2>3 DEF DropGood
<1>3. after = [n \in 0 .. N |-> IF n = 0 THEN s ELSE DropName(after[n - 1], names[n], missingOk)]
  <2>1. short = {}
    <3> SUFFICES ASSUME short # {} PROVE FALSE
      OBVIOUS
    <3>1. PICK m \in short : \A n \in short : m <= n
      <4>1. short \subseteq Nat
        OBVIOUS
      <4> HIDE DEF short
      <4> QED BY <4>1, LeastNatural
    <3>2. m \in 0 .. N /\ ~\E g : IsRun(g, m)
      OBVIOUS
    <3>3. m # 0
      <4>1. IsRun([n \in 0 .. 0 |-> start], 0)
        <5> HIDE DEF start
        <5> QED OBVIOUS
      <4> HIDE DEF IsRun
      <4> QED BY <3>2, <4>1
    <3>4. m - 1 \in 0 .. N /\ m - 1 \notin short /\ m \in 1 .. N
      <4> HIDE DEF short
      <4> QED BY <3>1, <3>2, <3>3
    <3>5. PICK g : IsRun(g, m - 1)
      BY <3>4
    <3> HIDE DEF start
    <3> DEFINE longer == [n \in 0 .. m |-> IF n = m THEN DropName(g[m - 1], names[m], missingOk) ELSE g[n]]
    <3>6. IsRun(longer, m)
      <4>1. \A n \in 0 .. m - 1 : g[n] = IF n = 0 THEN start ELSE DropName(g[n - 1], names[n], missingOk)
        BY <3>5
      <4>2. \A n \in 0 .. m - 1 : longer[n] = g[n]
        BY <3>4
      <4>3. ASSUME NEW n \in 0 .. m
            PROVE  longer[n] = IF n = 0 THEN start ELSE DropName(longer[n - 1], names[n], missingOk)
        <5>1. CASE n = m
          <6>1. longer[n] = DropName(g[m - 1], names[m], missingOk) /\ longer[n - 1] = g[m - 1] /\ n # 0
            BY <3>4, <4>2, <5>1
          <6> QED BY <5>1, <6>1
        <5>2. CASE n # m
          <6>1. n \in 0 .. m - 1 /\ (n # 0 => n - 1 \in 0 .. m - 1)
            BY <3>4, <5>2
          <6> HIDE DEF longer
          <6> QED BY <4>1, <4>2, <6>1
        <5> QED BY <5>1, <5>2
      <4>4. longer = [n \in 0 .. m |-> longer[n]]
        OBVIOUS
      <4> HIDE DEF longer
      <4> QED BY <4>3, <4>4
    <3> HIDE DEF IsRun
    <3> QED BY <3>2, <3>6
  <2>2. \E g : IsRun(g, N)
    <3>1. N \in 0 .. N
      OBVIOUS
    <3> HIDE DEF IsRun
    <3> QED BY <2>1, <3>1
  <2> HIDE DEF start
  <2> QED BY <1>1, <2>2
<1>4. DropNames(names, missingOk) = after[N]
  BY DEF DropNames
<1> HIDE DEF after
<1>5. after[0] = s /\ \A n \in 1 .. N : after[n] = DropName(after[n - 1], names[n], missingOk)
  BY <1>3
<1>6. bad = {}
  <2> SUFFICES ASSUME bad # {} PROVE FALSE
    OBVIOUS
  <2>1. PICK m \in bad : \A n \in bad : m <= n
    <3>1. bad \subseteq Nat
      OBVIOUS
    <3> HIDE DEF bad
    <3> QED BY <3>1, LeastNatural
  <2>2. m \in 0 .. N /\ ~DropGood(after[m])
    OBVIOUS
  <2>3. m # 0
    BY <1>2, <1>5, <2>2
  <2>4. m - 1 \in 0 .. N /\ m - 1 \notin bad /\ m \in 1 .. N
    <3> HIDE DEF bad
    <3> QED BY <2>1, <2>2, <2>3
  <2>5. DropGood(after[m - 1])
    BY <2>4
  <2>6. DropGood(DropName(after[m - 1], names[m], missingOk))
    BY <2>5, DropNameGood
  <2> QED BY <1>5, <2>2, <2>4, <2>6
<1>7. N \in 0 .. N
  OBVIOUS
<1> QED BY <1>4, <1>6, <1>7

\* CREATE INDEX adds one index to both maps.
LEMMA AddIndexGood ==
  ASSUME NEW oids, NEW names, CatalogGood(oids, names), NEW oid, oid \notin DOMAIN oids,
         NEW t, NEW name, ~(t \in DOMAIN names /\ name \in DOMAIN names[t]),
         NEW info, info.table = t, info.name = name,
         NEW old, old = IF t \in DOMAIN names THEN names[t] ELSE <<>>, NEW own, own = With(old, name, oid),
         NEW oids2, oids2 = With(oids, oid, info), NEW names2, names2 = With(names, t, own)
  PROVE  CatalogGood(oids2, names2)
<1>1. DOMAIN oids2 = DOMAIN oids \cup {oid} /\ oids2[oid] = info /\ \A o \in DOMAIN oids : oids2[o] = oids[o]
  BY DEF With
<1>2. /\ DOMAIN names2 = DOMAIN names \cup {t} /\ names2[t] = own
      /\ \A u \in DOMAIN names : u # t => names2[u] = names[u]
  BY DEF With
<1>3. /\ DOMAIN own = DOMAIN old \cup {name} /\ own[name] = oid
      /\ \A n \in DOMAIN old : n # name => own[n] = old[n]
  BY DEF With
<1>4. name \notin DOMAIN old
  OBVIOUS
<1>5. DOMAIN old # {} => t \in DOMAIN names /\ old = names[t]
  OBVIOUS
<1>6. ASSUME NEW u \in DOMAIN names2
      PROVE  /\ DOMAIN names2[u] # {}
             /\ \A n \in DOMAIN names2[u] : /\ names2[u][n] \in DOMAIN oids2
                                            /\ oids2[names2[u][n]].table = u
                                            /\ oids2[names2[u][n]].name = n
  <2>1. CASE u # t
    <3>1. u \in DOMAIN names /\ names2[u] = names[u]
      BY <1>2, <2>1
    <3>2. /\ DOMAIN names[u] # {}
          /\ \A n \in DOMAIN names[u] : /\ names[u][n] \in DOMAIN oids
                                        /\ oids[names[u][n]].table = u
                                        /\ oids[names[u][n]].name = n
      BY <3>1 DEF CatalogGood
    <3> QED BY <1>1, <3>1, <3>2
  <2>2. CASE u = t
    <3>1. DOMAIN own # {} /\ names2[u] = own
      BY <1>2, <1>3, <2>2
    <3>2. ASSUME NEW n \in DOMAIN own
          PROVE  own[n] \in DOMAIN oids2 /\ oids2[own[n]].table = t /\ oids2[own[n]].name = n
      <4>1. CASE n = name
        BY <1>1, <1>3, <4>1
      <4>2. CASE n # name
        <5>1. n \in DOMAIN old /\ own[n] = old[n]
          BY <1>3, <4>2
        <5>2. old[n] \in DOMAIN oids /\ oids[old[n]].table = t /\ oids[old[n]].name = n
          BY <1>5, <5>1 DEF CatalogGood
        <5> QED BY <1>1, <5>1, <5>2
      <4> QED BY <4>1, <4>2
    <3> QED BY <2>2, <3>1, <3>2
  <2> QED BY <2>1, <2>2
<1>7. ASSUME NEW o \in DOMAIN oids2
      PROVE  /\ oids2[o].table \in DOMAIN names2
             /\ oids2[o].name \in DOMAIN names2[oids2[o].table]
             /\ names2[oids2[o].table][oids2[o].name] = o
  <2>1. CASE o = oid
    BY <1>1, <1>2, <1>3, <2>1
  <2>2. CASE o # oid
    <3>1. PICK u, n : u = oids[o].table /\ n = oids[o].name
      OBVIOUS
    <3>2. o \in DOMAIN oids /\ oids2[o] = oids[o]
      BY <1>1, <2>2
    <3>3. u \in DOMAIN names /\ n \in DOMAIN names[u] /\ names[u][n] = o
      BY <3>1, <3>2 DEF CatalogGood
    <3>4. CASE u # t
      <4>1. u \in DOMAIN names2 /\ names2[u] = names[u]
        BY <1>2, <3>3, <3>4
      <4> QED BY <3>1, <3>2, <3>3, <4>1
    <3>5. CASE u = t
      <4>1. old = names[t] /\ n \in DOMAIN old /\ n # name
        BY <3>3, <3>5
      <4>2. n \in DOMAIN own /\ own[n] = o
        BY <1>3, <3>3, <3>5, <4>1
      <4>3. u \in DOMAIN names2 /\ names2[u] = own
        BY <1>2, <3>5
      <4> QED BY <3>1, <3>2, <4>2, <4>3
    <3> QED BY <3>4, <3>5
  <2> QED BY <2>1, <2>2
<1> QED BY <1>6, <1>7 DEF CatalogGood

-----------------------------------------------------------------------------
(* The slots that an index keeps for a key. *)

\* r lists the numbers of S up to n, each once and in order.
Lists(r, S, n) ==
  /\ r \in Seq(Nat)
  /\ \A i \in 1 .. Len(r) : r[i] \in S /\ r[i] \in 1 .. n
  /\ \A i, j \in 1 .. Len(r) : i < j => r[i] < r[j]
  /\ \A x \in S : x \in 1 .. n => \E i \in 1 .. Len(r) : r[i] = x

LEMMA ListsAppend ==
  ASSUME NEW S, NEW n \in Nat, n + 1 \in S, NEW r, Lists(r, S, n), NEW q, q = Append(r, n + 1)
  PROVE  Lists(q, S, n + 1)
<1>1. r \in Seq(Nat) /\ Len(r) \in Nat /\ \A i \in 1 .. Len(r) : r[i] \in 1 .. n
  BY DEF Lists
<1>3. q \in Seq(Nat) /\ Len(q) = Len(r) + 1 /\ q[Len(q)] = n + 1
  BY <1>1
<1>4. \A i \in 1 .. Len(r) : q[i] = r[i]
  BY <1>1
<1>5. \A i \in 1 .. Len(q) : i \in 1 .. Len(r) \/ i = Len(q)
  BY <1>1, <1>3
<1>6. \A i \in 1 .. Len(q) : q[i] \in S /\ q[i] \in 1 .. n + 1
  BY <1>1, <1>3, <1>4, <1>5 DEF Lists
<1>7. ASSUME NEW i \in 1 .. Len(q), NEW j \in 1 .. Len(q), i < j PROVE q[i] < q[j]
  <2>1. i \in 1 .. Len(r)
    BY <1>1, <1>3, <1>7
  <2>2. CASE j = Len(q)
    BY <1>1, <1>3, <1>4, <2>1, <2>2
  <2>3. CASE j # Len(q)
    BY <1>4, <1>5, <1>7, <2>1, <2>3 DEF Lists
  <2> QED BY <2>2, <2>3
<1>8. ASSUME NEW x \in S, x \in 1 .. n + 1 PROVE \E i \in 1 .. Len(q) : q[i] = x
  <2>1. CASE x = n + 1
    <3>1. Len(q) \in 1 .. Len(q)
      BY <1>1, <1>3
    <3> QED BY <1>3, <2>1, <3>1
  <2>2. CASE x # n + 1
    <3>1. x \in 1 .. n
      BY <1>8, <2>2
    <3>2. PICK i \in 1 .. Len(r) : r[i] = x
      BY <3>1 DEF Lists
    <3>3. i \in 1 .. Len(q)
      BY <1>1, <1>3
    <3> QED BY <1>4, <3>2, <3>3
  <2> QED BY <2>1, <2>2
<1> QED BY <1>3, <1>6, <1>7, <1>8 DEF Lists

LEMMA ListsSkip ==
  ASSUME NEW S, NEW n \in Nat, n + 1 \notin S, NEW r, Lists(r, S, n)
  PROVE  Lists(r, S, n + 1)
<1>1. \A i \in 1 .. Len(r) : r[i] \in 1 .. n + 1
  BY SMTT(30) DEF Lists
<1>2. \A x \in S : x \in 1 .. n + 1 => x \in 1 .. n
  OBVIOUS
<1> QED BY <1>1, <1>2 DEF Lists

LEMMA InOrderLists ==
  ASSUME NEW S, NEW N \in Nat
  PROVE  Lists(InOrder(S, N), S, N)
<1> DEFINE upTo == CHOOSE g : g = [k \in 0 .. N |->
                      IF k = 0 THEN <<>> ELSE IF k \in S THEN Append(g[k - 1], k) ELSE g[k - 1]]
           Next1(s, k) == IF k \in S THEN Append(s, k) ELSE s
           IsRun(g, m) == g = [k \in 0 .. m |->
                      IF k = 0 THEN <<>> ELSE IF k \in S THEN Append(g[k - 1], k) ELSE g[k - 1]]
           short == {m \in 0 .. N : ~\E g : IsRun(g, m)}
           bad == {k \in 0 .. N : ~Lists(upTo[k], S, k)}
<1>1. upTo = [k \in 0 .. N |-> IF k = 0 THEN <<>> ELSE IF k \in S THEN Append(upTo[k - 1], k) ELSE upTo[k - 1]]
  <2>1. short = {}
    <3> SUFFICES ASSUME short # {} PROVE FALSE
      OBVIOUS
    <3>1. PICK m \in short : \A n \in short : m <= n
      <4>1. short \subseteq Nat
        OBVIOUS
      <4> HIDE DEF short
      <4> QED BY <4>1, LeastNatural
    <3>2. m \in 0 .. N /\ ~\E g : IsRun(g, m)
      OBVIOUS
    <3>3. m # 0
      <4>1. IsRun([k \in 0 .. 0 |-> <<>>], 0)
        OBVIOUS
      <4> HIDE DEF IsRun
      <4> QED BY <3>2, <4>1
    <3>4. m - 1 \in 0 .. N /\ m - 1 \notin short /\ m \in 1 .. N
      <4> HIDE DEF short
      <4> QED BY <3>1, <3>2, <3>3
    <3>5. PICK g : IsRun(g, m - 1)
      BY <3>4
    <3> DEFINE longer == [k \in 0 .. m |-> IF k = m THEN Next1(g[m - 1], m) ELSE g[k]]
    <3>6. IsRun(longer, m)
      <4>1. \A k \in 0 .. m - 1 : g[k] = IF k = 0 THEN <<>> ELSE Next1(g[k - 1], k)
        BY <3>5
      <4>2. \A k \in 0 .. m - 1 : longer[k] = g[k]
        BY <3>4
      <4>3. ASSUME NEW k \in 0 .. m
            PROVE  longer[k] = IF k = 0 THEN <<>> ELSE Next1(longer[k - 1], k)
        <5>1. CASE k = m
          <6>1. longer[k] = Next1(g[m - 1], m) /\ longer[k - 1] = g[m - 1] /\ k # 0
            <7> HIDE DEF Next1
            <7> QED BY <3>4, <4>2, <5>1
          <6> HIDE DEF Next1, longer
          <6> QED BY <5>1, <6>1
        <5>2. CASE k # m
          <6>1. k \in 0 .. m - 1 /\ (k # 0 => k - 1 \in 0 .. m - 1)
            BY <3>4, <5>2
          <6> HIDE DEF longer, Next1
          <6> QED BY <4>1, <4>2, <6>1
        <5> QED BY <5>1, <5>2
      <4>4. longer = [k \in 0 .. m |-> longer[k]]
        OBVIOUS
      <4> HIDE DEF longer
      <4> QED BY <4>3, <4>4
    <3> HIDE DEF IsRun
    <3> QED BY <3>2, <3>6
  <2>2. \E g : IsRun(g, N)
    <3>1. N \in 0 .. N
      OBVIOUS
    <3> HIDE DEF IsRun
    <3> QED BY <2>1, <3>1
  <2> QED BY <2>2, ZenonT(30)
<1>2. InOrder(S, N) = upTo[N]
  BY DEF InOrder
<1> HIDE DEF upTo
<1>3. upTo[0] = <<>> /\ \A k \in 1 .. N : upTo[k] = Next1(upTo[k - 1], k)
  <2>1. ASSUME NEW k \in 0 .. N
        PROVE  upTo[k] = IF k = 0 THEN <<>> ELSE IF k \in S THEN Append(upTo[k - 1], k) ELSE upTo[k - 1]
    BY <1>1, Zenon
  <2> QED BY <2>1
<1>4. bad = {}
  <2> SUFFICES ASSUME bad # {} PROVE FALSE
    OBVIOUS
  <2>1. PICK m \in bad : \A n \in bad : m <= n
    <3>1. bad \subseteq Nat
      OBVIOUS
    <3> HIDE DEF bad
    <3> QED BY <3>1, LeastNatural
  <2>2. m \in 0 .. N /\ ~Lists(upTo[m], S, m)
    OBVIOUS
  <2>3. m # 0
    <3>1. Lists(<<>>, S, 0)
      BY DEF Lists
    <3> QED BY <1>3, <2>2, <3>1
  <2>4. m - 1 \in 0 .. N /\ m - 1 \notin bad /\ m \in 1 .. N
    <3> HIDE DEF bad
    <3> QED BY <2>1, <2>2, <2>3
  <2>5. Lists(upTo[m - 1], S, m - 1)
    BY <2>4
  <2>6. PICK n \in Nat : m = n + 1 /\ n = m - 1
    BY <2>4
  <2>7. upTo[m] = IF n + 1 \in S THEN Append(upTo[n], n + 1) ELSE upTo[n]
    BY <1>3, <2>4, <2>6
  <2>8. Lists(upTo[m], S, n + 1)
    <3>1. Lists(upTo[n], S, n)
      BY <2>5, <2>6
    <3>2. CASE n + 1 \in S
      <4>1. upTo[m] = Append(upTo[n], n + 1)
        BY <2>7, <3>2
      <4> QED BY <3>1, <3>2, <4>1, ListsAppend
    <3>3. CASE n + 1 \notin S
      <4>1. upTo[m] = upTo[n]
        BY <2>7, <3>3
      <4> QED BY <3>1, <3>3, <4>1, ListsSkip
    <3> QED BY <3>2, <3>3
  <2> QED BY <2>2, <2>6, <2>8
<1>5. N \in 0 .. N
  OBVIOUS
<1> QED BY <1>2, <1>4, <1>5

-----------------------------------------------------------------------------
(* The invariant. *)

\* Heaps hold whole rows and have room for what they hold.
HeapGood ==
  heap \in [Tables -> Seq(Rows)] /\ \A t \in Tables : Len(heap[t]) <= MaxSlots

\* r lists slots of a heap of n slots, each once and in order.
Ascending(r, n) ==
  /\ r \in Seq(Nat)
  /\ \A i \in 1 .. Len(r) : r[i] \in 1 .. n
  /\ \A i, j \in 1 .. Len(r) : i < j => r[i] < r[j]

\* Oids are those of indexes created so far; an index lists slots of its table.
IndexesGood ==
  /\ next_index_oid_ \in Nat /\ next_index_oid_ >= 1
  /\ DOMAIN indexes_ \subseteq 1 .. next_index_oid_ - 1 /\ fresh \subseteq DOMAIN indexes_
  /\ \A o \in DOMAIN indexes_ :
       /\ indexes_[o].table \in Tables
       /\ \A k \in DOMAIN indexes_[o].map : Ascending(indexes_[o].map[k], Len(heap[indexes_[o].table]))

\* The map of an index finds every row of heap h by its key, and only rows.
Finds(info, h) ==
  SupportsPointLookup(info.attrs) =>
    /\ \A i \in Live(h) : /\ h[i][info.attrs[1]] \in DOMAIN info.map
                          /\ \E j \in 1 .. Len(info.map[h[i][info.attrs[1]]]) :
                               info.map[h[i][info.attrs[1]]][j] = i
    /\ \A k \in DOMAIN info.map : \A j \in 1 .. Len(info.map[k]) : info.map[k][j] \in Live(h)

FreshGood == \A o \in fresh : Finds(indexes_[o], heap[indexes_[o].table])

\* The scan is past slot i.
Passed(scan, i) ==
  IF scan.type = "seq" THEN scan.at = End \/ i < scan.at
  ELSE \E j \in 1 .. Len(scan.rids) : j < scan.at /\ scan.rids[j] = i

\* The matching rows that a statement has dealt with.
Done(w, before, scan) == {i \in Matching(w, before) : Passed(scan, i)}

\* What becomes of a row that a DELETE or UPDATE deals with.
NewRow(w, row) == IF w.kind = "delete" THEN Deleted ELSE Serialize(UpdatedRow(w, row))

ScanGood(w, before, scan) ==
  /\ scan = [type |-> scan.type, table |-> w.source, pred |-> w.pred, at |-> scan.at, rids |-> scan.rids]
  /\ scan.type \in {"seq", "index"} /\ scan.at \in Nat
  /\ scan.type = "index" => scan.at >= 1
  /\ Ascending(scan.rids, Len(before[w.source]))

\* A DELETE or UPDATE has changed exactly the rows it has dealt with.
Changed(w, before, scan, count, h) ==
  /\ Len(h) = Len(before[w.table])
  /\ \A i \in 1 .. Len(h) : h[i] = IF i \in Done(w, before, scan) THEN NewRow(w, before[w.table][i])
                                   ELSE before[w.table][i]
  /\ count = Cardinality(Done(w, before, scan))
  /\ w.kind = "update" => \A i \in Done(w, before, scan) : Thrown \notin Range(UpdatedRow(w, before[w.table][i]))

\* h is the heap old and copies of the slots q of source, as far as there is room.
Copied(h, old, source, q) ==
  /\ \A k \in 1 .. Len(q) : Len(old) + k <= MaxSlots => h[Len(old) + k] = source[q[k]]
  /\ Len(h) = IF Len(old) + Len(q) <= MaxSlots THEN Len(old) + Len(q) ELSE MaxSlots

\* An INSERT has only added rows; unless it reads its own rows, copies of those it has dealt with.
Grown(w, before, scan, count, h) ==
  /\ Len(before[w.table]) <= Len(h) /\ count = Len(h) - Len(before[w.table])
  /\ \A i \in 1 .. Len(before[w.table]) : h[i] = before[w.table][i]
  /\ ~ReadsOwnRows(w, before) =>
       /\ w.source = w.table => h = before[w.table] \/ scan.type = "index" \/ scan.at = End
       /\ \E q : /\ Lists(q, Done(w, before, scan), Len(before[w.source]))
                 /\ Copied(h, before[w.table], before[w.source], q)

\* An index that is not stale has given the scan all matching rows, and rows only.
ExactGood(w, before, scan) ==
  scan.type = "index" =>
    /\ \A i \in Matching(w, before) : \E j \in 1 .. Len(scan.rids) : scan.rids[j] = i
    /\ \A j \in 1 .. Len(scan.rids) : scan.rids[j] \in Live(before[w.source])

\* An UPDATE stopped at the first row whose new values throw.
FailedAt(w, before, scan, exact) ==
  /\ w.kind = "update"
  /\ \E i \in Matching(w, before) :
       /\ Thrown \in Range(UpdatedRow(w, before[w.table][i]))
       /\ \A x \in Done(w, before, scan) : x < i
       /\ exact => \A x \in Matching(w, before) : x < i => x \in Done(w, before, scan)

\* How far a statement has come when the heaps are hp.
Progress(hp, phase, w, scan, count, before, exact) ==
  /\ phase \in {"run", "done", "failed", "died"}
  /\ w \in WriteStatements /\ before \in [Tables -> Seq(Rows)] /\ exact \in BOOLEAN
  /\ \A t \in Tables : Len(before[t]) <= MaxSlots
  /\ ScanGood(w, before, scan)
  /\ \A t \in Tables : t # w.table => hp[t] = before[t]
  /\ w.kind # "insert" => Changed(w, before, scan, count, hp[w.table])
  /\ w.kind = "insert" => Grown(w, before, scan, count, hp[w.table])
  /\ exact => ExactGood(w, before, scan)
  /\ phase = "done" => Hits(hp[w.source], scan) = {}
  /\ phase = "failed" => FailedAt(w, before, scan, exact)
  /\ phase = "died" => ~exact

StmtGood ==
  stmt # Idle =>
    /\ stmt = [phase |-> stmt.phase, write |-> stmt.write, plan |-> stmt.plan, scan |-> stmt.scan,
               count |-> stmt.count, before |-> stmt.before, exact |-> stmt.exact]
    /\ Progress(heap, stmt.phase, stmt.write, stmt.scan, stmt.count, stmt.before, stmt.exact)

DbInv ==
  /\ HeapGood /\ IndexesGood /\ FreshGood /\ StmtGood
  /\ CatalogGood(indexes_, index_names_)
  /\ statements \in 0 .. MaxStatements

-----------------------------------------------------------------------------
(* Reading. *)

LEMMA NextLiveIs ==
  ASSUME NEW h \in Seq(Rows), NEW i \in Nat, NEW n, n = NextLive(h, i)
  PROVE  /\ n \in Nat
         /\ n = End => \A j \in Live(h) : ~(j > i)
         /\ n # End => n \in Live(h) /\ n > i /\ \A j \in Live(h) : j > i => n <= j
<1> DEFINE later == {j \in Live(h) : j > i}
<1>1. \A j \in Live(h) : j \in Nat /\ j >= 1
  BY DEF Live
<1>2. n = IF later = {} THEN End ELSE Min(later)
  BY DEF NextLive
<1>3. CASE later = {}
  BY <1>2, <1>3 DEF End
<1>4. CASE later # {}
  <2>1. later \in SUBSET Nat
    BY <1>1
  <2>2. \A j : j \in later <=> j \in Live(h) /\ j > i
    OBVIOUS
  <2> HIDE DEF later
  <2>3. \E m \in later : \A x \in later : m <= x
    BY <1>4, <2>1, LeastNatural
  <2>4. Min(later) \in later /\ \A x \in later : Min(later) <= x
    BY <2>3 DEF Min
  <2>5. n = Min(later)
    BY <1>2, <1>4
  <2>6. n \in later /\ \A x \in later : n <= x
    BY <2>4, <2>5
  <2>7. n \in Nat /\ n # End
    BY <1>1, <2>2, <2>6 DEF End
  <2> QED BY <2>2, <2>6, <2>7
<1> QED BY <1>3, <1>4

\* What a statement has not passed is as it was.
Unread(h, b, scan) ==
  /\ \A x \in 1 .. Len(b) : ~Passed(scan, x) => x \in 1 .. Len(h) /\ h[x] = b[x]
  /\ scan.type = "seq" /\ scan.at # End => Len(h) = Len(b)

MovedTo(scan, at) == [scan EXCEPT !.at = at]

\* The next row of a sequential scan.
LEMMA SeqReadStep ==
  ASSUME NEW w, NEW before, NEW scan, ScanGood(w, before, scan), scan.type = "seq",
         NEW h \in Seq(Rows), NEW b \in Seq(Rows), b = before[w.source], Unread(h, b, scan),
         NEW i \in Hits(h, scan), \A x \in Hits(h, scan) : i <= x,
         NEW scan2, scan2 = MovedTo(scan, NextLive(h, i))
  PROVE  /\ i \in 1 .. Len(b) /\ h[i] = b[i] /\ h[i] # Deleted
         /\ i \in Matching(w, before) /\ i \notin Done(w, before, scan)
         /\ Done(w, before, scan2) = Done(w, before, scan) \cup {i}
         /\ \A x \in Done(w, before, scan) : x < i
         /\ \A x \in Matching(w, before) : x < i => x \in Done(w, before, scan)
         /\ ScanGood(w, before, scan2) /\ scan2.type = "seq" /\ scan2.at = NextLive(h, i)
<1>1. /\ scan = [type |-> "seq", table |-> w.source, pred |-> w.pred, at |-> scan.at, rids |-> scan.rids]
      /\ scan.at \in Nat
  BY DEF ScanGood
<1>2. PICK n : n = NextLive(h, i)
  OBVIOUS
<1>3. scan2 = [type |-> "seq", table |-> w.source, pred |-> w.pred, at |-> n, rids |-> scan.rids]
  BY <1>1, <1>2 DEF MovedTo
<1>4. scan2.type = "seq" /\ scan2.pred = w.pred /\ scan2.at = n /\ scan2.rids = scan.rids /\ scan2.table = w.source
  BY <1>3
<1>5. scan.pred = w.pred /\ scan.table = w.source
  BY <1>1
<1>6. \A x : x \in Hits(h, scan) <=> /\ scan.at # End /\ x \in Live(h) /\ x >= scan.at
                                     /\ Holds(w.pred, TupleAt(h, x))
  BY <1>5 DEF Hits, SeqHits
<1>7. i \in Live(h) /\ scan.at # End /\ i >= scan.at /\ Holds(w.pred, TupleAt(h, i))
  BY <1>6
<1>8. i \in 1 .. Len(h) /\ i \in Nat /\ h[i] # Deleted
  BY <1>7 DEF Live
<1>9. \A x : Passed(scan, x) <=> x < scan.at
  BY <1>7 DEF Passed
<1>10. Len(h) = Len(b) /\ i \in 1 .. Len(b) /\ ~Passed(scan, i) /\ h[i] = b[i]
  <2>1. ~(i < scan.at)
    BY <1>1, <1>7, <1>8
  <2>2. Len(h) = Len(b)
    BY <1>7 DEF Unread
  <2> QED BY <1>8, <1>9, <2>1, <2>2 DEF Unread
<1>11. \A x : x \in Matching(w, before) <=> x \in Live(b) /\ Holds(w.pred, TupleAt(b, x))
  BY DEF Matching
<1>12. i \in Matching(w, before)
  <2>1. i \in Live(b)
    BY <1>8, <1>10 DEF Live
  <2>2. TupleAt(b, i) = TupleAt(h, i)
    BY <1>10 DEF TupleAt
  <2> QED BY <1>7, <1>11, <2>1, <2>2
<1>13. \A x : x \in Done(w, before, scan) <=> x \in Matching(w, before) /\ x < scan.at
  BY <1>9 DEF Done
<1>14. \A x \in Matching(w, before) : x \in Nat /\ x \in 1 .. Len(b)
  BY <1>11 DEF Live
<1>15. ASSUME NEW x \in Matching(w, before), ~(x < scan.at)
       PROVE  x \in Live(h) /\ x >= scan.at /\ Holds(w.pred, TupleAt(h, x))
  <2>1. x \in 1 .. Len(h) /\ h[x] = b[x]
    BY <1>9, <1>14, <1>15 DEF Unread
  <2>2. x \in Live(b) /\ Holds(w.pred, TupleAt(b, x))
    BY <1>11
  <2>3. x \in Live(h)
    BY <2>1, <2>2 DEF Live
  <2>4. TupleAt(b, x) = TupleAt(h, x)
    BY <2>1 DEF TupleAt
  <2> QED BY <1>1, <1>14, <1>15, <2>2, <2>3, <2>4
<1>16. ASSUME NEW x \in Matching(w, before), x < i PROVE x < scan.at
  BY <1>1, <1>6, <1>7, <1>8, <1>14, <1>15, <1>16
<1>17. /\ n \in Nat
       /\ n = End => \A j \in Live(h) : ~(j > i)
       /\ n # End => n > i /\ \A j \in Live(h) : j > i => n <= j
  BY <1>2, <1>8, NextLiveIs
<1>18. ASSUME NEW x \in Matching(w, before)
       PROVE  Passed(scan2, x) <=> x < scan.at \/ x = i
  <2>1. Passed(scan2, x) <=> n = End \/ x < n
    BY <1>4 DEF Passed
  <2>2. x \in Nat
    BY <1>14
  <2>3. CASE x <= i
    <3>1. n = End \/ x < n
      BY <1>8, <1>17, <2>2, <2>3
    <3>2. x = i \/ x < i
      BY <1>8, <2>2, <2>3
    <3> QED BY <1>16, <2>1, <3>1, <3>2
  <2>4. CASE x > i
    <3>1. ~(x < scan.at)
      BY <1>1, <1>7, <1>8, <2>2, <2>4
    <3>2. x \in Live(h)
      BY <1>15, <3>1
    <3>3. x # i /\ n # End
      BY <1>8, <1>17, <2>2, <2>4, <3>2
    <3>4. n <= x
      BY <1>17, <2>4, <3>2, <3>3
    <3>5. ~(x < n)
      BY <1>17, <2>2, <3>4
    <3> QED BY <2>1, <3>1, <3>3, <3>5
  <2> QED BY <1>8, <2>2, <2>3, <2>4
<1>19. Done(w, before, scan2) = Done(w, before, scan) \cup {i}
  BY <1>12, <1>13, <1>18 DEF Done
<1>20. \A x \in Done(w, before, scan) : x < i
  <2>1. ASSUME NEW x \in Matching(w, before), x < scan.at PROVE x < i
    BY <1>1, <1>7, <1>8, <1>14, <2>1
  <2> QED BY <1>13, <2>1
<1>21. ScanGood(w, before, scan2)
  BY <1>3, <1>4, <1>17 DEF ScanGood
<1>22. i \notin Done(w, before, scan)
  BY <1>8, <1>20
<1> QED BY <1>2, <1>4, <1>8, <1>10, <1>12, <1>13, <1>16, <1>19, <1>20, <1>21, <1>22

\* The next row of an index scan.
LEMMA IndexReadStep ==
  ASSUME NEW w, NEW before, NEW scan, ScanGood(w, before, scan), scan.type = "index",
         NEW h \in Seq(Rows), NEW b \in Seq(Rows), b = before[w.source], Unread(h, b, scan),
         NEW hit \in Hits(h, scan), \A x \in Hits(h, scan) : hit <= x,
         NEW i, i = SlotOf(scan, hit), NEW scan2, scan2 = MovedTo(scan, hit + 1)
  PROVE  /\ i \in 1 .. Len(b) /\ h[i] = b[i]
         /\ h[i] # Deleted => /\ i \in Matching(w, before) /\ i \notin Done(w, before, scan)
                              /\ Done(w, before, scan2) = Done(w, before, scan) \cup {i}
         /\ \A x \in Done(w, before, scan) : x < i
         /\ ExactGood(w, before, scan) => \A x \in Matching(w, before) : x < i => x \in Done(w, before, scan)
         /\ ScanGood(w, before, scan2) /\ scan2.type = "index" /\ scan2.rids = scan.rids
<1> DEFINE rids == scan.rids
<1>0. i = scan.rids[hit]
  BY DEF SlotOf
<1>1. /\ scan = [type |-> "index", table |-> w.source, pred |-> w.pred, at |-> scan.at, rids |-> rids]
      /\ scan.at \in Nat /\ scan.at >= 1
  BY DEF ScanGood
<1>2. scan2 = [type |-> "index", table |-> w.source, pred |-> w.pred, at |-> hit + 1, rids |-> rids]
  BY <1>1 DEF MovedTo
<1>3. /\ scan2.type = "index" /\ scan2.pred = w.pred /\ scan2.at = hit + 1
      /\ scan2.rids = rids /\ scan2.table = w.source
  BY <1>2
<1>4. scan.pred = w.pred
  BY <1>1
<1>5. /\ rids \in Seq(Nat) /\ Len(rids) \in Nat /\ DOMAIN rids = 1 .. Len(rids)
      /\ \A j \in 1 .. Len(rids) : rids[j] \in 1 .. Len(b)
      /\ \A j, k \in 1 .. Len(rids) : j < k => rids[j] < rids[k]
  BY DEF ScanGood, Ascending
<1> HIDE DEF rids
<1>6. \A j : j \in Hits(h, scan) <=> /\ j \in 1 .. Len(rids) /\ j >= scan.at
                                     /\ h[rids[j]] = Deleted \/ Holds(w.pred, TupleAt(h, rids[j]))
  BY <1>4, <1>5 DEF Hits, IndexHits, rids
<1>7. /\ hit \in 1 .. Len(rids) /\ hit \in Nat /\ hit >= scan.at
      /\ h[i] = Deleted \/ Holds(w.pred, TupleAt(h, i))
  BY <1>0, <1>5, <1>6 DEF rids
<1>8. i \in 1 .. Len(b) /\ i = rids[hit]
  BY <1>0, <1>5, <1>7 DEF rids
<1>9. \A x : Passed(scan, x) <=> \E j \in 1 .. Len(rids) : j < scan.at /\ rids[j] = x
  BY DEF Passed, rids
<1>10. ASSUME NEW j \in 1 .. Len(rids), j >= scan.at
       PROVE  ~Passed(scan, rids[j]) /\ h[rids[j]] = b[rids[j]]
  <2>1. ASSUME NEW k \in 1 .. Len(rids), k < scan.at, rids[k] = rids[j] PROVE FALSE
    <3>1. k < j
      BY <1>1, <1>5, <1>10, <2>1
    <3>2. rids[k] < rids[j] /\ rids[j] \in Nat
      BY <1>5, <3>1
    <3> QED BY <2>1, <3>2
  <2>2. ~Passed(scan, rids[j])
    BY <1>9, <2>1
  <2> QED BY <1>5, <2>2 DEF Unread
<1>11. h[i] = b[i] /\ ~Passed(scan, i)
  BY <1>7, <1>8, <1>10
<1>12. \A x : x \in Matching(w, before) <=> x \in Live(b) /\ Holds(w.pred, TupleAt(b, x))
  BY DEF Matching
<1>13. h[i] # Deleted => i \in Matching(w, before)
  <2> SUFFICES ASSUME h[i] # Deleted PROVE i \in Matching(w, before)
    OBVIOUS
  <2>1. i \in Live(b)
    BY <1>8, <1>11 DEF Live
  <2>2. TupleAt(b, i) = TupleAt(h, i)
    BY <1>11 DEF TupleAt
  <2> QED BY <1>7, <1>12, <2>1, <2>2
<1>14. \A x : x \in Done(w, before, scan) <=> x \in Matching(w, before) /\ Passed(scan, x)
  BY DEF Done
\* A matching row between the scan and the hit would have been the hit.
<1>15. ASSUME NEW j \in 1 .. Len(rids), rids[j] \in Matching(w, before), j < hit PROVE j < scan.at
  <2> SUFFICES ASSUME j >= scan.at PROVE FALSE
    BY <1>1, <1>5
  <2>1. h[rids[j]] = b[rids[j]]
    BY <1>10
  <2>2. TupleAt(b, rids[j]) = TupleAt(h, rids[j])
    BY <2>1 DEF TupleAt
  <2>3. j \in Hits(h, scan)
    BY <1>6, <1>12, <1>15, <2>2
  <2> QED BY <1>5, <1>7, <1>15, <2>3
<1>16. ASSUME NEW x \in Matching(w, before) PROVE Passed(scan2, x) <=> Passed(scan, x) \/ x = i
  <2>1. Passed(scan2, x) <=> \E j \in 1 .. Len(rids) : j < hit + 1 /\ rids[j] = x
    BY <1>3 DEF Passed
  <2>2. ASSUME NEW j \in 1 .. Len(rids), j < hit + 1, rids[j] = x PROVE Passed(scan, x) \/ x = i
    <3>1. CASE j = hit
      BY <1>8, <2>2, <3>1
    <3>2. CASE j # hit
      <4>1. j < hit
        BY <1>5, <1>7, <2>2, <3>2
      <4>2. j < scan.at
        BY <1>15, <2>2, <4>1
      <4> QED BY <1>9, <2>2, <4>2
    <3> QED BY <3>1, <3>2
  <2>3. ASSUME Passed(scan, x) PROVE \E j \in 1 .. Len(rids) : j < hit + 1 /\ rids[j] = x
    <3>1. PICK j \in 1 .. Len(rids) : j < scan.at /\ rids[j] = x
      BY <1>9, <2>3
    <3>2. j < hit + 1
      BY <1>1, <1>5, <1>7, <3>1
    <3> QED BY <3>1, <3>2
  <2>4. ASSUME x = i PROVE \E j \in 1 .. Len(rids) : j < hit + 1 /\ rids[j] = x
    <3>1. hit < hit + 1
      BY <1>7
    <3> QED BY <1>7, <1>8, <2>4, <3>1
  <2> QED BY <2>1, <2>2, <2>3, <2>4
<1>17. h[i] # Deleted => Done(w, before, scan2) = Done(w, before, scan) \cup {i}
  BY <1>13, <1>14, <1>16 DEF Done
<1>18. ASSUME NEW x \in Done(w, before, scan) PROVE x < i
  <2>1. PICK j \in 1 .. Len(rids) : j < scan.at /\ rids[j] = x
    BY <1>9, <1>14
  <2>2. j < hit
    BY <1>1, <1>5, <1>7, <2>1
  <2> QED BY <1>5, <1>7, <1>8, <2>1, <2>2
<1>19. ASSUME ExactGood(w, before, scan), NEW x \in Matching(w, before), x < i PROVE x \in Done(w, before, scan)
  <2>1. PICK j \in 1 .. Len(rids) : rids[j] = x
    BY <1>19 DEF ExactGood, rids
  <2>2. j < hit
    <3> SUFFICES ASSUME ~(j < hit) PROVE FALSE
      OBVIOUS
    <3>1. j = hit \/ hit < j
      BY <1>5, <1>7
    <3>2. rids[hit] <= rids[j]
      BY <1>5, <1>7, <3>1
    <3>3. rids[hit] \in Nat /\ rids[j] \in Nat
      BY <1>5, <1>7
    <3> QED BY <1>8, <1>19, <2>1, <3>2, <3>3
  <2>3. j < scan.at
    BY <1>15, <2>1, <2>2
  <2> QED BY <1>9, <1>14, <2>1, <2>3
<1>20. ScanGood(w, before, scan2)
  <2>1. hit + 1 \in Nat /\ hit + 1 >= 1
    BY <1>7
  <2> QED BY <1>2, <1>3, <2>1 DEF ScanGood, rids
<1> QED BY <1>3, <1>8, <1>11, <1>13, <1>14, <1>17, <1>18, <1>19, <1>20 DEF rids

\* A scan without hits has passed every matching row that it can see.
LEMMA NoHits ==
  ASSUME NEW w, NEW before, NEW scan, ScanGood(w, before, scan), ExactGood(w, before, scan),
         NEW h \in Seq(Rows), NEW b \in Seq(Rows), b = before[w.source], Unread(h, b, scan),
         Hits(h, scan) = {}
  PROVE  Done(w, before, scan) = Matching(w, before)
<1>1. scan.pred = w.pred /\ scan.type \in {"seq", "index"} /\ scan.at \in Nat
  BY DEF ScanGood
<1>2. \A x : x \in Matching(w, before) <=> x \in Live(b) /\ Holds(w.pred, TupleAt(b, x))
  BY DEF Matching
<1>3. SUFFICES ASSUME NEW x \in Matching(w, before), ~Passed(scan, x) PROVE FALSE
  BY DEF Done
<1>4. x \in Live(b) /\ x \in 1 .. Len(b) /\ b[x] # Deleted /\ x \in Nat
  BY <1>2 DEF Live
<1>5. x \in 1 .. Len(h) /\ h[x] = b[x]
  BY <1>3, <1>4 DEF Unread
<1>6. Holds(w.pred, TupleAt(h, x)) /\ x \in Live(h)
  <2>1. TupleAt(b, x) = TupleAt(h, x)
    BY <1>5 DEF TupleAt
  <2>2. x \in Live(h)
    BY <1>4, <1>5 DEF Live
  <2> QED BY <1>2, <2>1, <2>2
<1>7. CASE scan.type = "seq"
  <2>1. scan.at # End /\ x >= scan.at
    BY <1>1, <1>3, <1>4, <1>7 DEF Passed
  <2>2. x \in Hits(h, scan)
    BY <1>1, <1>6, <1>7, <2>1 DEF Hits, SeqHits
  <2> QED BY <2>2
<1>8. CASE scan.type = "index"
  <2>1. PICK j \in 1 .. Len(scan.rids) : scan.rids[j] = x
    BY <1>8 DEF ExactGood
  <2>2. /\ scan.rids \in Seq(Nat) /\ DOMAIN scan.rids = 1 .. Len(scan.rids) /\ Len(scan.rids) \in Nat
    BY DEF ScanGood, Ascending
  <2>3. ~(j < scan.at)
    BY <1>3, <1>8, <2>1 DEF Passed
  <2>4. j >= scan.at
    BY <1>1, <2>2, <2>3
  <2>5. j \in Hits(h, scan)
    BY <1>1, <1>6, <1>8, <2>1, <2>2, <2>4 DEF Hits, IndexHits
  <2> QED BY <2>5
<1> QED BY <1>1, <1>7, <1>8

\* Next stands on the first hit.
FirstHit(h, scan, next, hit) ==
  /\ next.slot \in 1 .. Len(h)
  /\ next.died <=> h[next.slot] = Deleted
  /\ \A x \in Hits(h, scan) : hit <= x
  /\ scan.type = "seq" => /\ next.slot = hit /\ ~next.died
                          /\ next.scan = MovedTo(scan, NextLive(h, hit))
  /\ scan.type = "index" => /\ hit \in 1 .. Len(scan.rids) /\ next.slot = scan.rids[hit]
                            /\ next.scan = MovedTo(scan, hit + 1)

LEMMA NextRowIs ==
  ASSUME NEW w, NEW before, NEW scan, ScanGood(w, before, scan),
         NEW h \in Seq(Rows), Len(before[w.source]) \in Nat, Len(before[w.source]) <= Len(h),
         NEW next, next = NextRow(h, scan)
  PROVE  /\ next.slot = End => Hits(h, scan) = {} /\ ~next.died
         /\ next.slot # End => \E hit \in Hits(h, scan) : FirstHit(h, scan, next, hit)
<1> DEFINE H == Hits(h, scan)
<1>1. /\ scan.type \in {"seq", "index"} /\ scan.rids \in Seq(Nat)
      /\ \A j \in 1 .. Len(scan.rids) : scan.rids[j] \in 1 .. Len(before[w.source])
  BY DEF ScanGood, Ascending
<1>2. H \in SUBSET Nat
  <2>1. SeqHits(h, scan) \subseteq Nat
    BY DEF SeqHits, Live
  <2>2. IndexHits(h, scan) \subseteq Nat
    BY <1>1 DEF IndexHits
  <2> QED BY <2>1, <2>2 DEF Hits
<1>3. CASE H = {}
  <2>1. next = [slot |-> End, died |-> FALSE, scan |-> scan]
    BY <1>3 DEF NextRow
  <2> QED BY <1>3, <2>1
<1>4. CASE H # {}
  <2> HIDE DEF H
  <2>1. \E m \in H : \A x \in H : m <= x
    BY <1>2, <1>4, LeastNatural
  <2>2. PICK hit : hit = Min(H)
    OBVIOUS
  <2>3. hit \in H /\ \A x \in H : hit <= x
    BY <2>1, <2>2 DEF Min
  <2>4. next = RowOf(h, scan, hit)
    BY <1>4, <2>2 DEF NextRow, H
  <2>5. PICK slot, scan2, died : /\ slot = SlotOf(scan, hit)
                                 /\ died = (h[SlotOf(scan, hit)] = Deleted)
                                 /\ scan2 = [scan EXCEPT !.at = IF scan.type = "seq" THEN NextLive(h, hit) ELSE hit + 1]
    OBVIOUS
  <2>6. next = [slot |-> slot, died |-> died, scan |-> scan2]
    BY <2>4, <2>5, Zenon DEF RowOf
  <2>7. next.slot = slot /\ next.died = died /\ next.scan = scan2
    BY <2>6
  <2>8. died <=> h[slot] = Deleted
    BY <2>5
  <2>9. died \in BOOLEAN
    BY <2>5
  <2>10. CASE scan.type = "seq"
    <3>1. hit \in Live(h)
      BY <2>3, <2>10 DEF H, Hits, SeqHits
    <3>2. hit \in 1 .. Len(h) /\ h[hit] # Deleted /\ hit # End
      BY <3>1 DEF Live, End
    <3>3. slot = hit
      BY <2>5, <2>10 DEF SlotOf
    <3>4. scan2 = MovedTo(scan, NextLive(h, hit))
      BY <2>5, <2>10 DEF MovedTo
    <3>5. ~died
      BY <2>8, <3>2, <3>3
    <3> QED BY <2>3, <2>7, <2>8, <2>9, <2>10, <3>2, <3>3, <3>4, <3>5 DEF H, FirstHit
  <2>11. CASE scan.type = "index"
    <3>1. hit \in DOMAIN scan.rids
      BY <2>3, <2>11 DEF H, Hits, IndexHits
    <3>2. hit \in 1 .. Len(scan.rids)
      BY <1>1, <3>1
    <3>3. slot = scan.rids[hit]
      BY <2>5, <2>11 DEF SlotOf
    <3>4. slot \in 1 .. Len(h) /\ slot # End
      BY <1>1, <3>2, <3>3 DEF End
    <3>5. scan2 = MovedTo(scan, hit + 1)
      BY <2>5, <2>11 DEF MovedTo
    <3> QED BY <2>3, <2>7, <2>8, <2>9, <2>11, <3>2, <3>3, <3>4, <3>5 DEF H, FirstHit
  <2> QED BY <1>1, <2>10, <2>11
<1> QED BY <1>3, <1>4

-----------------------------------------------------------------------------
(* Writing. *)

LEMMA QuotientIsInt ==
  ASSUME NEW a \in Int, NEW b \in Int, b # 0
  PROVE  Quotient(a, b) \in Int
<1>1. Abs(a) \in Int /\ Abs(b) \in Int /\ Abs(b) > 0
  BY DEF Abs
<1>2. Abs(a) \div Abs(b) \in Int
  BY <1>1
<1> QED BY <1>2 DEF Quotient

LEMMA ArithmeticIsInt ==
  ASSUME NEW op \in {"+", "-", "*", "/", "%"}, NEW a, NEW b, a.n \in Int, b.n \in Int
  PROVE  Arithmetic(op, a, b).n \in Int
<1> DEFINE q == Quotient(a.n, b.n)
<1>1. b.n # 0 => q \in Int
  BY QuotientIsInt
<1> HIDE DEF q
<1>2. CASE op = "+"
  BY <1>2 DEF Arithmetic, Add, Val
<1>3. CASE op = "-"
  BY <1>3 DEF Arithmetic, Val
<1>4. CASE op = "*"
  BY <1>4 DEF Arithmetic, Val
<1>5. CASE op = "/"
  <2>1. Arithmetic(op, a, b) = IF b.n = 0 THEN Thrown ELSE Val(a.type, q)
    BY <1>5 DEF Arithmetic, q
  <2> QED BY <1>1, <2>1 DEF Val, Thrown, NullVal
<1>6. CASE op = "%"
  <2>1. Arithmetic(op, a, b) = IF b.n = 0 THEN Thrown ELSE Val(a.type, a.n - b.n * q)
    BY <1>6 DEF Arithmetic, q
  <2>2. b.n # 0 => a.n - b.n * q \in Int
    BY <1>1
  <2> QED BY <2>1, <2>2 DEF Val, Thrown, NullVal
<1> QED BY <1>2, <1>3, <1>4, <1>5, <1>6

\* The expressions of an UPDATE have numbers as values, so it stores whole rows.
LEMMA NewRowType ==
  ASSUME NEW w \in WriteStatements, NEW row \in [DOMAIN TableSchema -> Int]
  PROVE  Serialize(UpdatedRow(w, row)) \in Rows
<1> DEFINE tuple == Values(TableSchema, row)
           exprs == UpdateExpressions(w.set)
           values == UpdatedRow(w, row)
<1>1. \A c \in DOMAIN TableSchema : tuple[c].n \in Int
  BY DEF Values, GetValue, Val
<1> HIDE DEF tuple
<1>2. ASSUME NEW e, BoundLeaf(e) PROVE EvaluateLeaf(e, tuple, tuple).n \in Int
  <2>1. CASE e.kind = "constant" /\ e.val.n \in Int
    BY <2>1 DEF EvaluateLeaf
  <2>2. CASE e.kind = "column" /\ e.col \in DOMAIN TableSchema
    <3>1. EvaluateLeaf(e, tuple, tuple) = tuple[e.col]
      BY <2>2 DEF EvaluateLeaf
    <3> QED BY <1>1, <2>2, <3>1
  <2> QED BY <1>2, <2>1, <2>2 DEF BoundLeaf
<1>3. ASSUME NEW e, Bound(e) PROVE Evaluate(e, tuple).n \in Int
  <2>1. CASE BoundLeaf(e)
    <3>1. e.kind # "arithmetic"
      BY <2>1 DEF BoundLeaf
    <3>2. Evaluate(e, tuple) = EvaluateLeaf(e, tuple, tuple)
      BY <3>1 DEF Evaluate, EvaluateJoin
    <3> QED BY <1>2, <2>1, <3>2
  <2>2. CASE /\ e.kind = "arithmetic" /\ e.op \in {"+", "-", "*", "/", "%"}
             /\ BoundLeaf(e.left) /\ BoundLeaf(e.right)
    <3>1. PICK l, r : l = EvaluateLeaf(e.left, tuple, tuple) /\ r = EvaluateLeaf(e.right, tuple, tuple)
      OBVIOUS
    <3>2. Evaluate(e, tuple) = Arithmetic(e.op, l, r)
      BY <2>2, <3>1 DEF Evaluate, EvaluateJoin
    <3>3. l.n \in Int /\ r.n \in Int
      BY <1>2, <2>2, <3>1
    <3>4. Arithmetic(e.op, l, r).n \in Int
      BY <2>2, <3>3, ArithmeticIsInt
    <3> QED BY <3>2, <3>4
  <2> QED BY <1>3, <2>1, <2>2 DEF Bound
<1>4. ASSUME NEW c \in DOMAIN TableSchema PROVE Bound(exprs[c])
  <2>1. exprs[c] = IF c \in DOMAIN w.set THEN w.set[c] ELSE ColumnValue(0, c)
    BY DEF UpdateExpressions
  <2>2. Bound(ColumnValue(0, c))
    BY DEF Bound, BoundLeaf, ColumnValue
  <2>3. BoundWrite(w)
    BY DatabaseAssumption
  <2>4. c \in DOMAIN w.set => Bound(w.set[c])
    BY <2>3 DEF BoundWrite
  <2> QED BY <2>1, <2>2, <2>4
<1>5. DOMAIN exprs = DOMAIN TableSchema
  BY DEF UpdateExpressions
<1>6. values = [c \in DOMAIN exprs |-> Evaluate(exprs[c], tuple)]
  BY DEF UpdatedRow, UpdatedValues, tuple
<1> HIDE DEF exprs, values
<1>7. DOMAIN values = DOMAIN TableSchema /\ \A c \in DOMAIN TableSchema : values[c].n \in Int
  <2>1. DOMAIN values = DOMAIN TableSchema
    BY <1>5, <1>6
  <2>2. ASSUME NEW c \in DOMAIN TableSchema PROVE values[c].n \in Int
    <3>1. values[c] = Evaluate(exprs[c], tuple)
      BY <1>5, <1>6
    <3>2. Evaluate(exprs[c], tuple).n \in Int
      BY <1>3, <1>4
    <3> QED BY <3>1, <3>2
  <2> QED BY <2>1, <2>2
<1>8. Serialize(values) \in [DOMAIN TableSchema -> Int]
  BY <1>7 DEF Serialize
<1> QED BY <1>8 DEF Rows, values

\* Everything a write statement has still to read is as it was at its start,
\* unless it is an INSERT that reads its own rows.
LEMMA StillUnread ==
  ASSUME NEW hp \in [Tables -> Seq(Rows)], NEW phase, NEW w, NEW scan, NEW count, NEW before, NEW exact,
         Progress(hp, phase, w, scan, count, before, exact), ~ReadsOwnRows(w, before)
  PROVE  Unread(hp[w.source], before[w.source], scan)
<1> DEFINE h == hp[w.source]
           b == before[w.source]
<1>2. h \in Seq(Rows) /\ b \in Seq(Rows)
  BY DatabaseAssumption DEF Progress, BoundWrite
<1>3. CASE w.kind # "insert"
  <2>1. w.source = w.table
    BY <1>3, DatabaseAssumption DEF Progress, BoundWrite
  <2>2. /\ Len(h) = Len(b)
        /\ \A i \in 1 .. Len(h) : h[i] = IF i \in Done(w, before, scan) THEN NewRow(w, b[i]) ELSE b[i]
    BY <1>3, <2>1 DEF Progress, Changed
  <2>3. \A x : ~Passed(scan, x) => x \notin Done(w, before, scan)
    BY DEF Done
  <2> HIDE DEF h, b
  <2>4. Unread(h, b, scan)
    BY <2>2, <2>3 DEF Unread
  <2> QED BY <2>4 DEF h, b
<1>4. CASE w.kind = "insert" /\ w.source # w.table
  <2>1. w.source \in Tables
    BY DatabaseAssumption DEF Progress, BoundWrite
  <2>2. h = b
    BY <1>4, <2>1 DEF Progress
  <2> HIDE DEF h, b
  <2>3. Unread(h, b, scan)
    BY <2>2 DEF Unread
  <2> QED BY <2>3 DEF h, b
<1>5. CASE w.kind = "insert" /\ w.source = w.table
  <2>1. /\ Len(b) <= Len(h) /\ \A i \in 1 .. Len(b) : h[i] = b[i]
        /\ h = b \/ scan.type = "index" \/ scan.at = End
    BY <1>5 DEF Progress, Grown
  <2> HIDE DEF h, b
  <2>2. Unread(h, b, scan)
    BY <1>2, <2>1 DEF Unread
  <2> QED BY <2>2 DEF h, b
<1> QED BY <1>3, <1>4, <1>5

\* The matching rows are finitely many.
LEMMA MatchingFinite ==
  ASSUME NEW w, NEW before, before[w.source] \in Seq(Rows)
  PROVE  /\ IsFiniteSet(Matching(w, before)) /\ Matching(w, before) \subseteq 1 .. Len(before[w.source])
         /\ \A i \in Matching(w, before) : before[w.source][i] \in [DOMAIN TableSchema -> Int]
<1> DEFINE n == Len(before[w.source])
<1>1. n \in Nat /\ Matching(w, before) \subseteq 1 .. n
  BY DEF Matching, Live
<1>2. IsFiniteSet(1 .. n)
  BY <1>1, FS_Interval
<1>3. IsFiniteSet(Matching(w, before))
  BY <1>1, <1>2, FS_Subset
<1>4. ASSUME NEW i \in Matching(w, before) PROVE before[w.source][i] \in [DOMAIN TableSchema -> Int]
  <2>1. i \in 1 .. Len(before[w.source]) /\ before[w.source][i] # Deleted
    BY DEF Matching, Live
  <2>2. before[w.source][i] \in Rows
    BY <2>1
  <2> QED BY <2>1, <2>2 DEF Rows
<1> QED BY <1>1, <1>3, <1>4

\* A DELETE or UPDATE deals with one more row.
LEMMA ChangedStep ==
  ASSUME NEW w, NEW before, NEW b \in Seq(Rows), b = before[w.table], w.source = w.table, NEW scan, NEW count,
         NEW h \in Seq(Rows), Changed(w, before, scan, count, h),
         NEW i \in Matching(w, before), i \notin Done(w, before, scan),
         NEW scan2, Done(w, before, scan2) = Done(w, before, scan) \cup {i},
         w.kind = "update" => Thrown \notin Range(UpdatedRow(w, b[i])),
         NEW h2, h2 = UpdateTuple(h, i, NewRow(w, b[i]))
  PROVE  Changed(w, before, scan2, count + 1, h2)
<1>1. IsFiniteSet(Matching(w, before)) /\ Matching(w, before) \subseteq 1 .. Len(b)
  BY MatchingFinite
<1>2. Done(w, before, scan) \subseteq Matching(w, before)
  BY DEF Done
<1>3. IsFiniteSet(Done(w, before, scan))
  BY <1>1, <1>2, FS_Subset
<1>4. Cardinality(Done(w, before, scan2)) = count + 1
  BY <1>3, FS_AddElement DEF Changed
<1>5. DOMAIN h = 1 .. Len(h) /\ Len(h) = Len(b) /\ i \in 1 .. Len(h) /\ Len(h) \in Nat
  BY <1>1 DEF Changed
<1>6. Len(h2) = Len(h) /\ \A x \in 1 .. Len(h) : h2[x] = IF x = i THEN NewRow(w, b[i]) ELSE h[x]
  <2>1. PICK v : v = NewRow(w, b[i])
    OBVIOUS
  <2>2. h2 = [h EXCEPT ![i] = v]
    BY <2>1 DEF UpdateTuple
  <2> QED BY <1>5, <2>1, <2>2
<1>7. \A x \in 1 .. Len(h2) : h2[x] = IF x \in Done(w, before, scan2) THEN NewRow(w, b[x]) ELSE b[x]
  BY <1>6 DEF Changed
<1>8. w.kind = "update" => \A x \in Done(w, before, scan2) : Thrown \notin Range(UpdatedRow(w, b[x]))
  BY DEF Changed
<1> QED BY <1>4, <1>5, <1>6, <1>7, <1>8 DEF Changed

\* q2 is q and then i.
Longer(q2, q, i) ==
  Len(q2) = Len(q) + 1 /\ q2[Len(q) + 1] = i /\ \A k \in 1 .. Len(q) : q2[k] = q[k]

LEMMA AppendIsLonger ==
  ASSUME NEW S, NEW q \in Seq(S), NEW i \in S, NEW q2, q2 = Append(q, i)
  PROVE  q2 \in Seq(S) /\ Longer(q2, q, i)
BY DEF Longer

LEMMA ListsMore ==
  ASSUME NEW D, NEW n \in Nat, NEW q, Lists(q, D, n), NEW i \in 1 .. n, \A x \in D : x < i,
         NEW q2 \in Seq(Nat), Longer(q2, q, i), NEW D2, D2 = D \cup {i}
  PROVE  Lists(q2, D2, n)
<1>1. q \in Seq(Nat) /\ Len(q) \in Nat /\ \A k \in 1 .. Len(q) : q[k] \in D /\ q[k] \in 1 .. n
  BY DEF Lists
<1>2. Len(q2) = Len(q) + 1 /\ q2[Len(q) + 1] = i /\ \A k \in 1 .. Len(q) : q2[k] = q[k]
  BY DEF Longer
<1>3. \A k \in 1 .. Len(q2) : k \in 1 .. Len(q) \/ k = Len(q) + 1
  BY <1>1, <1>2
<1>4. \A k \in 1 .. Len(q2) : q2[k] \in D \cup {i} /\ q2[k] \in 1 .. n
  BY <1>1, <1>2, <1>3
<1>5. ASSUME NEW j \in 1 .. Len(q2), NEW k \in 1 .. Len(q2), j < k PROVE q2[j] < q2[k]
  <2>1. j \in 1 .. Len(q)
    BY <1>1, <1>2, <1>5
  <2>2. CASE k = Len(q) + 1
    BY <1>1, <1>2, <2>1, <2>2
  <2>3. CASE k # Len(q) + 1
    BY <1>2, <1>3, <1>5, <2>1, <2>3 DEF Lists
  <2> QED BY <2>2, <2>3
<1>6. ASSUME NEW x \in D \cup {i}, x \in 1 .. n PROVE \E k \in 1 .. Len(q2) : q2[k] = x
  <2>1. CASE x = i
    <3>1. Len(q) + 1 \in 1 .. Len(q2)
      BY <1>1, <1>2
    <3> QED BY <1>2, <2>1, <3>1
  <2>2. CASE x \in D
    <3>1. PICK k \in 1 .. Len(q) : q[k] = x
      BY <1>6, <2>2 DEF Lists
    <3>2. k \in 1 .. Len(q2)
      BY <1>1, <1>2
    <3> QED BY <1>2, <3>1, <3>2
  <2> QED BY <2>1, <2>2
<1> QED BY <1>2, <1>4, <1>5, <1>6 DEF Lists

\* There is room for a copy, or there is none and the heap stays.
LEMMA CopiedStep ==
  ASSUME NEW h \in Seq(Rows), NEW old \in Seq(Rows), Len(h) <= MaxSlots, Len(old) <= Len(h),
         NEW source, NEW q, Len(q) \in Nat, Copied(h, old, source, q),
         NEW q2, NEW i, Longer(q2, q, i),
         NEW h2, IF Len(h) < MaxSlots THEN Longer(h2, h, source[i]) ELSE h2 = h
  PROVE  Copied(h2, old, source, q2)
<1>1. MaxSlots \in Nat /\ Len(h) \in Nat /\ Len(old) \in Nat
  BY DatabaseAssumption
<1>2. Len(q2) = Len(q) + 1 /\ q2[Len(q) + 1] = i /\ \A k \in 1 .. Len(q) : q2[k] = q[k]
  BY DEF Longer
<1>3. \A k \in 1 .. Len(q2) : k \in 1 .. Len(q) \/ k = Len(q) + 1
  BY <1>2
<1>4. CASE Len(h) < MaxSlots
  <2>2. Len(h2) = Len(h) + 1 /\ h2[Len(h) + 1] = source[i] /\ \A x \in 1 .. Len(h) : h2[x] = h[x]
    BY <1>4 DEF Longer
  <2>3. Len(h) = Len(old) + Len(q) /\ Len(old) + Len(q) < MaxSlots
    BY <1>1, <1>4 DEF Copied
  <2>4. ASSUME NEW k \in 1 .. Len(q) PROVE h2[Len(old) + k] = source[q2[k]]
    <3>1. Len(old) + k \in 1 .. Len(h) /\ Len(old) + k <= MaxSlots
      BY <1>1, <2>3
    <3> QED BY <1>2, <2>2, <3>1 DEF Copied
  <2>5. h2[Len(old) + (Len(q) + 1)] = source[q2[Len(q) + 1]]
    BY <1>1, <1>2, <2>2, <2>3
  <2>6. Len(h2) = Len(old) + Len(q2) /\ Len(old) + Len(q2) <= MaxSlots
    BY <1>1, <1>2, <2>2, <2>3
  <2> QED BY <1>2, <1>3, <2>4, <2>5, <2>6 DEF Copied
<1>5. CASE ~(Len(h) < MaxSlots)
  <2>1. h2 = h /\ Len(h) = MaxSlots
    BY <1>1, <1>5
  <2>2. Len(old) + Len(q) >= MaxSlots
    BY <1>1, <2>1 DEF Copied
  <2>3. Len(old) + (Len(q) + 1) > MaxSlots
    BY <1>1, <2>2
  <2>4. \A k \in 1 .. Len(q2) : Len(old) + k <= MaxSlots => k \in 1 .. Len(q)
    BY <1>1, <1>3, <2>3
  <2>5. \A k \in 1 .. Len(q) : Len(old) + k <= MaxSlots => h[Len(old) + k] = source[q[k]]
    BY DEF Copied
  <2>6. \A k \in 1 .. Len(q2) : Len(old) + k <= MaxSlots => h2[Len(old) + k] = source[q2[k]]
    BY <1>2, <2>1, <2>4, <2>5
  <2>7. ~(Len(old) + Len(q2) <= MaxSlots)
    BY <1>1, <1>2, <2>3
  <2> QED BY <2>1, <2>6, <2>7 DEF Copied
<1> QED BY <1>4, <1>5

\* Two live slots are more than one.
LEMMA OneLive ==
  ASSUME NEW h \in Seq(Rows), ~(Cardinality(Live(h)) > 1), NEW i \in Live(h), NEW j \in Live(h)
  PROVE  i = j
<1> SUFFICES ASSUME i # j PROVE FALSE
  OBVIOUS
<1>1. Live(h) \subseteq 1 .. Len(h) /\ Len(h) \in Nat
  BY DEF Live
<1>2. IsFiniteSet(Live(h))
  <2>1. IsFiniteSet(1 .. Len(h))
    BY <1>1, FS_Interval
  <2> QED BY <1>1, <2>1, FS_Subset
<1>3. PICK I, T : I = {i} /\ T = I \cup {j}
  OBVIOUS
<1>4. T \in SUBSET Live(h) /\ j \notin I
  BY <1>3
<1>5. Cardinality(T) = 2
  <2>1. IsFiniteSet(I) /\ Cardinality(I) = 1
    BY <1>3, FS_Singleton
  <2>2. Cardinality(T) = IF j \in I THEN Cardinality(I) ELSE Cardinality(I) + 1
    BY <1>3, <2>1, FS_AddElement
  <2> QED BY <1>4, <2>1, <2>2
<1>6. Cardinality(T) <= Cardinality(Live(h))
  BY <1>2, <1>4, FS_Subset
<1>7. Cardinality(Live(h)) \in Nat
  BY <1>2, FS_CardinalityType
<1> QED BY <1>5, <1>6, <1>7

\* An INSERT deals with one more row.
LEMMA GrownStep ==
  ASSUME NEW w \in WriteStatements, w.kind = "insert", NEW before \in [Tables -> Seq(Rows)], NEW hp \in [Tables -> Seq(Rows)],
         \A t \in Tables : Len(hp[t]) <= MaxSlots, NEW scan, NEW count,
         Grown(w, before, scan, count, hp[w.table]),
         NEW i \in 1 .. Len(hp[w.source]), NEW row \in Rows, row = hp[w.source][i], NEW scan2,
         ~ReadsOwnRows(w, before) =>
           /\ i \in 1 .. Len(before[w.source]) /\ row = before[w.source][i] /\ i \in Live(hp[w.source])
           /\ Done(w, before, scan2) = Done(w, before, scan) \cup {i}
           /\ \A x \in Done(w, before, scan) : x < i
           /\ scan2.type = scan.type
           /\ scan.type # "index" => scan.at # End /\ scan2.at = NextLive(hp[w.source], i),
         NEW h2, h2 = IF Len(hp[w.table]) < MaxSlots THEN Append(hp[w.table], row) ELSE hp[w.table]
  PROVE  /\ h2 \in Seq(Rows) /\ Len(h2) <= MaxSlots /\ Len(h2) >= Len(hp[w.table])
         /\ Grown(w, before, scan2, IF Len(hp[w.table]) < MaxSlots THEN count + 1 ELSE count, h2)
<1>0. w.table \in Tables /\ w.source \in Tables /\ MaxSlots \in Nat
  BY DatabaseAssumption DEF BoundWrite
<1>1. PICK h \in Seq(Rows), old \in Seq(Rows), b \in Seq(Rows), src \in Seq(Rows) :
        h = hp[w.table] /\ old = before[w.table] /\ b = before[w.source] /\ src = hp[w.source]
  BY <1>0
<1>2. Len(h) <= MaxSlots /\ Len(h) \in Nat /\ Len(old) \in Nat /\ Len(b) \in Nat
  BY <1>0, <1>1
<1>3. /\ Len(old) <= Len(h) /\ count = Len(h) - Len(old)
      /\ \A x \in 1 .. Len(old) : h[x] = old[x]
  BY <1>1 DEF Grown
<1>4. h2 = IF Len(h) < MaxSlots THEN Append(h, row) ELSE h
  BY <1>1
<1>9. IF Len(h) < MaxSlots THEN h2 \in Seq(Rows) /\ Longer(h2, h, row) ELSE h2 = h
  <2>1. CASE Len(h) < MaxSlots
    <3>1. h2 = Append(h, row)
      BY <1>4, <2>1
    <3>2. h2 \in Seq(Rows) /\ Longer(h2, h, row)
      BY <3>1, AppendIsLonger
    <3> QED BY <2>1, <3>2
  <2>2. CASE ~(Len(h) < MaxSlots)
    BY <1>4, <2>2
  <2> QED BY <2>1, <2>2
<1>5. /\ h2 \in Seq(Rows) /\ Len(h2) = IF Len(h) < MaxSlots THEN Len(h) + 1 ELSE Len(h)
      /\ \A x \in 1 .. Len(h) : h2[x] = h[x]
  BY <1>9 DEF Longer
<1>6. /\ Len(h2) <= MaxSlots /\ Len(h2) >= Len(h) /\ Len(old) <= Len(h2)
      /\ (IF Len(h) < MaxSlots THEN count + 1 ELSE count) = Len(h2) - Len(old)
      /\ \A x \in 1 .. Len(old) : h2[x] = old[x]
  <2>1. \A x \in 1 .. Len(old) : x \in 1 .. Len(h)
    BY <1>2, <1>3
  <2>2. \A x \in 1 .. Len(old) : h2[x] = old[x]
    BY <1>3, <1>5, <2>1
  <2>3. PICK m, n : m = Len(h2) /\ n = Len(h) /\ n \in Nat /\ m = IF n < MaxSlots THEN n + 1 ELSE n
    BY <1>2, <1>5
  <2>4. m <= MaxSlots /\ m >= n /\ Len(old) <= m /\ (IF n < MaxSlots THEN count + 1 ELSE count) = m - Len(old)
    BY <1>0, <1>2, <1>3, <2>3, SMTT(30)
  <2> QED BY <2>2, <2>3, <2>4
<1>7. ASSUME ~ReadsOwnRows(w, before)
      PROVE  /\ w.source = w.table => h2 = old \/ scan2.type = "index" \/ scan2.at = End
             /\ \E q : /\ Lists(q, Done(w, before, scan2), Len(b)) /\ Copied(h2, old, b, q)
  <2>1. /\ i \in 1 .. Len(b) /\ row = b[i] /\ i \in Live(src)
        /\ Done(w, before, scan2) = Done(w, before, scan) \cup {i}
        /\ \A x \in Done(w, before, scan) : x < i
        /\ scan2.type = scan.type
        /\ scan.type # "index" => scan.at # End /\ scan2.at = NextLive(src, i)
    BY <1>1, <1>7
  <2>2. PICK q : Lists(q, Done(w, before, scan), Len(b)) /\ Copied(h, old, b, q)
    BY <1>1, <1>7 DEF Grown
  <2>3. q \in Seq(Nat) /\ Len(q) \in Nat /\ i \in Nat
    BY <1>2, <2>1, <2>2 DEF Lists
  <2>4. PICK q2 \in Seq(Nat) : Longer(q2, q, i)
    BY <2>3, AppendIsLonger
  <2>5. Lists(q2, Done(w, before, scan2), Len(b))
    BY <1>2, <2>1, <2>2, <2>4, ListsMore
  <2>6. Copied(h2, old, b, q2)
    <3>1. IF Len(h) < MaxSlots THEN Longer(h2, h, b[i]) ELSE h2 = h
      BY <1>9, <2>1
    <3>2. Len(h) <= MaxSlots /\ Len(old) <= Len(h)
      BY <1>2, <1>3
    <3> QED BY <2>2, <2>3, <2>4, <3>1, <3>2, CopiedStep
  <2>7. ASSUME w.source = w.table, scan2.type # "index" PROVE scan2.at = End
    <3>1. h = old \/ scan.type = "index" \/ scan.at = End
      BY <1>1, <1>7, <2>7 DEF Grown
    <3>2. h = old /\ src = old /\ b = old /\ scan2.at = NextLive(src, i)
      BY <1>1, <2>1, <2>7, <3>1
    <3>3. ~(Cardinality(Live(old)) > 1)
      BY <1>1, <1>7, <2>7, <3>2 DEF ReadsOwnRows
    <3>4. \A j \in Live(old) : j = i
      BY <2>1, <3>2, <3>3, OneLive
    <3>5. i \in Nat
      BY <1>2, <2>1
    <3>6. scan2.at # End => scan2.at \in Live(old) /\ scan2.at > i
      BY <3>2, <3>5, NextLiveIs
    <3> QED BY <3>4, <3>5, <3>6
  <2> QED BY <2>5, <2>6, <2>7
<1>8. Grown(w, before, scan2, IF Len(h) < MaxSlots THEN count + 1 ELSE count, h2)
  BY <1>1, <1>6, <1>7 DEF Grown
<1> QED BY <1>1, <1>5, <1>6, <1>8

-----------------------------------------------------------------------------
(* The start of a statement. *)

\* A column is looked up with a key of its type, or the comparison would throw.
LEMMA LookupBound ==
  ASSUME NEW p, SafePredicate(p), IsLookup(p)
  PROVE  LookupColumn(p) \in DOMAIN TableSchema /\ LookupKey(p).type = TableSchema[LookupColumn(p)]
<1>1. SafeComparison(p) /\ {p.left.kind, p.right.kind} = {"column", "constant"}
  BY DEF SafePredicate, IsLookup
<1>2. Bound(p.left) /\ Bound(p.right) /\ BoundType(p.left) = BoundType(p.right)
  BY <1>1 DEF SafeComparison
<1>3. CASE p.left.kind = "column" /\ p.right.kind = "constant"
  BY <1>2, <1>3 DEF Bound, BoundLeaf, BoundType, LeafType, LookupColumn, LookupKey
<1>4. CASE p.left.kind = "constant" /\ p.right.kind = "column"
  BY <1>2, <1>4 DEF Bound, BoundLeaf, BoundType, LeafType, LookupColumn, LookupKey
<1> QED BY <1>1, <1>3, <1>4

\* A row that passes column = constant has the constant in the column.
LEMMA LookupHolds ==
  ASSUME NEW p, IsLookup(p), LookupColumn(p) \in DOMAIN TableSchema,
         NEW row \in [DOMAIN TableSchema -> Int], Holds(p, Values(TableSchema, row))
  PROVE  row[LookupColumn(p)] = LookupKey(p).n
<1> DEFINE tuple == Values(TableSchema, row)
<1>1. \A c \in DOMAIN TableSchema : tuple[c].n = row[c]
  BY DEF Values, GetValue, Val
<1>2. p.kind = "comparison" /\ p.op = "=" /\ {p.left.kind, p.right.kind} = {"column", "constant"}
  BY DEF IsLookup
<1>3. \/ p.left.kind = "column" /\ p.right.kind = "constant"
      \/ p.left.kind = "constant" /\ p.right.kind = "column"
  BY <1>2
<1> HIDE DEF tuple
<1>4. HoldsComparison(p, tuple, tuple)
  BY <1>2 DEF Holds, HoldsJoin, tuple
<1>5. EvaluateJoin(p.left, tuple, tuple).n = EvaluateJoin(p.right, tuple, tuple).n
  BY <1>2, <1>4 DEF HoldsComparison, Compare
<1>6. CASE p.left.kind = "column" /\ p.right.kind = "constant"
  <2>1. EvaluateJoin(p.left, tuple, tuple) = tuple[p.left.col]
    BY <1>6 DEF EvaluateJoin, EvaluateLeaf
  <2>2. EvaluateJoin(p.right, tuple, tuple) = p.right.val
    BY <1>6 DEF EvaluateJoin, EvaluateLeaf
  <2>3. LookupColumn(p) = p.left.col /\ LookupKey(p) = p.right.val
    BY <1>6 DEF LookupColumn, LookupKey
  <2> QED BY <1>1, <1>5, <2>1, <2>2, <2>3
<1>7. CASE p.left.kind = "constant" /\ p.right.kind = "column"
  <2>1. EvaluateJoin(p.right, tuple, tuple) = tuple[p.right.col]
    BY <1>7 DEF EvaluateJoin, EvaluateLeaf
  <2>2. EvaluateJoin(p.left, tuple, tuple) = p.left.val
    BY <1>7 DEF EvaluateJoin, EvaluateLeaf
  <2>3. LookupColumn(p) = p.right.col /\ LookupKey(p) = p.left.val
    BY <1>7 DEF LookupColumn, LookupKey
  <2> QED BY <1>1, <1>5, <2>1, <2>2, <2>3
<1> QED BY <1>3, <1>6, <1>7

LEMMA StartScan ==
  ASSUME HeapGood, IndexesGood, FreshGood, CatalogGood(indexes_, index_names_),
         NEW w \in WriteStatements, NEW plan \in ScanPlans(w.source, w.pred),
         NEW scan, scan = InitScan(w.source, w.pred, plan)
  PROVE  /\ ScanGood(w, heap, scan) /\ Done(w, heap, scan) = {}
         /\ FreshPlan(plan) => ExactGood(w, heap, scan)
<1> DEFINE t == w.source
           p == w.pred
           fits == {o \in GetTableIndexes(t) :
                      /\ SupportsPointLookup(indexes_[o].attrs)
                      /\ IsLookup(p) /\ indexes_[o].attrs[1] = LookupColumn(p)}
<1>1. BoundWrite(w) /\ t \in Tables
  BY DatabaseAssumption DEF BoundWrite
<1>2. PICK h \in Seq(Rows) : h = heap[t]
  BY <1>1 DEF HeapGood
<1>3. \/ plan = [type |-> "seq"]
      \/ \E o \in fits : plan = [type |-> "index", oid |-> o]
  BY DEF ScanPlans
<1>4. \A x : x \in Matching(w, heap) <=> x \in Live(h) /\ Holds(p, TupleAt(h, x))
  BY <1>2 DEF Matching
<1>5. \A x \in Live(h) : x \in 1 .. Len(h) /\ x \in Nat /\ h[x] # Deleted /\ Len(h) \in Nat
  BY DEF Live
<1>6. CASE plan = [type |-> "seq"]
  <2>1. PICK n : n = NextLive(h, 0)
    OBVIOUS
  <2>2. scan = [type |-> "seq", table |-> t, pred |-> p, at |-> n, rids |-> <<>>]
    <3>1. plan.type = "seq"
      BY <1>6
    <3> QED BY <1>2, <2>1, <3>1 DEF InitScan
  <2>3. scan.type = "seq" /\ scan.at = n /\ scan.rids = <<>>
    BY <2>2
  <2>4. /\ n \in Nat
        /\ n = End => \A j \in Live(h) : ~(j > 0)
        /\ n # End => \A j \in Live(h) : j > 0 => n <= j
    BY <2>1, NextLiveIs
  <2>5. Ascending(<<>>, Len(h))
    BY DEF Ascending
  <2>6. ScanGood(w, heap, scan)
    BY <1>2, <2>2, <2>3, <2>4, <2>5 DEF ScanGood
  <2>7. ASSUME NEW x \in Matching(w, heap) PROVE ~Passed(scan, x)
    <3>1. x \in Live(h) /\ x > 0 /\ x \in Nat
      BY <1>4, <1>5
    <3>2. n # End /\ n <= x
      BY <2>4, <3>1
    <3> QED BY <2>3, <2>4, <3>1, <3>2 DEF Passed
  <2>8. Done(w, heap, scan) = {}
    BY <2>7 DEF Done
  <2>9. ExactGood(w, heap, scan)
    BY <2>3 DEF ExactGood
  <2> QED BY <2>6, <2>8, <2>9
<1>7. ASSUME NEW o \in fits, plan = [type |-> "index", oid |-> o]
      PROVE  /\ ScanGood(w, heap, scan) /\ Done(w, heap, scan) = {}
             /\ FreshPlan(plan) => ExactGood(w, heap, scan)
  <2>1. PICK info, key : info = indexes_[o] /\ key = LookupKey(p)
    OBVIOUS
  <2>2. PICK rids : rids = IF key.type = "INTEGER" /\ key.n \in DOMAIN info.map THEN info.map[key.n] ELSE <<>>
    OBVIOUS
  <2>3. scan = [type |-> "index", table |-> t, pred |-> p, at |-> 1, rids |-> rids]
    <3>1. plan.type = "index" /\ plan.oid = o
      BY <1>7
    <3> QED BY <2>1, <2>2, <3>1 DEF InitScan
  <2>4. scan.type = "index" /\ scan.at = 1 /\ scan.rids = rids
    BY <2>3
  <2>5. /\ o \in GetTableIndexes(t) /\ SupportsPointLookup(info.attrs)
        /\ IsLookup(p) /\ info.attrs[1] = LookupColumn(p)
    BY <2>1
  <2>6. o \in DOMAIN indexes_ /\ info.table = t
    <3>1. t \in DOMAIN index_names_ /\ o \in Range(index_names_[t])
      BY <2>5 DEF GetTableIndexes
    <3>2. PICK name \in DOMAIN index_names_[t] : o = index_names_[t][name]
      BY <3>1 DEF Range
    <3> QED BY <2>1, <3>1, <3>2 DEF CatalogGood
  <2>7. \A k \in DOMAIN info.map : Ascending(info.map[k], Len(h))
    BY <1>2, <2>1, <2>6 DEF IndexesGood
  <2>8. Ascending(rids, Len(h))
    <3>1. Ascending(<<>>, Len(h))
      BY DEF Ascending
    <3> QED BY <2>2, <2>7, <3>1
  <2>9. ScanGood(w, heap, scan)
    BY <1>2, <2>3, <2>4, <2>8 DEF ScanGood
  <2>10. Done(w, heap, scan) = {}
    <3>1. Len(rids) \in Nat
      BY <2>8 DEF Ascending
    <3>2. \A x : ~Passed(scan, x)
      BY <2>4, <3>1 DEF Passed
    <3> QED BY <3>2 DEF Done
  <2>11. ASSUME FreshPlan(plan) PROVE ExactGood(w, heap, scan)
    <3>1. Finds(info, h)
      <4>1. plan.type = "index" /\ plan.oid = o
        BY <1>7
      <4>2. o \in fresh
        BY <2>11, <4>1 DEF FreshPlan
      <4> QED BY <1>2, <2>1, <2>6, <4>2 DEF FreshGood
    <3>2. PICK col : col = info.attrs[1]
      OBVIOUS
    <3>3. /\ \A i \in Live(h) : /\ h[i][col] \in DOMAIN info.map
                                /\ \E j \in 1 .. Len(info.map[h[i][col]]) : info.map[h[i][col]][j] = i
          /\ \A k \in DOMAIN info.map : \A j \in 1 .. Len(info.map[k]) : info.map[k][j] \in Live(h)
      BY <2>5, <3>1, <3>2 DEF Finds
    <3>4. col = LookupColumn(p) /\ col \in DOMAIN TableSchema /\ key.type = "INTEGER"
      BY <1>1, <2>1, <2>5, <3>2, LookupBound DEF BoundWrite, SupportsPointLookup
    <3>5. ASSUME NEW i \in Matching(w, heap) PROVE \E j \in 1 .. Len(rids) : rids[j] = i
      <4>1. i \in Live(h) /\ Holds(p, TupleAt(h, i)) /\ h[i] \in Rows /\ h[i] # Deleted
        BY <1>4, <1>5
      <4>2. h[i] \in [DOMAIN TableSchema -> Int]
        BY <4>1 DEF Rows
      <4>3. h[i][col] = key.n
        BY <2>1, <2>5, <3>4, <4>1, <4>2, LookupHolds DEF TupleAt
      <4>4. rids = info.map[h[i][col]]
        BY <2>2, <3>3, <3>4, <4>1, <4>3
      <4> QED BY <3>3, <4>1, <4>4
    <3>6. \A j \in 1 .. Len(rids) : rids[j] \in Live(h)
      <4>1. CASE key.n \in DOMAIN info.map
        BY <2>2, <3>3, <3>4, <4>1
      <4>2. CASE key.n \notin DOMAIN info.map
        BY <2>2, <4>2
      <4> QED BY <4>1, <4>2
    <3> QED BY <1>2, <2>4, <3>5, <3>6 DEF ExactGood
  <2> QED BY <2>9, <2>10, <2>11
<1> QED BY <1>3, <1>6, <1>7

LEMMA StartProgress ==
  ASSUME HeapGood, IndexesGood, FreshGood, CatalogGood(indexes_, index_names_),
         NEW w \in WriteStatements, NEW plan \in ScanPlans(w.source, w.pred),
         NEW scan, scan = InitScan(w.source, w.pred, plan)
  PROVE  Progress(heap, "run", w, scan, 0, heap, FreshPlan(plan))
<1>1. /\ ScanGood(w, heap, scan) /\ Done(w, heap, scan) = {}
      /\ FreshPlan(plan) => ExactGood(w, heap, scan)
  BY StartScan
<1>2. w.table \in Tables /\ w.source \in Tables /\ MaxSlots \in Nat
  BY DatabaseAssumption DEF BoundWrite
<1>3. PICK h \in Seq(Rows), b \in Seq(Rows) : h = heap[w.table] /\ b = heap[w.source]
  BY <1>2 DEF HeapGood
<1>4. Len(h) \in Nat /\ Len(h) <= MaxSlots /\ Len(b) \in Nat
  BY <1>2, <1>3 DEF HeapGood
<1>5. Changed(w, heap, scan, 0, h)
  <2>1. Cardinality(Done(w, heap, scan)) = 0
    BY <1>1, FS_EmptySet
  <2> QED BY <1>1, <1>3, <2>1 DEF Changed
<1>6. Grown(w, heap, scan, 0, h)
  <2>1. Lists(<<>>, Done(w, heap, scan), Len(b))
    BY <1>1 DEF Lists
  <2>2. Copied(h, h, b, <<>>)
    BY <1>4 DEF Copied
  <2> QED BY <1>3, <1>4, <2>1, <2>2 DEF Grown
<1>7. FreshPlan(plan) \in BOOLEAN
  BY DEF FreshPlan
<1> QED BY <1>1, <1>3, <1>5, <1>6, <1>7 DEF Progress, HeapGood

\* The next row of a running statement.
LEMMA ReadNext ==
  ASSUME HeapGood, NEW w, NEW scan, NEW count, NEW before, NEW exact,
         Progress(heap, "run", w, scan, count, before, exact),
         NEW h \in Seq(Rows), h = heap[w.source], NEW b \in Seq(Rows), b = before[w.source],
         NEW next, next = NextRow(h, scan), next.slot # End
  PROVE  /\ next.slot \in 1 .. Len(h)
         /\ next.died <=> h[next.slot] = Deleted
         /\ exact => ~next.died
         /\ ScanGood(w, before, next.scan)
         /\ exact => ExactGood(w, before, next.scan)
         /\ ~ReadsOwnRows(w, before) /\ ~next.died =>
              /\ next.slot \in 1 .. Len(b) /\ h[next.slot] = b[next.slot]
              /\ next.slot \in Matching(w, before) /\ next.slot \notin Done(w, before, scan)
              /\ Done(w, before, next.scan) = Done(w, before, scan) \cup {next.slot}
              /\ \A x \in Done(w, before, scan) : x < next.slot
              /\ exact => \A x \in Matching(w, before) : x < next.slot => x \in Done(w, before, scan)
              /\ next.scan.type = scan.type
              /\ scan.type # "index" => scan.at # End /\ next.scan.at = NextLive(h, next.slot)
<1>1. /\ w.table \in Tables /\ w.source \in Tables /\ Len(b) \in Nat /\ Len(h) \in Nat
      /\ w.kind # "insert" => w.source = w.table
  BY DatabaseAssumption DEF Progress, BoundWrite
<1>2. ScanGood(w, before, scan) /\ heap \in [Tables -> Seq(Rows)] /\ before \in [Tables -> Seq(Rows)]
  BY DEF Progress, HeapGood
<1>3. Len(b) <= Len(h)
  <2>1. CASE w.kind # "insert"
    BY <1>1, <2>1 DEF Progress, Changed
  <2>2. CASE w.kind = "insert" /\ w.source = w.table
    BY <1>1, <2>2 DEF Progress, Grown
  <2>3. CASE w.source # w.table
    BY <1>1, <2>3 DEF Progress
  <2> QED BY <2>1, <2>2, <2>3
<1>4. PICK hit \in Hits(h, scan) : FirstHit(h, scan, next, hit)
  <2>1. Len(before[w.source]) \in Nat /\ Len(before[w.source]) <= Len(h)
    BY <1>1, <1>3
  <2> QED BY <1>2, <2>1, NextRowIs
<1>5. /\ next.slot \in 1 .. Len(h)
      /\ next.died <=> h[next.slot] = Deleted
      /\ \A x \in Hits(h, scan) : hit <= x
      /\ scan.type = "seq" => /\ next.slot = hit /\ ~next.died
                              /\ next.scan = MovedTo(scan, NextLive(h, hit))
      /\ scan.type = "index" => /\ hit \in 1 .. Len(scan.rids) /\ next.slot = scan.rids[hit]
                                /\ next.scan = MovedTo(scan, hit + 1)
  BY <1>4 DEF FirstHit
<1>6. scan.type \in {"seq", "index"}
  BY <1>2 DEF ScanGood
<1>7. ~ReadsOwnRows(w, before) => Unread(h, b, scan)
  BY <1>2, StillUnread
\* Only the position of the scan changes.
<1>8. /\ ScanGood(w, before, next.scan) /\ next.scan.type = scan.type /\ next.scan.rids = scan.rids
      /\ scan.type = "seq" => next.scan.at = NextLive(h, next.slot)
  <2>1. PICK at : /\ next.scan = MovedTo(scan, at) /\ at \in Nat
                  /\ scan.type = "index" => at >= 1
                  /\ scan.type = "seq" => at = NextLive(h, next.slot)
    <3>1. CASE scan.type = "seq"
      <4>1. next.slot = hit /\ next.scan = MovedTo(scan, NextLive(h, hit)) /\ hit \in Nat
        BY <1>1, <1>5, <3>1
      <4>2. NextLive(h, hit) \in Nat
        BY <4>1, NextLiveIs
      <4> QED BY <3>1, <4>1, <4>2
    <3>2. CASE scan.type = "index"
      <4>1. hit \in Nat /\ next.scan = MovedTo(scan, hit + 1)
        BY <1>2, <1>5, <3>2 DEF ScanGood, Ascending
      <4>2. hit + 1 \in Nat /\ hit + 1 >= 1
        BY <4>1
      <4> QED BY <3>2, <4>1, <4>2
    <3> QED BY <1>6, <3>1, <3>2
  <2>2. scan = [type |-> scan.type, table |-> w.source, pred |-> w.pred, at |-> scan.at, rids |-> scan.rids]
    BY <1>2 DEF ScanGood
  <2>3. next.scan = [type |-> scan.type, table |-> w.source, pred |-> w.pred, at |-> at, rids |-> scan.rids]
    BY <2>1, <2>2 DEF MovedTo
  <2>4. next.scan.type = scan.type /\ next.scan.at = at /\ next.scan.rids = scan.rids
    BY <2>3
  <2>5. ScanGood(w, before, next.scan)
    BY <1>2, <2>1, <2>3, <2>4 DEF ScanGood
  <2> QED BY <2>1, <2>4, <2>5
<1>9. exact => ExactGood(w, before, next.scan)
  <2>1. exact => ExactGood(w, before, scan)
    BY DEF Progress
  <2> QED BY <1>8, <2>1 DEF ExactGood
<1>10. ASSUME ~ReadsOwnRows(w, before)
       PROVE  /\ next.slot \in 1 .. Len(b) /\ h[next.slot] = b[next.slot]
              /\ h[next.slot] # Deleted =>
                   /\ next.slot \in Matching(w, before) /\ next.slot \notin Done(w, before, scan)
                   /\ Done(w, before, next.scan) = Done(w, before, scan) \cup {next.slot}
              /\ \A x \in Done(w, before, scan) : x < next.slot
              /\ exact => \A x \in Matching(w, before) : x < next.slot => x \in Done(w, before, scan)
              /\ scan.type # "index" => scan.at # End
  <2>1. PICK i, scan2 : i = next.slot /\ scan2 = next.scan
    OBVIOUS
  <2>2. Unread(h, b, scan)
    BY <1>7, <1>10
  <2>3. CASE scan.type = "seq"
    <3>1. i \in Hits(h, scan) /\ (\A x \in Hits(h, scan) : i <= x) /\ scan2 = MovedTo(scan, NextLive(h, i))
      BY <1>5, <2>1, <2>3
    <3>2. scan.at # End
      BY <2>3, <3>1 DEF Hits, SeqHits
    <3>3. /\ i \in 1 .. Len(b) /\ h[i] = b[i]
          /\ i \in Matching(w, before) /\ i \notin Done(w, before, scan)
          /\ Done(w, before, scan2) = Done(w, before, scan) \cup {i}
          /\ \A x \in Done(w, before, scan) : x < i
          /\ \A x \in Matching(w, before) : x < i => x \in Done(w, before, scan)
      BY <1>2, <2>2, <2>3, <3>1, SeqReadStep
    <3> QED BY <2>1, <3>2, <3>3
  <2>4. CASE scan.type = "index"
    <3>1. i = SlotOf(scan, hit) /\ scan2 = MovedTo(scan, hit + 1)
      BY <1>5, <2>1, <2>4 DEF SlotOf
    <3>2. /\ i \in 1 .. Len(b) /\ h[i] = b[i]
          /\ h[i] # Deleted => /\ i \in Matching(w, before) /\ i \notin Done(w, before, scan)
                               /\ Done(w, before, scan2) = Done(w, before, scan) \cup {i}
          /\ \A x \in Done(w, before, scan) : x < i
          /\ ExactGood(w, before, scan) => \A x \in Matching(w, before) : x < i => x \in Done(w, before, scan)
      <4>1. hit \in Hits(h, scan) /\ \A x \in Hits(h, scan) : hit <= x
        BY <1>5
      <4> QED BY <1>2, <2>2, <2>4, <3>1, <4>1, IndexReadStep
    <3>3. exact => ExactGood(w, before, scan)
      BY DEF Progress
    <3> QED BY <2>1, <2>4, <3>2, <3>3
  <2> QED BY <1>6, <2>3, <2>4
<1>11. ASSUME exact PROVE ~next.died
  <2>1. CASE scan.type = "seq"
    BY <1>5, <2>1
  <2>2. CASE scan.type = "index"
    <3>1. hit \in 1 .. Len(scan.rids) /\ next.slot = scan.rids[hit]
      BY <1>5, <2>2
    <3>2. next.slot \in Live(b)
      BY <1>11, <2>2, <3>1 DEF Progress, ExactGood
    <3>3. next.slot \in 1 .. Len(b) /\ b[next.slot] # Deleted
      BY <3>2 DEF Live
    <3>4. h[next.slot] = b[next.slot]
      <4>1. CASE ~ReadsOwnRows(w, before)
        BY <1>10, <4>1
      <4>2. CASE ReadsOwnRows(w, before)
        BY <1>1, <3>3, <4>2 DEF Progress, Grown, ReadsOwnRows
      <4> QED BY <4>1, <4>2
    <3> QED BY <1>5, <3>3, <3>4
  <2> QED BY <1>6, <2>1, <2>2
<1>12. scan.type # "index" => scan.type = "seq"
  BY <1>6
<1> QED BY <1>5, <1>8, <1>9, <1>10, <1>11, <1>12

-----------------------------------------------------------------------------
(* The steps of a write statement. *)

\* A statement as a record of its parts.
Statement(phase, w, plan, scan, count, before, exact) ==
  [phase |-> phase, write |-> w, plan |-> plan, scan |-> scan, count |-> count, before |-> before, exact |-> exact]

LEMMA StatementParts ==
  ASSUME NEW phase, NEW w, NEW plan, NEW scan, NEW count, NEW before, NEW exact,
         NEW s, s = Statement(phase, w, plan, scan, count, before, exact)
  PROVE  /\ s.phase = phase /\ s.write = w /\ s.plan = plan /\ s.scan = scan
         /\ s.count = count /\ s.before = before /\ s.exact = exact
         /\ s = [phase |-> s.phase, write |-> s.write, plan |-> s.plan, scan |-> s.scan,
                 count |-> s.count, before |-> s.before, exact |-> s.exact]
         /\ phase # "idle" => s # Idle
BY DEF Statement, Idle

LEMMA StatementOf ==
  ASSUME StmtGood, stmt.phase # "idle"
  PROVE  /\ stmt = Statement(stmt.phase, stmt.write, stmt.plan, stmt.scan, stmt.count, stmt.before, stmt.exact)
         /\ Progress(heap, stmt.phase, stmt.write, stmt.scan, stmt.count, stmt.before, stmt.exact)
<1>1. stmt # Idle
  BY DEF Idle
<1> QED BY <1>1 DEF StmtGood, Statement

\* The heaps with h as the one of table t.
HeapWith(t, h) == [heap EXCEPT ![t] = h]

LEMMA AscendingMore ==
  ASSUME NEW m \in Nat, NEW n \in Nat, m <= n, NEW r, Ascending(r, m)
  PROVE  Ascending(r, n)
BY DEF Ascending

\* One heap grows or keeps its length and the statement moves on.
LEMMA MovesOn ==
  ASSUME DbInv, NEW t \in Tables, NEW h2 \in Seq(Rows), Len(h2) <= MaxSlots, Len(h2) >= Len(heap[t]),
         heap' = HeapWith(t, h2),
         \A o \in fresh' : o \in fresh /\ (indexes_[o].table # t \/ h2 = heap[t]),
         UNCHANGED catalogVars, UNCHANGED statements,
         NEW phase, phase # "idle", NEW w, NEW plan, NEW scan, NEW count, NEW before, NEW exact,
         stmt' = Statement(phase, w, plan, scan, count, before, exact),
         Progress(heap', phase, w, scan, count, before, exact)
  PROVE  DbInv'
<1>1. heap \in [Tables -> Seq(Rows)] /\ \A u \in Tables : Len(heap[u]) <= MaxSlots
  BY DEF DbInv, HeapGood
<1>2. /\ heap' \in [Tables -> Seq(Rows)] /\ heap'[t] = h2
      /\ \A u \in Tables : u # t => heap'[u] = heap[u]
  BY <1>1 DEF HeapWith
<1>3. HeapGood'
  BY <1>1, <1>2 DEF HeapGood
<1>4. indexes_' = indexes_ /\ index_names_' = index_names_ /\ next_index_oid_' = next_index_oid_
  BY DEF catalogVars
<1>5. IndexesGood'
  <2>1. ASSUME NEW o \in DOMAIN indexes_, NEW k \in DOMAIN indexes_[o].map
        PROVE  Ascending(indexes_[o].map[k], Len(heap'[indexes_[o].table]))
    <3>1. Ascending(indexes_[o].map[k], Len(heap[indexes_[o].table])) /\ indexes_[o].table \in Tables
      BY DEF DbInv, IndexesGood
    <3>2. PICK m, n : m = Len(heap[indexes_[o].table]) /\ n = Len(heap'[indexes_[o].table])
      OBVIOUS
    <3>3. PICK u, g, g2 : u = indexes_[o].table /\ g = heap[u] /\ g2 = heap'[u]
      OBVIOUS
    <3>4. u \in Tables /\ g \in Seq(Rows) /\ g2 \in Seq(Rows)
      BY <1>1, <1>2, <3>1, <3>3
    <3>5. g2 = g \/ (g2 = h2 /\ g = heap[t])
      <4>1. CASE u = t
        BY <1>2, <3>3, <4>1, Zenon
      <4>2. CASE u # t
        BY <1>2, <3>3, <3>4, <4>2, Zenon
      <4> QED BY <4>1, <4>2
    <3>6. m = Len(g) /\ n = Len(g2)
      BY <3>2, <3>3
    <3>7. m \in Nat /\ n \in Nat /\ m <= n
      BY <3>4, <3>5, <3>6
    <3> QED BY <3>1, <3>2, <3>7, AscendingMore
  <2>2. fresh' \subseteq DOMAIN indexes_
    BY DEF DbInv, IndexesGood
  <2>3. /\ next_index_oid_ \in Nat /\ next_index_oid_ >= 1
        /\ DOMAIN indexes_ \subseteq 1 .. next_index_oid_ - 1
        /\ \A o \in DOMAIN indexes_ : indexes_[o].table \in Tables
    BY DEF DbInv, IndexesGood
  <2> QED BY <1>4, <2>1, <2>2, <2>3, Zenon DEF IndexesGood
<1>6. FreshGood'
  <2>1. ASSUME NEW o \in fresh' PROVE Finds(indexes_[o], heap'[indexes_[o].table])
    <3>1. o \in fresh /\ Finds(indexes_[o], heap[indexes_[o].table]) /\ indexes_[o].table \in Tables
      BY DEF DbInv, FreshGood, IndexesGood
    <3>2. heap'[indexes_[o].table] = heap[indexes_[o].table]
      BY <1>2, <3>1
    <3> QED BY <3>1, <3>2
  <2> QED BY <1>4, <2>1 DEF FreshGood
<1>7. StmtGood'
  <2>1. PICK s : s = stmt'
    OBVIOUS
  <2>2. /\ s.phase = phase /\ s.write = w /\ s.plan = plan /\ s.scan = scan
        /\ s.count = count /\ s.before = before /\ s.exact = exact
        /\ s = [phase |-> s.phase, write |-> s.write, plan |-> s.plan, scan |-> s.scan,
                count |-> s.count, before |-> s.before, exact |-> s.exact]
    BY <2>1, StatementParts
  <2>3. Progress(heap', s.phase, s.write, s.scan, s.count, s.before, s.exact)
    BY <2>2
  <2> QED BY <2>1, <2>2, <2>3 DEF StmtGood
<1>8. CatalogGood(indexes_, index_names_)' /\ (statements \in 0 .. MaxStatements)'
  BY <1>4 DEF DbInv
<1> QED BY <1>3, <1>5, <1>6, <1>7, <1>8 DEF DbInv

\* A statement in another phase, with another scan, with another count too.
InPhase(s, phase) == [s EXCEPT !.phase = phase]

ScanAt(s, scan) == [s EXCEPT !.scan = scan]

ScanCount(s, scan, count) == [s EXCEPT !.scan = scan, !.count = count]

LEMMA StatementChange ==
  ASSUME NEW phase, NEW w, NEW plan, NEW scan, NEW count, NEW before, NEW exact,
         NEW s, s = Statement(phase, w, plan, scan, count, before, exact)
  PROVE  /\ \A p : InPhase(s, p) = Statement(p, w, plan, scan, count, before, exact)
         /\ \A x : ScanAt(s, x) = Statement(phase, w, plan, x, count, before, exact)
         /\ \A x, n : ScanCount(s, x, n) = Statement(phase, w, plan, x, n, before, exact)
<1>1. ASSUME NEW p PROVE InPhase(s, p) = Statement(p, w, plan, scan, count, before, exact)
  BY DEF Statement, InPhase, ScanAt
<1>2. ASSUME NEW x PROVE ScanAt(s, x) = Statement(phase, w, plan, x, count, before, exact)
  BY DEF Statement, InPhase, ScanAt
<1>3. ASSUME NEW x, NEW n
      PROVE  ScanCount(s, x, n) = Statement(phase, w, plan, x, n, before, exact)
  <2>1. PICK m : m = [s EXCEPT !.scan = x]
    OBVIOUS
  <2>2. m = Statement(phase, w, plan, x, count, before, exact)
    BY <1>2, <2>1 DEF ScanAt
  <2>3. [m EXCEPT !.count = n] = Statement(phase, w, plan, x, n, before, exact)
    BY <2>2 DEF Statement
  <2> QED BY <2>1, <2>3 DEF ScanCount
<1> QED BY <1>1, <1>2, <1>3

LEMMA ChangeSlot ==
  ASSUME NEW h \in Seq(Rows), NEW i \in 1 .. Len(h), NEW v \in Rows
  PROVE  UpdateTuple(h, i, v) \in Seq(Rows) /\ Len(UpdateTuple(h, i, v)) = Len(h)
BY DEF UpdateTuple

\* A row of a DELETE or UPDATE: the heaps are hp afterwards.
LEMMA ChangedProgress ==
  ASSUME HeapGood, NEW w, NEW scan, NEW count, NEW before, NEW exact, w.kind # "insert",
         Progress(heap, "run", w, scan, count, before, exact),
         NEW b \in Seq(Rows), b = before[w.table], NEW h \in Seq(Rows), h = heap[w.table],
         NEW next, next = NextRow(heap[w.source], scan), next.slot # End, ~next.died,
         w.kind = "update" => Thrown \notin Range(UpdatedRow(w, b[next.slot])),
         NEW h2, h2 = UpdateTuple(h, next.slot, NewRow(w, b[next.slot])),
         NEW hp, hp = HeapWith(w.table, h2)
  PROVE  /\ h2 \in Seq(Rows) /\ Len(h2) = Len(h)
         /\ Progress(hp, "run", w, next.scan, count + 1, before, exact)
<1>1. w.table \in Tables /\ w.source = w.table /\ w \in WriteStatements /\ before \in [Tables -> Seq(Rows)]
  BY DatabaseAssumption DEF Progress, BoundWrite
<1>2. ~ReadsOwnRows(w, before)
  BY DEF ReadsOwnRows
<1>3. PICK i : i = next.slot
  BY SMTT(30)
<1>4. /\ i \in 1 .. Len(h) /\ i \in 1 .. Len(b) /\ h[i] = b[i]
      /\ ScanGood(w, before, next.scan)
      /\ exact => ExactGood(w, before, next.scan)
      /\ i \in Matching(w, before) /\ i \notin Done(w, before, scan)
      /\ Done(w, before, next.scan) = Done(w, before, scan) \cup {i}
  BY <1>1, <1>2, <1>3, ReadNext, SMTT(30)
<1>5. Changed(w, before, scan, count, h)
  BY DEF Progress
<1>6. Changed(w, before, next.scan, count + 1, h2)
  <2>1. h2 = UpdateTuple(h, i, NewRow(w, b[i])) /\ (w.kind = "update" => Thrown \notin Range(UpdatedRow(w, b[i])))
    BY <1>3
  <2> QED BY <1>1, <1>4, <1>5, <2>1, ChangedStep, SMTT(30)
<1>7. NewRow(w, b[i]) \in Rows
  <2>1. b[i] \in [DOMAIN TableSchema -> Int]
    BY <1>1, <1>4, MatchingFinite
  <2>2. Serialize(UpdatedRow(w, b[i])) \in Rows
    BY <1>1, <2>1, NewRowType
  <2> QED BY <2>2 DEF NewRow, Rows
<1>8. h2 \in Seq(Rows) /\ Len(h2) = Len(h)
  <2>1. PICK v \in Rows : v = NewRow(w, b[i])
    BY <1>7, SMTT(30)
  <2>2. h2 = UpdateTuple(h, i, v)
    BY <1>3, <2>1
  <2>3. i \in 1 .. Len(h)
    BY <1>4
  <2>4. UpdateTuple(h, i, v) \in Seq(Rows) /\ Len(UpdateTuple(h, i, v)) = Len(h)
    BY <2>3, ChangeSlot
  <2> QED BY <2>2, <2>4
<1>9. heap \in [Tables -> Seq(Rows)]
  BY DEF HeapGood
<1>10. hp[w.table] = h2 /\ \A t \in Tables : t # w.table => hp[t] = heap[t]
  BY <1>1, <1>9, SMTT(30) DEF HeapWith
<1>11. Progress(hp, "run", w, next.scan, count + 1, before, exact)
  BY <1>1, <1>4, <1>6, <1>10, ZenonT(30) DEF Progress
<1> QED BY <1>8, <1>11

\* An UPDATE whose row throws.
LEMMA FailedProgress ==
  ASSUME HeapGood, NEW w, NEW scan, NEW count, NEW before, NEW exact, w.kind = "update",
         Progress(heap, "run", w, scan, count, before, exact),
         NEW b \in Seq(Rows), b = before[w.table], NEW h \in Seq(Rows), h = heap[w.table],
         NEW next, next = NextRow(heap[w.source], scan), next.slot # End, ~next.died,
         Thrown \in Range(UpdatedRow(w, h[next.slot]))
  PROVE  Progress(heap, "failed", w, scan, count, before, exact)
<1>1. w.table \in Tables /\ w.source = w.table
  BY DatabaseAssumption DEF Progress, BoundWrite
<1>2. ~ReadsOwnRows(w, before)
  BY DEF ReadsOwnRows
<1>3. PICK i : i = next.slot
  OBVIOUS
<1>4. /\ h[i] = b[i] /\ i \in Matching(w, before)
      /\ \A x \in Done(w, before, scan) : x < i
      /\ exact => \A x \in Matching(w, before) : x < i => x \in Done(w, before, scan)
  BY <1>1, <1>2, <1>3, ReadNext
<1>5. FailedAt(w, before, scan, exact)
  BY <1>3, <1>4 DEF FailedAt
<1> QED BY <1>5 DEF Progress

\* A row of an INSERT.
LEMMA GrownProgress ==
  ASSUME HeapGood, NEW w, NEW scan, NEW count, NEW before, NEW exact, w.kind = "insert",
         Progress(heap, "run", w, scan, count, before, exact),
         NEW h \in Seq(Rows), h = heap[w.table], NEW src \in Seq(Rows), src = heap[w.source],
         NEW next, next = NextRow(src, scan), next.slot # End, ~next.died,
         NEW h2, h2 = IF Len(h) < MaxSlots THEN Append(h, src[next.slot]) ELSE h,
         NEW hp, hp = HeapWith(w.table, h2)
  PROVE  /\ h2 \in Seq(Rows) /\ Len(h2) <= MaxSlots /\ Len(h2) >= Len(h)
         /\ Progress(hp, "run", w, next.scan, IF Len(h) < MaxSlots THEN count + 1 ELSE count, before, exact)
<1>1. /\ w.table \in Tables /\ w.source \in Tables /\ w \in WriteStatements /\ before \in [Tables -> Seq(Rows)]
  BY DatabaseAssumption DEF Progress, BoundWrite
<1>2. PICK i, row, scan2, n : /\ i = next.slot /\ row = src[next.slot] /\ scan2 = next.scan
                              /\ n = IF Len(h) < MaxSlots THEN count + 1 ELSE count
  OBVIOUS
<1>3. PICK b \in Seq(Rows) : b = before[w.source]
  BY <1>1
<1>4. /\ i \in 1 .. Len(src) /\ src[i] # Deleted
      /\ ScanGood(w, before, scan2)
      /\ exact => ExactGood(w, before, scan2)
      /\ ~ReadsOwnRows(w, before) =>
           /\ i \in 1 .. Len(b) /\ src[i] = b[i]
           /\ Done(w, before, scan2) = Done(w, before, scan) \cup {i}
           /\ \A x \in Done(w, before, scan) : x < i
           /\ scan2.type = scan.type
           /\ scan.type # "index" => scan.at # End /\ scan2.at = NextLive(src, i)
  BY <1>2, <1>3, ReadNext, SMTT(30)
<1>5. i \in Live(src) /\ row \in Rows /\ row = src[i]
  BY <1>2, <1>4 DEF Live
<1>6. heap \in [Tables -> Seq(Rows)] /\ \A t \in Tables : Len(heap[t]) <= MaxSlots
  BY DEF HeapGood
<1>7. Grown(w, before, scan, count, heap[w.table])
  BY DEF Progress
<1>8. /\ h2 \in Seq(Rows) /\ Len(h2) <= MaxSlots /\ Len(h2) >= Len(heap[w.table])
      /\ Grown(w, before, scan2, IF Len(heap[w.table]) < MaxSlots THEN count + 1 ELSE count, h2)
  <2>1. ~ReadsOwnRows(w, before) =>
           /\ i \in 1 .. Len(before[w.source]) /\ row = before[w.source][i] /\ i \in Live(heap[w.source])
           /\ Done(w, before, scan2) = Done(w, before, scan) \cup {i}
           /\ \A x \in Done(w, before, scan) : x < i
           /\ scan2.type = scan.type
           /\ scan.type # "index" => scan.at # End /\ scan2.at = NextLive(heap[w.source], i)
    BY <1>3, <1>4, <1>5
  <2>2. i \in 1 .. Len(heap[w.source]) /\ row = heap[w.source][i]
    BY <1>4, <1>5
  <2>3. h2 = IF Len(heap[w.table]) < MaxSlots THEN Append(heap[w.table], row) ELSE heap[w.table]
    BY <1>2
  <2> QED BY <1>1, <1>5, <1>6, <1>7, <2>1, <2>2, <2>3, GrownStep
<1>9. Grown(w, before, scan2, n, h2)
  BY <1>2, <1>8
<1>10. hp[w.table] = h2 /\ \A t \in Tables : t # w.table => hp[t] = heap[t]
  BY <1>1, <1>6, SMTT(30) DEF HeapWith
<1>11. Progress(hp, "run", w, scan2, n, before, exact)
  BY <1>1, <1>4, <1>9, <1>10, ZenonT(30) DEF Progress
<1> QED BY <1>2, <1>8, <1>11

LEMMA SameHeap ==
  ASSUME HeapGood, NEW t \in Tables
  PROVE  heap = HeapWith(t, heap[t])
BY DEF HeapGood, HeapWith

LEMMA StepKeeps ==
  ASSUME DbInv, Step
  PROVE  DbInv'
<1>1. stmt.phase = "run" /\ UNCHANGED statements /\ HeapGood /\ StmtGood
  BY DEF Step, DbInv
<1>2. PICK w, plan, scan, count, before, exact :
        /\ stmt = Statement("run", w, plan, scan, count, before, exact)
        /\ Progress(heap, "run", w, scan, count, before, exact)
  BY <1>1, StatementOf
<1>3. stmt.write = w /\ stmt.scan = scan /\ stmt.count = count
  BY <1>2, StatementParts
<1>4. w \in WriteStatements /\ BoundWrite(w) /\ w.table \in Tables /\ w.source \in Tables
  BY <1>2, DatabaseAssumption DEF Progress, BoundWrite
<1>5. PICK h \in Seq(Rows), src \in Seq(Rows), old \in Seq(Rows), b \in Seq(Rows) :
        /\ h = heap[w.table] /\ src = heap[w.source] /\ old = before[w.table] /\ b = before[w.source]
  BY <1>1, <1>2, <1>4 DEF HeapGood, Progress
<1>6. PICK next : next = NextRow(src, scan)
  OBVIOUS
<1>7. Len(h) \in Nat /\ Len(h) <= MaxSlots
  BY <1>1, <1>4, <1>5 DEF HeapGood
<1>8. \/ /\ next.slot = End \/ next.died
         /\ stmt' = InPhase(stmt, IF next.died THEN "died" ELSE "done")
         /\ UNCHANGED <<heap, fresh, catalogVars>>
      \/ /\ next.slot # End /\ ~next.died
         /\ DeleteRow(next) \/ UpdateRow(next) \/ InsertRow(next)
  BY <1>3, <1>5, <1>6 DEF Step, InPhase
\* Nothing but the statement changes.
<1>9. ASSUME NEW phase, phase # "idle", NEW scan2, UNCHANGED <<heap, fresh, catalogVars>>,
             stmt' = Statement(phase, w, plan, scan2, count, before, exact),
             Progress(heap, phase, w, scan2, count, before, exact)
      PROVE  DbInv'
  <2>1. heap' = heap /\ fresh' = fresh /\ UNCHANGED catalogVars
    BY <1>9
  <2>2. heap' = HeapWith(w.table, h)
    BY <1>1, <1>4, <1>5, <2>1, SameHeap
  <2>3. Progress(heap', phase, w, scan2, count, before, exact)
    BY <1>9, <2>1
  <2>4. Len(h) >= Len(heap[w.table]) /\ \A o \in fresh' : o \in fresh /\ (indexes_[o].table # w.table \/ h = heap[w.table])
    BY <1>5, <1>7, <2>1
  <2> QED BY <1>1, <1>4, <1>7, <1>9, <2>1, <2>2, <2>3, <2>4, MovesOn, SMTT(30)
\* A heap changes.
<1>10. ASSUME NEW h2 \in Seq(Rows), Len(h2) <= MaxSlots, Len(h2) >= Len(h), NEW scan2, NEW n, Written(h2, scan2, n),
              \A hp : hp = HeapWith(w.table, h2) => Progress(hp, "run", w, scan2, n, before, exact)
       PROVE  DbInv'
  <2>1. /\ heap' = HeapWith(w.table, h2) /\ stmt' = ScanCount(stmt, scan2, n)
        /\ fresh' = {o \in fresh : indexes_[o].table # w.table} /\ UNCHANGED catalogVars
    BY <1>3, <1>10 DEF Written, HeapWith, ScanCount
  <2>2. stmt' = Statement("run", w, plan, scan2, n, before, exact)
    BY <1>2, <2>1, StatementChange
  <2>3. Progress(heap', "run", w, scan2, n, before, exact)
    BY <1>10, <2>1
  <2>4. Len(h2) >= Len(heap[w.table]) /\ \A o \in fresh' : o \in fresh /\ (indexes_[o].table # w.table \/ h2 = heap[w.table])
    BY <1>5, <1>10, <2>1
  <2> QED BY <1>1, <1>4, <1>10, <2>1, <2>2, <2>3, <2>4, MovesOn
<1>11. CASE /\ next.slot = End \/ next.died
            /\ stmt' = InPhase(stmt, IF next.died THEN "died" ELSE "done")
            /\ UNCHANGED <<heap, fresh, catalogVars>>
  <2>1. CASE next.slot = End
    <3>1. Len(b) \in Nat /\ Len(b) <= Len(src)
      <4>1. CASE w.kind # "insert"
        BY <1>2, <1>4, <1>5, <4>1 DEF Progress, Changed, BoundWrite
      <4>2. CASE w.kind = "insert" /\ w.source = w.table
        BY <1>2, <1>5, <4>2 DEF Progress, Grown
      <4>3. CASE w.source # w.table
        BY <1>2, <1>4, <1>5, <4>3 DEF Progress
      <4> QED BY <4>1, <4>2, <4>3
    <3>2. ScanGood(w, before, scan)
      BY <1>2 DEF Progress
    <3>3. Len(before[w.source]) \in Nat /\ Len(before[w.source]) <= Len(src)
      BY <1>5, <3>1
    <3>4. Hits(src, scan) = {} /\ ~next.died
      BY <1>6, <2>1, <3>2, <3>3, NextRowIs
    <3>5. stmt' = Statement("done", w, plan, scan, count, before, exact)
      BY <1>2, <1>11, <3>4, StatementChange
    <3>6. Progress(heap, "done", w, scan, count, before, exact)
      BY <1>2, <1>5, <3>4 DEF Progress
    <3> QED BY <1>9, <1>11, <3>5, <3>6
  <2>2. CASE next.slot # End /\ next.died
    <3>1. ~exact
      BY <1>1, <1>2, <1>5, <1>6, <2>2, ReadNext
    <3>2. stmt' = Statement("died", w, plan, scan, count, before, exact)
      BY <1>2, <1>11, <2>2, StatementChange
    <3>3. Progress(heap, "died", w, scan, count, before, exact)
      BY <1>2, <3>1 DEF Progress
    <3> QED BY <1>9, <1>11, <3>2, <3>3
  <2> QED BY <1>11, <2>1, <2>2
<1>12. CASE next.slot # End /\ ~next.died /\ DeleteRow(next)
  <2>1. w.kind = "delete" /\ w.source = w.table
    BY <1>3, <1>4, <1>12 DEF DeleteRow, BoundWrite
  <2>2. PICK h2 : h2 = UpdateTuple(h, next.slot, NewRow(w, old[next.slot]))
    OBVIOUS
  <2>3. Written(h2, next.scan, count + 1)
    BY <1>3, <1>5, <1>12, <2>1, <2>2 DEF DeleteRow, NewRow, UpdateTuple
  <2>4. next = NextRow(heap[w.source], scan)
    BY <1>5, <1>6
  <2>5. ASSUME NEW hp, hp = HeapWith(w.table, h2)
        PROVE  h2 \in Seq(Rows) /\ Len(h2) = Len(h) /\ Progress(hp, "run", w, next.scan, count + 1, before, exact)
    BY <1>1, <1>2, <1>5, <1>12, <2>1, <2>2, <2>4, <2>5, ChangedProgress
  <2>6. h2 \in Seq(Rows) /\ Len(h2) = Len(h)
    BY <2>5
  <2> QED BY <1>7, <1>10, <2>3, <2>5, <2>6, SMTT(30)
<1>13. CASE next.slot # End /\ ~next.died /\ UpdateRow(next)
  <2>1. w.kind = "update" /\ w.source = w.table
    BY <1>3, <1>4, <1>13 DEF UpdateRow, BoundWrite
  <2>2. next = NextRow(heap[w.source], scan)
    BY <1>5, <1>6
  <2>3. PICK values : values = UpdatedRow(w, h[next.slot])
    OBVIOUS
  <2>4. IF Thrown \in Range(values)
        THEN /\ stmt' = InPhase(stmt, "failed")
             /\ UNCHANGED <<heap, fresh, catalogVars>>
        ELSE Written(UpdateTuple(h, next.slot, Serialize(values)), next.scan, count + 1)
    BY <1>3, <1>5, <1>13, <2>3 DEF UpdateRow, UpdatedRow, TupleAt, InPhase
  <2>5. CASE Thrown \in Range(values)
    <3>1. Progress(heap, "failed", w, scan, count, before, exact)
      BY <1>1, <1>2, <1>5, <1>13, <2>1, <2>2, <2>3, <2>5, FailedProgress
    <3>2. stmt' = Statement("failed", w, plan, scan, count, before, exact)
      BY <1>2, <2>4, <2>5, StatementChange
    <3> QED BY <1>9, <2>4, <2>5, <3>1, <3>2
  <2>6. CASE Thrown \notin Range(values)
    <3>1. h[next.slot] = old[next.slot]
      <4>1. ~ReadsOwnRows(w, before)
        BY <2>1 DEF ReadsOwnRows
      <4> QED BY <1>1, <1>2, <1>5, <1>6, <1>13, <2>1, <4>1, ReadNext
    <3>2. PICK h2 : h2 = UpdateTuple(h, next.slot, NewRow(w, old[next.slot]))
      OBVIOUS
    <3>3. Written(h2, next.scan, count + 1)
      BY <2>1, <2>3, <2>4, <2>6, <3>1, <3>2 DEF NewRow
    <3>4. Thrown \notin Range(UpdatedRow(w, old[next.slot]))
      BY <2>3, <2>6, <3>1
    <3>5. ASSUME NEW hp, hp = HeapWith(w.table, h2)
          PROVE  h2 \in Seq(Rows) /\ Len(h2) = Len(h) /\ Progress(hp, "run", w, next.scan, count + 1, before, exact)
      BY <1>1, <1>2, <1>5, <1>13, <2>1, <2>2, <3>2, <3>4, <3>5, ChangedProgress
    <3>6. h2 \in Seq(Rows) /\ Len(h2) = Len(h)
      BY <3>5
    <3> QED BY <1>7, <1>10, <3>3, <3>5, <3>6
  <2> QED BY <2>5, <2>6
<1>14. CASE next.slot # End /\ ~next.died /\ InsertRow(next)
  <2>1. w.kind = "insert"
    BY <1>3, <1>14 DEF InsertRow
  <2>2. IF Len(h) < MaxSlots
        THEN Written(Append(h, src[next.slot]), next.scan, count + 1)
        ELSE /\ stmt' = ScanAt(stmt, next.scan)
             /\ UNCHANGED <<heap, fresh, catalogVars>>
    BY <1>3, <1>5, <1>14 DEF InsertRow, ScanAt
  <2>3. PICK h2, n : /\ h2 = IF Len(h) < MaxSlots THEN Append(h, src[next.slot]) ELSE h
                     /\ n = IF Len(h) < MaxSlots THEN count + 1 ELSE count
    OBVIOUS
  <2>4. ASSUME NEW hp, hp = HeapWith(w.table, h2)
        PROVE  /\ h2 \in Seq(Rows) /\ Len(h2) <= MaxSlots /\ Len(h2) >= Len(h)
               /\ Progress(hp, "run", w, next.scan, n, before, exact)
    BY <1>1, <1>2, <1>5, <1>6, <1>14, <2>1, <2>3, <2>4, GrownProgress, ZenonT(60)
  <2>5. h2 \in Seq(Rows) /\ Len(h2) <= MaxSlots /\ Len(h2) >= Len(h)
    BY <2>4
  <2>6. CASE Len(h) < MaxSlots
    <3>1. Written(h2, next.scan, n)
      BY <2>2, <2>3, <2>6
    <3> QED BY <1>10, <2>4, <2>5, <3>1
  <2>7. CASE ~(Len(h) < MaxSlots)
    <3>1. h2 = h /\ n = count
      BY <2>3, <2>7
    <3>2. heap = HeapWith(w.table, h2)
      BY <1>1, <1>4, <1>5, <3>1, SameHeap
    <3>3. Progress(heap, "run", w, next.scan, count, before, exact)
      BY <2>4, <3>1, <3>2
    <3>4. stmt' = Statement("run", w, plan, next.scan, count, before, exact)
      BY <1>2, <2>2, <2>7, StatementChange
    <3> QED BY <1>9, <2>2, <2>7, <3>3, <3>4
  <2> QED BY <2>6, <2>7
<1> QED BY <1>8, <1>11, <1>12, <1>13, <1>14

\* The heaps and the catalog stay.
LEMMA DataStays ==
  ASSUME DbInv, UNCHANGED <<heap, fresh, catalogVars>>
  PROVE  HeapGood' /\ IndexesGood' /\ FreshGood' /\ CatalogGood(indexes_, index_names_)'
<1>1. /\ heap' = heap /\ fresh' = fresh
      /\ indexes_' = indexes_ /\ index_names_' = index_names_ /\ next_index_oid_' = next_index_oid_
  BY DEF catalogVars
<1>2. HeapGood'
  BY <1>1 DEF DbInv, HeapGood
<1>3. IndexesGood'
  BY <1>1 DEF DbInv, IndexesGood
<1>4. FreshGood'
  BY <1>1 DEF DbInv, FreshGood
<1>5. CatalogGood(indexes_, index_names_)'
  BY <1>1 DEF DbInv, CatalogGood
<1> QED BY <1>2, <1>3, <1>4, <1>5

LEMMA ReplyKeeps ==
  ASSUME DbInv, Reply
  PROVE  DbInv'
<1>1. stmt' = Idle /\ statements' = statements /\ UNCHANGED <<heap, fresh, catalogVars>>
  BY DEF Reply
<1>2. HeapGood' /\ IndexesGood' /\ FreshGood' /\ CatalogGood(indexes_, index_names_)'
  BY <1>1, DataStays
<1>3. StmtGood'
  BY <1>1 DEF StmtGood
<1>4. (statements \in 0 .. MaxStatements)'
  BY <1>1 DEF DbInv
<1> QED BY <1>2, <1>3, <1>4 DEF DbInv

LEMMA StutterKeeps ==
  ASSUME DbInv, UNCHANGED dbVars
  PROVE  DbInv'
<1>1. UNCHANGED <<heap, fresh, catalogVars>> /\ stmt' = stmt /\ statements' = statements /\ heap' = heap
  BY DEF dbVars, catalogVars
<1>2. HeapGood' /\ IndexesGood' /\ FreshGood' /\ CatalogGood(indexes_, index_names_)'
  BY <1>1, DataStays
<1>3. StmtGood'
  BY <1>1 DEF StmtGood, DbInv
<1>4. (statements \in 0 .. MaxStatements)'
  BY <1>1 DEF DbInv
<1> QED BY <1>2, <1>3, <1>4 DEF DbInv

LEMMA BeginKeeps ==
  ASSUME DbInv, NEW w \in WriteStatements, Begin(w), UNCHANGED catalogVars,
         (statements \in 0 .. MaxStatements)'
  PROVE  DbInv'
<1>1. heap' = heap /\ UNCHANGED <<heap, fresh, catalogVars>>
  BY DEF Begin
<1>2. HeapGood' /\ IndexesGood' /\ FreshGood' /\ CatalogGood(indexes_, index_names_)'
  BY <1>1, DataStays
<1>3. PICK plan \in ScanPlans(w.source, w.pred) :
        stmt' = Statement("run", w, plan, InitScan(w.source, w.pred, plan), 0, heap, FreshPlan(plan))
  BY DEF Begin, Statement
<1>4. PICK scan, exact : scan = InitScan(w.source, w.pred, plan) /\ exact = FreshPlan(plan)
  OBVIOUS
<1>5. Progress(heap, "run", w, scan, 0, heap, exact)
  BY <1>4, StartProgress DEF DbInv
<1>6. PICK s : s = stmt'
  OBVIOUS
<1>7. s = Statement("run", w, plan, scan, 0, heap, exact)
  BY <1>3, <1>4, <1>6
<1>8. /\ s.phase = "run" /\ s.write = w /\ s.scan = scan /\ s.count = 0 /\ s.before = heap /\ s.exact = exact
      /\ s = [phase |-> s.phase, write |-> s.write, plan |-> s.plan, scan |-> s.scan,
              count |-> s.count, before |-> s.before, exact |-> s.exact]
  BY <1>7, StatementParts
<1>9. Progress(heap', s.phase, s.write, s.scan, s.count, s.before, s.exact)
  BY <1>1, <1>5, <1>8
<1>10. StmtGood'
  BY <1>6, <1>8, <1>9, Zenon DEF StmtGood
<1> QED BY <1>2, <1>10 DEF DbInv

\* The map that CREATE INDEX builds.
LEMMA NewMapGood ==
  ASSUME NEW h \in Seq(Rows), NEW attrs, NEW map,
         map = IF SupportsPointLookup(attrs) THEN BuildMap(h, attrs[1]) ELSE <<>>,
         NEW info, info.attrs = attrs, info.map = map
  PROVE  Finds(info, h) /\ \A k \in DOMAIN map : Ascending(map[k], Len(h))
<1>1. CASE ~SupportsPointLookup(attrs)
  <2>1. map = <<>>
    BY <1>1
  <2> QED BY <1>1, <2>1 DEF Finds
<1>2. CASE SupportsPointLookup(attrs)
  <2> DEFINE Having(k) == {i \in Live(h) : h[i][attrs[1]] = k}
  <2>1. map = BuildMap(h, attrs[1])
    BY <1>2
  <2>2. /\ DOMAIN map = {h[i][attrs[1]] : i \in Live(h)}
        /\ \A k \in DOMAIN map : map[k] = InOrder(Having(k), Len(h))
    BY <2>1 DEF BuildMap
  <2>3. Len(h) \in Nat /\ Live(h) \subseteq 1 .. Len(h)
    BY DEF Live
  <2>4. \A k : \A i : i \in Having(k) <=> i \in Live(h) /\ h[i][attrs[1]] = k
    OBVIOUS
  <2> HIDE DEF Having
  <2>5. ASSUME NEW k \in DOMAIN map PROVE Lists(map[k], Having(k), Len(h))
    BY <2>2, <2>3, InOrderLists
  <2>6. ASSUME NEW k \in DOMAIN map PROVE Ascending(map[k], Len(h))
    BY <2>5 DEF Lists, Ascending
  <2>7. ASSUME NEW i \in Live(h)
        PROVE  /\ h[i][attrs[1]] \in DOMAIN map
               /\ \E j \in 1 .. Len(map[h[i][attrs[1]]]) : map[h[i][attrs[1]]][j] = i
    <3>1. PICK k : k = h[i][attrs[1]]
      OBVIOUS
    <3>2. k \in DOMAIN map /\ i \in Having(k) /\ i \in 1 .. Len(h)
      BY <2>2, <2>3, <2>4, <3>1
    <3>3. \E j \in 1 .. Len(map[k]) : map[k][j] = i
      BY <2>5, <3>2 DEF Lists
    <3> QED BY <3>1, <3>2, <3>3
  <2>8. ASSUME NEW k \in DOMAIN map, NEW j \in 1 .. Len(map[k]) PROVE map[k][j] \in Live(h)
    BY <2>4, <2>5 DEF Lists
  <2> QED BY <2>6, <2>7, <2>8, Zenon DEF Finds
<1> QED BY <1>1, <1>2

LEMMA IdleStatement ==
  ASSUME StmtGood, stmt.phase = "idle"
  PROVE  stmt = Idle
BY DEF StmtGood, Progress

LEMMA CreateIndexKeeps ==
  ASSUME DbInv, NEW t \in Tables, NEW name, NEW attrs, CreateIndex(t, name, attrs),
         UNCHANGED <<heap, stmt>>, stmt = Idle, (statements \in 0 .. MaxStatements)'
  PROVE  DbInv'
<1> DEFINE oid == next_index_oid_
<1>0. PICK h \in Seq(Rows) : h = heap[t]
  BY DEF DbInv, HeapGood
<1>1. PICK map, info, old, own :
        /\ map = IF SupportsPointLookup(attrs) THEN BuildMap(h, attrs[1]) ELSE <<>>
        /\ info = [name |-> name, table |-> t, attrs |-> attrs, map |-> map]
        /\ old = IF t \in DOMAIN index_names_ THEN index_names_[t] ELSE <<>>
        /\ own = With(old, name, oid)
  OBVIOUS
<1>2. /\ GetIndex(t, name) = 0 /\ indexes_' = With(indexes_, oid, info) /\ index_names_' = With(index_names_, t, own)
      /\ next_index_oid_' = oid + 1 /\ fresh' = fresh \cup {oid} /\ heap' = heap /\ stmt' = stmt
  BY <1>0, <1>1 DEF CreateIndex
<1>3. /\ oid \in Nat /\ oid >= 1 /\ DOMAIN indexes_ \subseteq 1 .. oid - 1 /\ fresh \subseteq DOMAIN indexes_
      /\ CatalogGood(indexes_, index_names_)
  BY DEF DbInv, IndexesGood
<1>4. oid \notin DOMAIN indexes_
  BY <1>3
<1>5. info.table = t /\ info.name = name /\ info.attrs = attrs /\ info.map = map
  BY <1>1
<1>6. Finds(info, h) /\ \A k \in DOMAIN map : Ascending(map[k], Len(h))
  BY <1>1, <1>5, NewMapGood
<1>7. ~(t \in DOMAIN index_names_ /\ name \in DOMAIN index_names_[t])
  <2> SUFFICES ASSUME t \in DOMAIN index_names_, name \in DOMAIN index_names_[t] PROVE FALSE
    OBVIOUS
  <2>1. index_names_[t][name] = 0
    BY <1>2 DEF GetIndex
  <2>2. index_names_[t][name] \in DOMAIN indexes_
    BY <1>3 DEF CatalogGood
  <2> QED BY <1>3, <2>1, <2>2
<1>8. /\ DOMAIN indexes_' = DOMAIN indexes_ \cup {oid} /\ indexes_'[oid] = info
      /\ \A o \in DOMAIN indexes_ : indexes_'[o] = indexes_[o]
  BY <1>2, <1>4 DEF With
<1> HIDE DEF oid
<1>9. CatalogGood(indexes_, index_names_)'
  <2>1. PICK oids2, names2 : oids2 = indexes_' /\ names2 = index_names_'
    OBVIOUS
  <2>2. CatalogGood(oids2, names2)
    BY <1>1, <1>2, <1>3, <1>4, <1>5, <1>7, <2>1, AddIndexGood
  <2> QED BY <2>1, <2>2
<1>10. HeapGood'
  BY <1>2 DEF DbInv, HeapGood
<1>11. IndexesGood'
  <2>1. ASSUME NEW o \in DOMAIN indexes_'
        PROVE  /\ indexes_'[o].table \in Tables
               /\ \A k \in DOMAIN indexes_'[o].map : Ascending(indexes_'[o].map[k], Len(heap'[indexes_'[o].table]))
    <3>1. CASE o = oid
      <4>1. indexes_'[o].table = t /\ indexes_'[o].map = map /\ heap'[t] = h
        BY <1>0, <1>2, <1>5, <1>8, <3>1
      <4> QED BY <1>6, <4>1
    <3>2. CASE o # oid
      <4>1. o \in DOMAIN indexes_ /\ indexes_'[o] = indexes_[o]
        BY <1>8, <3>2
      <4> QED BY <1>2, <4>1 DEF DbInv, IndexesGood
    <3> QED BY <3>1, <3>2
  <2>2. next_index_oid_' \in Nat /\ next_index_oid_' >= 1 /\ DOMAIN indexes_' \subseteq 1 .. next_index_oid_' - 1
    BY <1>2, <1>3, <1>8
  <2>3. fresh' \subseteq DOMAIN indexes_'
    BY <1>2, <1>3, <1>8
  <2> QED BY <2>1, <2>2, <2>3 DEF IndexesGood
<1>12. FreshGood'
  <2>1. ASSUME NEW o \in fresh' PROVE Finds(indexes_'[o], heap'[indexes_'[o].table])
    <3>1. CASE o = oid
      BY <1>0, <1>2, <1>5, <1>6, <1>8, <3>1
    <3>2. CASE o # oid
      <4>1. o \in fresh /\ o \in DOMAIN indexes_ /\ indexes_'[o] = indexes_[o]
        BY <1>2, <1>3, <1>8, <3>2
      <4>2. Finds(indexes_[o], heap[indexes_[o].table])
        BY <4>1 DEF DbInv, FreshGood
      <4> QED BY <1>2, <4>1, <4>2
    <3> QED BY <3>1, <3>2
  <2> QED BY <2>1 DEF FreshGood
<1>13. StmtGood'
  BY <1>2 DEF StmtGood
<1> QED BY <1>9, <1>10, <1>11, <1>12, <1>13 DEF DbInv

LEMMA DropKeeps ==
  ASSUME DbInv, NEW names \in DropLists, NEW missingOk \in BOOLEAN,
         NEW result, result = DropNames(names, missingOk),
         indexes_' = result.cat.oids, index_names_' = result.cat.names,
         fresh' = fresh \intersect DOMAIN result.cat.oids,
         UNCHANGED <<heap, stmt, next_index_oid_>>, stmt = Idle, (statements \in 0 .. MaxStatements)'
  PROVE  DbInv'
<1>1. Len(names) \in Nat /\ CatalogGood(indexes_, index_names_)
  BY DatabaseAssumption DEF DbInv
<1>2. DropGood(result)
  BY <1>1, DropNamesGood
<1>3. CatalogGood(indexes_, index_names_)'
  BY <1>2 DEF DropGood
<1>4. /\ DOMAIN indexes_' \subseteq DOMAIN indexes_ /\ \A o \in DOMAIN indexes_' : indexes_'[o] = indexes_[o]
      /\ heap' = heap /\ stmt' = stmt /\ next_index_oid_' = next_index_oid_
      /\ fresh' \subseteq fresh /\ fresh' \subseteq DOMAIN indexes_'
  BY <1>2 DEF DropGood, PartOf
<1>5. HeapGood'
  BY <1>4 DEF DbInv, HeapGood
<1>6. IndexesGood'
  <2>1. ASSUME NEW o \in DOMAIN indexes_'
        PROVE  /\ indexes_'[o].table \in Tables
               /\ \A k \in DOMAIN indexes_'[o].map : Ascending(indexes_'[o].map[k], Len(heap'[indexes_'[o].table]))
    <3>1. o \in DOMAIN indexes_ /\ indexes_'[o] = indexes_[o]
      BY <1>4
    <3> QED BY <1>4, <3>1 DEF DbInv, IndexesGood
  <2> QED BY <1>4, <2>1 DEF DbInv, IndexesGood
<1>7. FreshGood'
  <2>1. ASSUME NEW o \in fresh' PROVE Finds(indexes_'[o], heap'[indexes_'[o].table])
    <3>1. o \in fresh /\ indexes_'[o] = indexes_[o]
      BY <1>4
    <3>2. Finds(indexes_[o], heap[indexes_[o].table])
      BY <3>1 DEF DbInv, FreshGood
    <3> QED BY <1>4, <3>1, <3>2
  <2> QED BY <2>1 DEF FreshGood
<1>8. StmtGood'
  BY <1>4 DEF StmtGood
<1> QED BY <1>3, <1>5, <1>6, <1>7, <1>8 DEF DbInv

LEMMA NewStatementKeeps ==
  ASSUME DbInv, NewStatement
  PROVE  DbInv'
<1>1. stmt.phase = "idle" /\ statements < MaxStatements /\ statements' = statements + 1
  BY DEF NewStatement
<1>2. (statements \in 0 .. MaxStatements)'
  BY <1>1, DatabaseAssumption DEF DbInv
<1>3. stmt = Idle
  BY <1>1, IdleStatement DEF DbInv
<1>4. CASE (\E w \in WriteStatements : Begin(w)) /\ UNCHANGED catalogVars
  BY <1>2, <1>4, BeginKeeps
<1>5. CASE /\ \E t \in Tables, name \in IndexNames, attrs \in KeyAttrs : CreateIndex(t, name, attrs)
           /\ UNCHANGED <<heap, stmt>>
  <2>1. PICK t \in Tables, name \in IndexNames, attrs \in KeyAttrs : CreateIndex(t, name, attrs)
    BY <1>5
  <2> QED BY <1>2, <1>3, <1>5, <2>1, CreateIndexKeeps
<1>6. ASSUME NEW names \in DropLists, NEW missingOk \in BOOLEAN, NEW result, result = DropNames(names, missingOk),
             indexes_' = result.cat.oids, index_names_' = result.cat.names,
             fresh' = fresh \intersect DOMAIN result.cat.oids, UNCHANGED <<heap, stmt, next_index_oid_>>
      PROVE  DbInv'
  BY <1>2, <1>3, <1>6, DropKeeps
<1> QED BY <1>4, <1>5, <1>6 DEF NewStatement

LEMMA InitGood ==
  ASSUME DbInit
  PROVE  DbInv
<1>1. heap \in Seeds /\ indexes_ = <<>> /\ index_names_ = <<>> /\ next_index_oid_ = 1
  BY DEF DbInit
<1>2. stmt = Idle /\ statements = 0 /\ fresh = {}
  BY DEF DbInit
<1>3. HeapGood
  BY <1>1, DatabaseAssumption DEF HeapGood
<1>4. DOMAIN indexes_ = {} /\ DOMAIN index_names_ = {}
  BY <1>1
<1>5. IndexesGood
  BY <1>1, <1>2, <1>4 DEF IndexesGood
<1>6. FreshGood /\ StmtGood /\ CatalogGood(indexes_, index_names_)
  BY <1>2, <1>4 DEF FreshGood, StmtGood, CatalogGood
<1>7. statements \in 0 .. MaxStatements
  BY <1>2, DatabaseAssumption
<1> QED BY <1>3, <1>5, <1>6, <1>7 DEF DbInv

\* The invariant holds in every reachable state: the catalog's maps agree, an
\* index that is not stale finds every row, and the running statement has done
\* to its table what its SQL says to the rows its scan is past.
THEOREM DbInvariant == DbSpec => []DbInv
<1>1. DbInit => DbInv
  BY InitGood
<1>2. DbInv /\ [DbNext]_dbVars => DbInv'
  BY NewStatementKeeps, StepKeeps, ReplyKeeps, StutterKeeps DEF DbNext
<1> QED BY <1>1, <1>2, PTL DEF DbSpec

-----------------------------------------------------------------------------
(* What the invariant says about the properties. *)

\* No heap is shorter than it was at the start of the statement.
LEMMA NoShorter ==
  ASSUME NEW hp \in [Tables -> Seq(Rows)], NEW phase, NEW w, NEW scan, NEW count, NEW before, NEW exact,
         Progress(hp, phase, w, scan, count, before, exact)
  PROVE  /\ BoundWrite(w) /\ w.table \in Tables /\ w.source \in Tables
         /\ before[w.source] \in Seq(Rows) /\ Len(before[w.source]) <= Len(hp[w.source])
<1>1. BoundWrite(w) /\ w.table \in Tables /\ w.source \in Tables /\ before \in [Tables -> Seq(Rows)]
  BY DatabaseAssumption DEF Progress, BoundWrite
<1>2. PICK h \in Seq(Rows), b \in Seq(Rows) : h = hp[w.source] /\ b = before[w.source]
  BY <1>1
<1>3. CASE w.source # w.table
  <2>1. h = b
    BY <1>1, <1>2, <1>3 DEF Progress
  <2> QED BY <1>1, <1>2, <2>1
<1>4. CASE w.source = w.table
  <2>1. Len(b) <= Len(h)
    <3>1. CASE w.kind # "insert"
      BY <1>2, <1>4, <3>1 DEF Progress, Changed
    <3>2. CASE w.kind = "insert"
      BY <1>2, <1>4, <3>2 DEF Progress, Grown
    <3> QED BY <3>1, <3>2
  <2> QED BY <1>1, <1>2, <2>1
<1> QED BY <1>3, <1>4

LEMMA AscendingRange ==
  ASSUME NEW r, NEW n \in Nat, Ascending(r, n), NEW h \in Seq(Rows), n <= Len(h)
  PROVE  Range(r) \subseteq DOMAIN h
BY DEF Ascending, Range

LEMMA TypeGood ==
  ASSUME DbInv
  PROVE  DbTypeOK
<1>1. HeapGood /\ IndexesGood /\ StmtGood /\ statements \in 0 .. MaxStatements
  BY DEF DbInv
<1>2. \A t \in Tables : Len(heap[t]) <= MaxSlots /\ \A i \in DOMAIN heap[t] : heap[t][i] \in Rows
  BY <1>1 DEF HeapGood
<1>3. ASSUME NEW o \in DOMAIN indexes_, NEW k \in DOMAIN indexes_[o].map
      PROVE  Range(indexes_[o].map[k]) \subseteq DOMAIN heap[indexes_[o].table]
  <2>1. PICK h \in Seq(Rows) : h = heap[indexes_[o].table]
    BY <1>1 DEF IndexesGood, HeapGood
  <2>2. Ascending(indexes_[o].map[k], Len(h)) /\ Len(h) \in Nat /\ Len(h) <= Len(h)
    BY <1>1, <2>1 DEF IndexesGood
  <2> QED BY <2>1, <2>2, AscendingRange
<1>4. stmt.phase \in Phases
  <2>1. CASE stmt = Idle
    BY <2>1 DEF Idle, Phases
  <2>2. CASE stmt # Idle
    BY <1>1, <2>2 DEF StmtGood, Progress, Phases
  <2> QED BY <2>1, <2>2
<1>5. ASSUME stmt.phase # "idle" PROVE Range(stmt.scan.rids) \subseteq DOMAIN heap[stmt.write.source]
  <2>1. PICK phase, w, scan, count, before, exact :
          /\ w = stmt.write /\ scan = stmt.scan
          /\ Progress(heap, phase, w, scan, count, before, exact)
    BY <1>1, <1>5, StatementOf
  <2>2. heap \in [Tables -> Seq(Rows)]
    BY <1>1 DEF HeapGood
  <2>3. w.source \in Tables /\ before[w.source] \in Seq(Rows) /\ Len(before[w.source]) <= Len(heap[w.source])
    BY <2>1, <2>2, NoShorter
  <2>4. PICK h \in Seq(Rows), n \in Nat : h = heap[w.source] /\ n = Len(before[w.source])
    BY <2>2, <2>3
  <2>5. Ascending(scan.rids, n) /\ n <= Len(h)
    BY <2>1, <2>3, <2>4 DEF Progress, ScanGood
  <2>6. Range(scan.rids) \subseteq DOMAIN h
    BY <2>5, AscendingRange
  <2> QED BY <2>1, <2>4, <2>6
<1> QED BY <1>1, <1>2, <1>3, <1>4, <1>5 DEF DbTypeOK, IndexesGood

LEMMA CatalogFollows ==
  ASSUME DbInv
  PROVE  CatalogConsistent
<1>1. CatalogGood(indexes_, index_names_)
  BY DEF DbInv
<1>2. ASSUME NEW o \in DOMAIN indexes_ PROVE GetIndex(indexes_[o].table, indexes_[o].name) = o
  BY <1>1 DEF CatalogGood, GetIndex
<1> QED BY <1>1, <1>2, TypeGood DEF CatalogConsistent, CatalogGood

\* The catalog's map by name and its map by oid describe the same indexes after
\* any session, so at() on one with what was found in the other never throws
\* (catalog.cpp:94 and :110), also after a DROP INDEX that stopped half-way.
THEOREM CatalogStaysConsistent == DbSpec => []CatalogConsistent
BY DbInvariant, CatalogFollows, PTL

\* h is b with the rows of done changed.
ChangedIn(w, b, done, h) ==
  Len(h) = Len(b) /\ \A i \in 1 .. Len(h) : h[i] = IF i \in done THEN NewRow(w, b[i]) ELSE b[i]

\* The heap of the table of a DELETE or UPDATE when the rows of done have changed.
LEMMA HeapAfterIs ==
  ASSUME NEW w, w.kind \in {"delete", "update"}, NEW before, NEW b \in Seq(Rows), b = before[w.table],
         NEW done, NEW h \in Seq(Rows), ChangedIn(w, b, done, h)
  PROVE  h = HeapAfter(w, before, done)
<1>0. Len(h) = Len(b) /\ \A i \in 1 .. Len(h) : h[i] = IF i \in done THEN NewRow(w, b[i]) ELSE b[i]
  BY DEF ChangedIn
<1>1. CASE w.kind = "delete"
  <2>1. HeapAfter(w, before, done) = [i \in DOMAIN b |-> IF i \in done THEN Deleted ELSE b[i]]
    BY <1>1 DEF HeapAfter
  <2>2. \A i \in 1 .. Len(h) : h[i] = IF i \in done THEN Deleted ELSE b[i]
    BY <1>0, <1>1 DEF NewRow
  <2>3. DOMAIN h = 1 .. Len(h) /\ DOMAIN b = 1 .. Len(h)
    BY <1>0
  <2> QED BY <2>1, <2>2, <2>3
<1>2. CASE w.kind = "update"
  <2>1. HeapAfter(w, before, done) = [i \in DOMAIN b |-> IF i \in done THEN Serialize(UpdatedRow(w, b[i])) ELSE b[i]]
    BY <1>2 DEF HeapAfter
  <2>2. \A i \in 1 .. Len(h) : h[i] = IF i \in done THEN Serialize(UpdatedRow(w, b[i])) ELSE b[i]
    BY <1>0, <1>2 DEF NewRow
  <2>3. DOMAIN h = 1 .. Len(h) /\ DOMAIN b = 1 .. Len(h)
    BY <1>0
  <2> QED BY <2>1, <2>2, <2>3
<1> QED BY <1>1, <1>2

LEMMA StaleFollows ==
  ASSUME DbInv
  PROVE  StaleIndexSound
<1> SUFFICES ASSUME stmt.phase # "idle", stmt.write.kind # "insert" PROVE StaleIndexSound
  BY DEF StaleIndexSound
<1>1. HeapGood /\ StmtGood
  BY DEF DbInv
<1>2. PICK phase, w, scan, count, before, exact :
        /\ w = stmt.write /\ scan = stmt.scan /\ count = stmt.count /\ before = stmt.before
        /\ Progress(heap, phase, w, scan, count, before, exact)
  BY <1>1, StatementOf
<1>3. BoundWrite(w) /\ w.kind \in {"delete", "update"} /\ w.source = w.table /\ w.table \in Tables
  BY <1>2, DatabaseAssumption DEF Progress, BoundWrite
<1>4. PICK h \in Seq(Rows), b \in Seq(Rows) : h = heap[w.table] /\ b = before[w.table]
  BY <1>1, <1>2, <1>3 DEF HeapGood, Progress
<1>5. Changed(w, before, scan, count, h)
  BY <1>2, <1>3, <1>4 DEF Progress
<1> DEFINE D == Done(w, before, scan)
           touched == {i \in DOMAIN h : h[i] # b[i]}
<1>6. D \subseteq Matching(w, before)
  BY DEF Done
<1>7. /\ Len(h) = Len(b) /\ count = Cardinality(D)
      /\ \A i \in 1 .. Len(h) : h[i] = IF i \in D THEN NewRow(w, b[i]) ELSE b[i]
  BY <1>4, <1>5 DEF Changed
<1>8. IsFiniteSet(D)
  <2>1. IsFiniteSet(Matching(w, before))
    BY <1>3, <1>4, MatchingFinite
  <2> HIDE DEF D
  <2> QED BY <1>6, <2>1, FS_Subset
<1> HIDE DEF D
<1>9. touched \subseteq D
  BY <1>7
<1>10. ChangedIn(w, b, touched, h)
  BY <1>7 DEF ChangedIn
<1> HIDE DEF touched
<1>11. h = HeapAfter(w, before, touched)
  BY <1>3, <1>4, <1>10, HeapAfterIs
<1>12. Cardinality(touched) <= Cardinality(D)
  BY <1>8, <1>9, FS_Subset
<1>13. /\ touched \subseteq Matching(w, before) /\ h = HeapAfter(w, before, touched) /\ Cardinality(touched) <= count
  BY <1>6, <1>7, <1>9, <1>11, <1>12
<1> QED BY <1>2, <1>4, <1>13, Zenon DEF StaleIndexSound, touched

\* A DELETE or UPDATE, finished or not and through whatever index, has changed
\* only rows that its predicate selected, each at most once, because the index
\* scan evaluates the predicate again on the row that it finds
\* (index_scan_executor.cpp:39-44).
THEOREM StaleIndexesAreSound == DbSpec => []StaleIndexSound
BY DbInvariant, StaleFollows, PTL

\* Sequences.
LEMMA Element ==
  ASSUME NEW T, NEW r \in Seq(T), NEW m \in 1 .. Len(r)
  PROVE  r[m] \in T
OBVIOUS

LEMMA SameElements ==
  ASSUME NEW T, NEW r \in Seq(T), NEW q \in Seq(T), Len(r) = Len(q), \A i \in 1 .. Len(r) : r[i] = q[i]
  PROVE  r = q
OBVIOUS

LEMMA FunctionIsSequence ==
  ASSUME NEW T, NEW n \in Nat, NEW f \in [1 .. n -> T]
  PROVE  f \in Seq(T) /\ Len(f) = n
<1>1. f \in Seq(T)
  BY DEF Seq
<1>2. Len(f) \in Nat /\ DOMAIN f = 1 .. Len(f) /\ DOMAIN f = 1 .. n
  BY <1>1
<1> QED BY <1>1, <1>2

\* all is r and then q.
IsJoin(all, r, q) ==
  /\ all \in Seq(Rows) /\ Len(all) = Len(r) + Len(q)
  /\ \A i \in 1 .. Len(r) : all[i] = r[i]
  /\ \A k \in 1 .. Len(q) : all[Len(r) + k] = q[k]

LEMMA Joined ==
  ASSUME NEW r \in Seq(Rows), NEW q \in Seq(Rows)
  PROVE  IsJoin(r \o q, r, q)
BY DEF IsJoin

LEMMA ListsLength ==
  ASSUME NEW S, NEW n \in Nat, NEW r, Lists(r, S, n)
  PROVE  Len(r) \in Nat
BY DEF Lists

\* Two lists of the same numbers that agree before m do not differ at m.
LEMMA ListsAgree ==
  ASSUME NEW S, NEW n \in Nat, NEW r, NEW q, Lists(r, S, n), Lists(q, S, n),
         NEW m \in 1 .. Len(r), m \in 1 .. Len(q),
         \A i \in 1 .. Len(r) : i < m => r[i] = q[i]
  PROVE  ~(r[m] < q[m])
<1> SUFFICES ASSUME r[m] < q[m] PROVE FALSE
  OBVIOUS
<1>1. r[m] \in S /\ r[m] \in 1 .. n /\ r[m] \in Int /\ q[m] \in Int /\ Len(r) \in Nat /\ Len(q) \in Nat
  <2>1. r \in Seq(Nat) /\ q \in Seq(Nat)
    BY DEF Lists
  <2>2. r[m] \in S /\ r[m] \in 1 .. n
    BY DEF Lists
  <2>3. q[m] \in Nat /\ r[m] \in Nat
    BY <2>1, Element
  <2>4. q[m] \in Int /\ r[m] \in Int
    BY <2>3
  <2>5. Len(r) \in Nat /\ Len(q) \in Nat
    BY ListsLength
  <2> QED BY <2>2, <2>4, <2>5, Zenon
<1>2. PICK j \in 1 .. Len(q) : q[j] = r[m]
  BY <1>1 DEF Lists
<1>3. j < m
  <2>1. ~(m < j)
    <3> SUFFICES ASSUME m < j PROVE FALSE
      OBVIOUS
    <3>1. q[m] < q[j]
      BY DEF Lists
    <3> QED BY <1>1, <1>2, <3>1
  <2>2. m # j
    BY <1>1, <1>2
  <2> QED BY <2>1, <2>2
<1>4. j \in 1 .. Len(r) /\ r[j] = q[j]
  BY <1>1, <1>3
<1>5. r[j] < r[m]
  BY <1>3, <1>4 DEF Lists
<1> QED BY <1>1, <1>2, <1>4, <1>5

\* Of two lists of the same numbers, none goes on where the other ends.
LEMMA ListsEnd ==
  ASSUME NEW S, NEW n \in Nat, NEW r, NEW q, Lists(r, S, n), Lists(q, S, n),
         \A i \in 1 .. Len(r) : i \in 1 .. Len(q) => r[i] = q[i]
  PROVE  ~(Len(r) < Len(q))
<1> SUFFICES ASSUME Len(r) < Len(q) PROVE FALSE
  OBVIOUS
<1>1. Len(r) \in Nat /\ Len(q) \in Nat
  BY DEF Lists
<1>2. PICK m : m = Len(r) + 1
  OBVIOUS
<1>3. m \in 1 .. Len(q)
  BY <1>1, <1>2
<1>4. q[m] \in S /\ q[m] \in 1 .. n
  BY <1>3 DEF Lists
<1>5. PICK j \in 1 .. Len(r) : r[j] = q[m]
  BY <1>4 DEF Lists
<1>6. j \in 1 .. Len(q) /\ j < m
  BY <1>1, <1>2
<1>7. q[j] = q[m] /\ q[j] < q[m]
  <2>1. q[j] < q[m]
    BY <1>3, <1>6 DEF Lists
  <2> QED BY <1>5, <1>6, <2>1
<1> QED BY <1>4, <1>7

LEMMA ListsUnique ==
  ASSUME NEW S, NEW n \in Nat, NEW r, NEW q, Lists(r, S, n), Lists(q, S, n)
  PROVE  r = q
<1>1. r \in Seq(Nat) /\ q \in Seq(Nat)
  BY DEF Lists
<1> DEFINE bad == {i \in 1 .. Len(r) : i \in 1 .. Len(q) /\ r[i] # q[i]}
<1>2. bad = {}
  <2> SUFFICES ASSUME bad # {} PROVE FALSE
    OBVIOUS
  <2>1. bad \subseteq Nat
    BY <1>1
  <2>2. PICK m \in bad : \A x \in bad : m <= x
    <3> HIDE DEF bad
    <3> QED BY <2>1, LeastNatural
  <2>a. m \in 1 .. Len(r) /\ m \in 1 .. Len(q) /\ r[m] # q[m]
    OBVIOUS
  <2>3. m \in 1 .. Len(r) /\ m \in 1 .. Len(q) /\ r[m] # q[m] /\ r[m] \in Nat /\ q[m] \in Nat
    BY <1>1, <2>a, Element
  <2>b. \A i \in 1 .. Len(r) : i < m => i \notin bad /\ i \in 1 .. Len(q)
    <3> HIDE DEF bad
    <3> QED BY <1>1, <2>1, <2>2, <2>3
  <2>4. \A i \in 1 .. Len(r) : i < m => r[i] = q[i] /\ i \in 1 .. Len(q)
    BY <2>b
  <2>5. \A i \in 1 .. Len(q) : i < m => q[i] = r[i]
    BY <1>1, <2>3, <2>4
  <2> HIDE DEF bad
  <2>6. ~(r[m] < q[m])
    BY <2>3, <2>4, ListsAgree
  <2>7. ~(q[m] < r[m])
    BY <2>3, <2>5, ListsAgree
  <2> QED BY <2>3, <2>6, <2>7
<1>3. \A i \in 1 .. Len(r) : i \in 1 .. Len(q) => r[i] = q[i]
  BY <1>2
<1> HIDE DEF bad
<1>4. \A i \in 1 .. Len(q) : i \in 1 .. Len(r) => q[i] = r[i]
  BY <1>3
<1>5. ~(Len(r) < Len(q)) /\ ~(Len(q) < Len(r))
  BY <1>3, <1>4, ListsEnd
<1>6. Len(r) = Len(q)
  BY <1>1, <1>5
<1>7. \A i \in 1 .. Len(r) : r[i] = q[i]
  BY <1>3, <1>6
<1> QED BY <1>1, <1>6, <1>7, SameElements

LEMMA MinMaxPair ==
  ASSUME NEW a \in Nat, NEW b \in Nat
  PROVE  /\ Min({a, b}) = IF a <= b THEN a ELSE b
         /\ Max({a, b}) = IF a <= b THEN b ELSE a
<1>1. ASSUME NEW m \in {a, b}, \A x \in {a, b} : m <= x PROVE Min({a, b}) = m
  <2>1. Min({a, b}) \in {a, b} /\ \A x \in {a, b} : Min({a, b}) <= x
    BY <1>1 DEF Min
  <2> QED BY <1>1, <2>1
<1>2. ASSUME NEW m \in {a, b}, \A x \in {a, b} : m >= x PROVE Max({a, b}) = m
  <2>1. Max({a, b}) \in {a, b} /\ \A x \in {a, b} : Max({a, b}) >= x
    BY <1>2 DEF Max
  <2> QED BY <1>2, <2>1
<1> QED BY <1>1, <1>2

\* h is old and some rows more.
Starts(h, old) == Len(old) <= Len(h) /\ \A i \in 1 .. Len(old) : h[i] = old[i]

\* The heap of the table of an INSERT that has copied the rows of done.
LEMMA InsertHeapIs ==
  ASSUME NEW w, w.kind = "insert", NEW before, NEW old \in Seq(Rows), old = before[w.table], Len(old) <= MaxSlots,
         NEW b \in Seq(Rows), b = before[w.source], NEW h \in Seq(Rows), Starts(h, old),
         NEW done, NEW q, Lists(q, done, Len(b)), Copied(h, old, b, q)
  PROVE  h = HeapAfter(w, before, done)
<1>1. q = InOrder(done, Len(b))
  <2>1. Len(b) \in Nat
    OBVIOUS
  <2> QED BY <2>1, InOrderLists, ListsUnique
<1>2. q \in Seq(Nat) /\ \A k \in 1 .. Len(q) : q[k] \in 1 .. Len(b)
  BY DEF Lists
<1>3. PICK copies : copies = [k \in DOMAIN q |-> b[q[k]]]
  OBVIOUS
<1>4. copies \in Seq(Rows) /\ Len(copies) = Len(q) /\ \A k \in 1 .. Len(q) : copies[k] = b[q[k]]
  <2>1. PICK n \in Nat : n = Len(q)
    BY <1>2
  <2>2. DOMAIN q = 1 .. n
    BY <1>2, <2>1
  <2>3. copies = [k \in 1 .. n |-> b[q[k]]]
    BY <1>3, <2>2
  <2>4. \A k \in 1 .. n : b[q[k]] \in Rows
    BY <1>2, <2>1
  <2>5. copies \in [1 .. n -> Rows] /\ \A k \in 1 .. n : copies[k] = b[q[k]]
    BY <2>3, <2>4
  <2>6. copies \in Seq(Rows) /\ Len(copies) = n
    BY <2>5, FunctionIsSequence
  <2> QED BY <2>1, <2>5, <2>6
<1>5. PICK all : all = old \o copies
  OBVIOUS
<1>6. /\ all \in Seq(Rows) /\ Len(all) = Len(old) + Len(q)
      /\ \A i \in 1 .. Len(old) : all[i] = old[i]
      /\ \A k \in 1 .. Len(q) : all[Len(old) + k] = b[q[k]]
  <2>1. IsJoin(all, old, copies)
    BY <1>4, <1>5, Joined
  <2> QED BY <1>4, <2>1 DEF IsJoin
<1>7. Len(old) \in Nat /\ Len(q) \in Nat /\ MaxSlots \in Nat /\ Len(all) \in Nat /\ Len(h) \in Nat
  BY <1>2, <1>6, DatabaseAssumption
<1>8. PICK n : n = Max({Len(old), Min({MaxSlots, Len(all)})})
  OBVIOUS
<1>9. n = IF Len(old) + Len(q) <= MaxSlots THEN Len(old) + Len(q) ELSE MaxSlots
  <2>1. PICK m : m = Min({MaxSlots, Len(all)})
    OBVIOUS
  <2>2. m = IF MaxSlots <= Len(all) THEN MaxSlots ELSE Len(all)
    BY <1>7, <2>1, MinMaxPair
  <2>3. m \in Nat /\ Len(old) <= m
    BY <1>6, <1>7, <2>2
  <2>4. n = IF Len(old) <= m THEN m ELSE Len(old)
    BY <1>7, <1>8, <2>1, <2>3, MinMaxPair
  <2>5. n = m
    BY <2>3, <2>4
  <2>6. PICK x \in Nat, y \in Nat, z \in Nat : x = Len(old) /\ y = Len(q) /\ z = Len(all) /\ z = x + y
    BY <1>6, <1>7
  <2>7. m = IF MaxSlots <= z THEN MaxSlots ELSE z
    BY <2>2, <2>6
  <2>8. m = IF x + y <= MaxSlots THEN x + y ELSE MaxSlots
    BY <1>7, <2>6, <2>7
  <2> QED BY <2>5, <2>6, <2>8
<1>10. Len(h) = n
  BY <1>9 DEF Copied
<1>11. n \in Nat /\ n <= Len(all) /\ n <= MaxSlots
  BY <1>6, <1>7, <1>9
<1>12. ASSUME NEW i \in 1 .. n PROVE h[i] = all[i]
  <2>1. CASE i <= Len(old)
    BY <1>6, <1>7, <1>11, <2>1 DEF Starts
  <2>2. CASE ~(i <= Len(old))
    <3>1. PICK k : k = i - Len(old)
      OBVIOUS
    <3>2. k \in 1 .. Len(q) /\ Len(old) + k = i /\ Len(old) + k <= MaxSlots
      BY <1>6, <1>7, <1>11, <2>2, <3>1, SMTT(30)
    <3>3. h[Len(old) + k] = b[q[k]] /\ all[Len(old) + k] = b[q[k]]
      BY <1>6, <3>2 DEF Copied
    <3> QED BY <3>2, <3>3
  <2> QED BY <2>1, <2>2
<1>13. SubSeq(all, 1, n) \in Seq(Rows) /\ Len(SubSeq(all, 1, n)) = n /\ \A i \in 1 .. n : SubSeq(all, 1, n)[i] = all[i]
  BY <1>6, <1>7, <1>11
<1>14. h = SubSeq(all, 1, n)
  BY <1>10, <1>12, <1>13
<1>15. HeapAfter(w, before, done) = SubSeq(all, 1, n)
  BY <1>1, <1>3, <1>5, <1>8, Zenon DEF HeapAfter
<1> QED BY <1>14, <1>15

LEMMA MinIs ==
  ASSUME NEW S \in SUBSET Nat, NEW m \in S, \A x \in S : m <= x
  PROVE  Min(S) = m
<1>1. PICK y : y = Min(S)
  OBVIOUS
<1>2. y \in S /\ \A x \in S : y <= x
  BY <1>1 DEF Min
<1>3. y \in Nat /\ m \in Nat /\ y <= m /\ m <= y
  BY <1>2
<1> QED BY <1>1, <1>3

\* Only the heap of one table differs from the heaps before.
LEMMA OneHeap ==
  ASSUME NEW hp \in [Tables -> Seq(Rows)], NEW before \in [Tables -> Seq(Rows)], NEW t \in Tables,
         \A u \in Tables : u # t => hp[u] = before[u], NEW h, h = hp[t]
  PROVE  hp = [before EXCEPT ![t] = h]
OBVIOUS

\* What a finished statement has done.
DoneRight(w, before, count) ==
  /\ heap = [before EXCEPT ![w.table] = HeapAfter(w, before, Matching(w, before))]
  /\ count = IF w.kind = "insert" THEN Len(heap[w.table]) - Len(before[w.table])
             ELSE Cardinality(Matching(w, before))

LEMMA DoneFollows ==
  ASSUME HeapGood, NEW w, NEW scan, NEW count, NEW before,
         Progress(heap, "done", w, scan, count, before, TRUE), ~ReadsOwnRows(w, before)
  PROVE  DoneRight(w, before, count)
<1>1. heap \in [Tables -> Seq(Rows)] /\ before \in [Tables -> Seq(Rows)]
  BY DEF HeapGood, Progress
<1>2. BoundWrite(w) /\ w.table \in Tables /\ w.source \in Tables
  BY <1>1, NoShorter
<1>3. PICK h \in Seq(Rows), old \in Seq(Rows), src \in Seq(Rows), b \in Seq(Rows) :
        h = heap[w.table] /\ old = before[w.table] /\ src = heap[w.source] /\ b = before[w.source]
  BY <1>1, <1>2
<1>4. Done(w, before, scan) = Matching(w, before)
  <2>1. Unread(src, b, scan)
    BY <1>1, <1>3, StillUnread
  <2>2. ScanGood(w, before, scan) /\ ExactGood(w, before, scan) /\ Hits(src, scan) = {}
    BY <1>3 DEF Progress
  <2> QED BY <1>3, <2>1, <2>2, NoHits
<1>5. PICK matches : matches = Matching(w, before)
  OBVIOUS
<1>6. h = HeapAfter(w, before, matches)
  <2>1. CASE w.kind # "insert"
    <3>1. Changed(w, before, scan, count, h) /\ w.kind \in {"delete", "update"}
      BY <1>2, <1>3, <2>1 DEF Progress, BoundWrite
    <3>2. ChangedIn(w, old, matches, h)
      BY <1>3, <1>4, <1>5, <3>1 DEF Changed, ChangedIn
    <3> QED BY <1>3, <3>1, <3>2, HeapAfterIs
  <2>2. CASE w.kind = "insert"
    <3>1. Grown(w, before, scan, count, h)
      BY <1>3, <2>2 DEF Progress
    <3>2. PICK q : Lists(q, matches, Len(b)) /\ Copied(h, old, b, q)
      BY <1>3, <1>4, <1>5, <3>1 DEF Grown
    <3>3. Starts(h, old)
      BY <1>3, <3>1 DEF Grown, Starts
    <3>4. Len(old) <= MaxSlots
      BY <1>2, <1>3 DEF Progress
    <3> QED BY <1>3, <2>2, <3>2, <3>3, <3>4, InsertHeapIs
  <2> QED BY <2>1, <2>2
<1>7. heap = [before EXCEPT ![w.table] = h]
  <2>1. \A u \in Tables : u # w.table => heap[u] = before[u]
    BY DEF Progress
  <2> QED BY <1>1, <1>2, <1>3, <2>1, OneHeap
<1>8. count = IF w.kind = "insert" THEN Len(h) - Len(old) ELSE Cardinality(matches)
  <2>1. CASE w.kind # "insert"
    BY <1>3, <1>4, <1>5, <2>1 DEF Progress, Changed
  <2>2. CASE w.kind = "insert"
    BY <1>3, <2>2 DEF Progress, Grown
  <2> QED BY <2>1, <2>2
<1> QED BY <1>3, <1>5, <1>6, <1>7, <1>8, Zenon DEF DoneRight

\* What an UPDATE that threw has done.
FailedRight(w, before) ==
  LET failing == {i \in Matching(w, before) : Thrown \in Range(UpdatedRow(w, before[w.table][i]))}
  IN  /\ failing # {}
      /\ heap = [before EXCEPT ![w.table] = HeapAfter(w, before, {i \in Matching(w, before) : i < Min(failing)})]

LEMMA FailedFollows ==
  ASSUME HeapGood, NEW w, NEW scan, NEW count, NEW before,
         Progress(heap, "failed", w, scan, count, before, TRUE)
  PROVE  FailedRight(w, before)
<1>1. heap \in [Tables -> Seq(Rows)] /\ before \in [Tables -> Seq(Rows)]
  BY DEF HeapGood, Progress
<1>2. BoundWrite(w) /\ w.table \in Tables /\ w.source \in Tables
  BY <1>1, NoShorter
<1>3. PICK h \in Seq(Rows), old \in Seq(Rows) : h = heap[w.table] /\ old = before[w.table]
  BY <1>1, <1>2
<1>4. w.kind = "update" /\ w.source = w.table
  BY <1>2 DEF Progress, FailedAt, BoundWrite
<1>5. PICK matches, done : matches = Matching(w, before) /\ done = Done(w, before, scan)
  OBVIOUS
<1>6. PICK i \in matches : /\ Thrown \in Range(UpdatedRow(w, old[i]))
                           /\ \A x \in done : x < i
                           /\ \A x \in matches : x < i => x \in done
  BY <1>3, <1>5 DEF Progress, FailedAt
<1>7. done \subseteq matches /\ matches \subseteq Nat
  <2>1. matches \subseteq 1 .. Len(old)
    BY <1>3, <1>4, <1>5, MatchingFinite
  <2> QED BY <1>5, <2>1 DEF Done
<1>8. ChangedIn(w, old, done, h) /\ \A x \in done : Thrown \notin Range(UpdatedRow(w, old[x]))
  BY <1>3, <1>4, <1>5 DEF Progress, Changed, ChangedIn
<1> DEFINE failing == {x \in matches : Thrown \in Range(UpdatedRow(w, old[x]))}
<1>9. i \in failing /\ failing \in SUBSET Nat
  BY <1>6, <1>7
<1>10. ASSUME NEW x \in failing PROVE i <= x
  <2>1. x \in matches /\ x \notin done /\ x \in Nat /\ i \in Nat
    BY <1>6, <1>7, <1>8
  <2>2. ~(x < i)
    BY <1>6, <2>1
  <2> QED BY <2>1, <2>2
<1>11. Min(failing) = i
  <2> HIDE DEF failing
  <2> QED BY <1>9, <1>10, MinIs
<1>12. done = {x \in matches : x < Min(failing)}
  <2> HIDE DEF failing
  <2> QED BY <1>6, <1>7, <1>11
<1>13. h = HeapAfter(w, before, done)
  BY <1>3, <1>4, <1>8, HeapAfterIs
<1>14. heap = [before EXCEPT ![w.table] = h]
  <2>1. \A u \in Tables : u # w.table => heap[u] = before[u]
    BY DEF Progress
  <2> QED BY <1>1, <1>2, <1>3, <2>1, OneHeap
<1>15. failing # {}
  BY <1>9
<1> QED BY <1>3, <1>5, <1>12, <1>13, <1>14, <1>15, Zenon DEF FailedRight

LEMMA WritesFollow ==
  ASSUME DbInv
  PROVE  WritesExact
<1>1. CASE stmt.phase = "idle"
  BY <1>1 DEF WritesExact
<1>2. CASE stmt.phase # "idle"
  <2>1. HeapGood /\ Progress(heap, stmt.phase, stmt.write, stmt.scan, stmt.count, stmt.before, stmt.exact)
    BY <1>2, StatementOf DEF DbInv
  <2>2. PICK phase, w, scan, count, before, exact :
          /\ phase = stmt.phase /\ w = stmt.write /\ scan = stmt.scan
          /\ count = stmt.count /\ before = stmt.before /\ exact = stmt.exact
    OBVIOUS
  <2>3. Progress(heap, phase, w, scan, count, before, exact) /\ exact \in BOOLEAN
    BY <2>1, <2>2 DEF Progress
  <2>4. phase = "died" => ~exact
    BY <2>3 DEF Progress
  <2>5. (phase = "done" /\ exact /\ ~ReadsOwnRows(w, before)) => DoneRight(w, before, count)
    <3> SUFFICES ASSUME phase = "done", exact, ~ReadsOwnRows(w, before) PROVE DoneRight(w, before, count)
      OBVIOUS
    <3>1. exact = TRUE
      BY <2>3, Zenon
    <3>2. Progress(heap, "done", w, scan, count, before, TRUE)
      BY <2>3, <3>1, Zenon
    <3> QED BY <2>1, <3>2, DoneFollows
  <2>6. (phase = "failed" /\ exact) => FailedRight(w, before)
    <3> SUFFICES ASSUME phase = "failed", exact PROVE FailedRight(w, before)
      OBVIOUS
    <3>1. exact = TRUE
      BY <2>3, Zenon
    <3>2. Progress(heap, "failed", w, scan, count, before, TRUE)
      BY <2>3, <3>1, Zenon
    <3> QED BY <2>1, <3>2, FailedFollows
  <2>7. (stmt.phase = "done" /\ stmt.exact /\ ~ReadsOwnRows(stmt.write, stmt.before)) =>
          DoneRight(stmt.write, stmt.before, stmt.count)
    BY <2>2, <2>5
  <2>8. (stmt.phase = "failed" /\ stmt.exact) => FailedRight(stmt.write, stmt.before)
    BY <2>2, <2>6
  <2>9. stmt.phase = "died" => ~stmt.exact
    BY <2>2, <2>4
  <2> QED BY <2>7, <2>8, <2>9 DEF WritesExact, DoneRight, FailedRight
<1> QED BY <1>1, <1>2

\* A write statement does what its SQL says to the table as it was at its
\* start, although its scan reads the table while the executor changes it
\* (delete_executor.cpp, update_executor.cpp, insert_executor.cpp): every
\* matching row once, no other row, no other table, and the right count; an
\* UPDATE that throws leaves exactly the rows before the failing one changed. For
\* every statement whose WHERE clause cannot throw, on pages that UPDATE does not
\* overrun.
THEOREM WritesAreExact == DbSpec => []WritesExact
BY DbInvariant, WritesFollow, PTL
=============================================================================
