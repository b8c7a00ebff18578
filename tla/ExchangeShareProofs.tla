------------------------ MODULE ExchangeShareProofs -------------------------
(***************************************************************************)
(* Theorems about the shares of the orders of Exchange: what an order, the *)
(* book, the callbacks still to be made, the execution reports and the     *)
(* feed say of them is the same number.  They rest on the invariants of    *)
(* the books and of what is told, and on what a sum over a finite set is.  *)
(***************************************************************************)
EXTENDS ExchangeProofs, FiniteSetTheorems, WellFoundedInduction

-----------------------------------------------------------------------------
(* Sums over finite sets.  A fact about every finite set is shown of the   *)
(* smallest subset it could fail for.                                      *)

AnyOf(S) == CHOOSE x \in S : TRUE
Unfolded(f, g, u) == IF u = {} THEN 0 ELSE f[AnyOf(u)] + g[u \ {AnyOf(u)}]
OneOff(f, u) == IF u = {} THEN 0 ELSE f[AnyOf(u)] + Total(f, u \ {AnyOf(u)})

LEMMA SmallestSubset ==
  ASSUME NEW S, IsFiniteSet(S), NEW B \in SUBSET (SUBSET S), B # {}
  PROVE  \E u \in B : \A v \in SUBSET u : v # u => v \notin B
<1>1. FiniteSubsetsOf(S) = SUBSET S
  BY FS_FiniteSubsetsOfFinite
<1>2. \E u \in B : \A v \in B : ~ (<<v, u>> \in StrictSubsetOrdering(S))
  BY <1>1, FS_StrictSubsetOrderingWellFounded, WFMin
<1> QED
  BY <1>2 DEF StrictSubsetOrdering

LEMMA AnyOfIn == ASSUME NEW u, u # {} PROVE AnyOf(u) \in u
  BY DEF AnyOf

LEMMA TotalStep ==
  ASSUME NEW f, NEW S, IsFiniteSet(S)
  PROVE  Total(f, S) = OneOff(f, S)
<1> DEFINE B == {u \in SUBSET S : Total(f, u) # OneOff(f, u)}
<1> SUFFICES ASSUME B # {} PROVE FALSE
  OBVIOUS
<1>1. PICK u \in B : \A v \in SUBSET u : v # u => v \notin B
  <2> HIDE DEF B
  <2>1. B \in SUBSET (SUBSET S)
    BY DEF B
  <2> QED
    BY <2>1, SmallestSubset
<1>2. \A v \in SUBSET u : v # u => Total(f, v) = OneOff(f, v)
  BY <1>1
<1> DEFINE Recursive(g) == g = [v \in SUBSET u |-> Unfolded(f, g, v)]
           G == CHOOSE g : Recursive(g)
           H == [v \in SUBSET u |-> OneOff(f, v)]
<1>3. Total(f, u) = G[u]
  BY DEF Total, MapThenSumSet, MapThenFoldSet, Unfolded, AnyOf
<1>4. \A v \in SUBSET u : OneOff(f, v) = Unfolded(f, H, v)
  <2> SUFFICES ASSUME NEW v \in SUBSET u PROVE OneOff(f, v) = Unfolded(f, H, v)
    OBVIOUS
  <2>1. CASE v = {}
    BY <2>1 DEF OneOff, Unfolded
  <2>2. CASE v # {}
    <3>1. AnyOf(v) \in v
      BY <2>2, AnyOfIn
    <3>2. v \ {AnyOf(v)} \in SUBSET u /\ v \ {AnyOf(v)} # u
      BY <3>1
    <3>3. H[v \ {AnyOf(v)}] = Total(f, v \ {AnyOf(v)})
      BY <1>2, <3>2
    <3> QED
      BY <2>2, <3>3 DEF OneOff, Unfolded
  <2> QED
    BY <2>1, <2>2
<1>5. Recursive(H)
  BY <1>4
<1>6. Recursive(G)
  <2> HIDE DEF Recursive
  <2> QED
    BY <1>5
<1> HIDE DEF G, H
<1>7. \A v \in SUBSET u : G[v] = OneOff(f, v)
  <2> DEFINE C == {v \in SUBSET u : G[v] # OneOff(f, v)}
  <2> SUFFICES ASSUME C # {} PROVE FALSE
    OBVIOUS
  <2>1. PICK w \in C : \A v \in SUBSET w : v # w => v \notin C
    <3>1. C \in SUBSET (SUBSET u) /\ IsFiniteSet(u)
      BY FS_Subset
    <3> HIDE DEF C
    <3> QED
      BY <3>1, SmallestSubset
  <2>2. G[w] = Unfolded(f, G, w)
    BY <1>6, <2>1
  <2>3. CASE w = {}
    BY <2>1, <2>2, <2>3 DEF OneOff, Unfolded
  <2>4. CASE w # {}
    <3>1. AnyOf(w) \in w
      BY <2>4, AnyOfIn
    <3>2. w \ {AnyOf(w)} \in SUBSET u /\ w \ {AnyOf(w)} # w /\ w \ {AnyOf(w)} # u
      BY <2>1, <3>1
    <3>3. G[w \ {AnyOf(w)}] = Total(f, w \ {AnyOf(w)})
      BY <1>2, <2>1, <3>2
    <3> QED
      BY <2>1, <2>2, <2>4, <3>3 DEF OneOff, Unfolded
  <2> QED
    BY <2>3, <2>4
<1> QED
  BY <1>1, <1>3, <1>7

LEMMA TotalOfNone == ASSUME NEW f PROVE Total(f, {}) = 0
  BY TotalStep, FS_EmptySet DEF OneOff

LEMMA TotalType ==
  ASSUME NEW f, NEW S, IsFiniteSet(S), \A i \in S : f[i] \in Int
  PROVE  Total(f, S) \in Int
<1> DEFINE B == {u \in SUBSET S : Total(f, u) \notin Int}
<1> SUFFICES ASSUME B # {} PROVE FALSE
  OBVIOUS
<1>1. PICK u \in B : \A v \in SUBSET u : v # u => v \notin B
  <2> HIDE DEF B
  <2>1. B \in SUBSET (SUBSET S)
    BY DEF B
  <2> QED
    BY <2>1, SmallestSubset
<1>2. Total(f, u) = OneOff(f, u)
  BY <1>1, FS_Subset, TotalStep
<1>3. CASE u = {}
  BY <1>1, <1>2, <1>3 DEF OneOff
<1>4. CASE u # {}
  <2>1. AnyOf(u) \in u
    BY <1>4, AnyOfIn
  <2>2. Total(f, u \ {AnyOf(u)}) \in Int
    BY <1>1, <2>1
  <2> QED
    BY <1>1, <1>2, <1>4, <2>1, <2>2 DEF OneOff
<1> QED
  BY <1>3, <1>4

LEMMA TotalNat ==
  ASSUME NEW f, NEW S, IsFiniteSet(S), \A i \in S : f[i] \in Nat
  PROVE  Total(f, S) \in Nat
<1> DEFINE B == {u \in SUBSET S : Total(f, u) \notin Nat}
<1> SUFFICES ASSUME B # {} PROVE FALSE
  OBVIOUS
<1>1. PICK u \in B : \A v \in SUBSET u : v # u => v \notin B
  <2> HIDE DEF B
  <2>1. B \in SUBSET (SUBSET S)
    BY DEF B
  <2> QED
    BY <2>1, SmallestSubset
<1>2. Total(f, u) = OneOff(f, u)
  BY <1>1, FS_Subset, TotalStep
<1>3. CASE u = {}
  BY <1>1, <1>2, <1>3 DEF OneOff
<1>4. CASE u # {}
  <2>1. AnyOf(u) \in u
    BY <1>4, AnyOfIn
  <2>2. Total(f, u \ {AnyOf(u)}) \in Nat
    BY <1>1, <2>1
  <2> QED
    BY <1>1, <1>2, <1>4, <2>1, <2>2 DEF OneOff
<1> QED
  BY <1>3, <1>4

LEMMA TotalSplit ==
  ASSUME NEW f, NEW S, IsFiniteSet(S), \A i \in S : f[i] \in Int, NEW x \in S
  PROVE  Total(f, S) = f[x] + Total(f, S \ {x})
<1> DEFINE Splits(u) == \A y \in u : Total(f, u) = f[y] + Total(f, u \ {y})
           B == {u \in SUBSET S : ~Splits(u)}
<1> SUFFICES ASSUME B # {} PROVE FALSE
  <2> SUFFICES Splits(S)
    OBVIOUS
  <2> QED
    OBVIOUS
<1>1. PICK u \in B : \A v \in SUBSET u : v # u => v \notin B
  <2> HIDE DEF B
  <2>1. B \in SUBSET (SUBSET S)
    BY DEF B
  <2> QED
    BY <2>1, SmallestSubset
<1>2. PICK y \in u : Total(f, u) # f[y] + Total(f, u \ {y})
  BY <1>1
<1>3. PICK z \in u : z = AnyOf(u)
  BY <1>2, AnyOfIn
<1>4. Total(f, u) = f[z] + Total(f, u \ {z})
  BY <1>1, <1>2, <1>3, FS_Subset, TotalStep DEF OneOff
<1>5. y # z
  BY <1>2, <1>4
<1>6. Total(f, u \ {z}) = f[y] + Total(f, (u \ {z}) \ {y})
  BY <1>1, <1>5
<1>7. Total(f, u \ {y}) = f[z] + Total(f, (u \ {y}) \ {z})
  BY <1>1, <1>5
<1>8. (u \ {z}) \ {y} = (u \ {y}) \ {z}
  OBVIOUS
<1>9. Total(f, (u \ {y}) \ {z}) \in Int
  <2>1. (u \ {y}) \ {z} \in SUBSET S
    BY <1>1
  <2> QED
    BY <2>1, FS_Subset, TotalType
<1>10. PICK a \in Int, b \in Int, t \in Int :
         a = f[y] /\ b = f[z] /\ t = Total(f, (u \ {y}) \ {z})
  BY <1>1, <1>9
<1>11. Total(f, u) = b + (a + t) /\ Total(f, u \ {y}) = b + t
  BY <1>4, <1>6, <1>7, <1>8, <1>10
<1>12. Total(f, u) # a + (b + t)
  BY <1>2, <1>10, <1>11
<1> QED
  BY <1>11, <1>12

LEMMA TotalSame ==
  ASSUME NEW f, NEW g, NEW S, IsFiniteSet(S), \A i \in S : f[i] = g[i]
  PROVE  Total(f, S) = Total(g, S)
<1> DEFINE B == {u \in SUBSET S : Total(f, u) # Total(g, u)}
<1> SUFFICES ASSUME B # {} PROVE FALSE
  OBVIOUS
<1>1. PICK u \in B : \A v \in SUBSET u : v # u => v \notin B
  <2> HIDE DEF B
  <2>1. B \in SUBSET (SUBSET S)
    BY DEF B
  <2> QED
    BY <2>1, SmallestSubset
<1>2. Total(f, u) = OneOff(f, u) /\ Total(g, u) = OneOff(g, u)
  BY <1>1, FS_Subset, TotalStep
<1>3. u # {}
  BY <1>1, <1>2 DEF OneOff
<1>4. AnyOf(u) \in u
  BY <1>3, AnyOfIn
<1>5. Total(f, u \ {AnyOf(u)}) = Total(g, u \ {AnyOf(u)})
  BY <1>1, <1>4
<1> QED
  BY <1>1, <1>2, <1>3, <1>4, <1>5 DEF OneOff

(* A sum does not depend on the names of its places, shifted here by one.  *)
LEMMA TotalShifted ==
  ASSUME NEW f, NEW g, NEW S \in SUBSET Nat, IsFiniteSet(S),
         \A i \in S : f[i] \in Int /\ g[i + 1] = f[i]
  PROVE  Total(g, {i + 1 : i \in S}) = Total(f, S)
<1> DEFINE Up(u) == {i + 1 : i \in u}
           B == {u \in SUBSET S : Total(g, Up(u)) # Total(f, u)}
<1> SUFFICES ASSUME B # {} PROVE FALSE
  OBVIOUS
<1>1. PICK u \in B : \A v \in SUBSET u : v # u => v \notin B
  <2> HIDE DEF B
  <2>1. B \in SUBSET (SUBSET S)
    BY DEF B
  <2> QED
    BY <2>1, SmallestSubset
<1>2. u # {}
  <2>1. Up({}) = {}
    OBVIOUS
  <2> QED
    BY <1>1, <2>1, TotalOfNone
<1>3. PICK y : y \in u
  BY <1>2
<1>4. Total(f, u) = f[y] + Total(f, u \ {y})
  <2>1. IsFiniteSet(u) /\ \A i \in u : f[i] \in Int
    BY <1>1, FS_Subset
  <2> HIDE DEF B, Up
  <2> QED
    BY <1>3, <2>1, TotalSplit
<1>5. Total(g, Up(u \ {y})) = Total(f, u \ {y})
  BY <1>1, <1>3
<1>6. Up(u \ {y}) = Up(u) \ {y + 1}
  BY <1>1, <1>3
<1>7. IsFiniteSet(Up(u))
  <2>1. IsFiniteSet(u)
    BY <1>1, FS_Subset
  <2>2. [i \in u |-> i + 1] \in Surjection(u, Up(u))
    BY DEF Surjection
  <2> QED
    BY <2>1, <2>2, FS_Surjection
<1>8. Total(g, Up(u)) = g[y + 1] + Total(g, Up(u) \ {y + 1})
  <2>1. \A i \in Up(u) : g[i] \in Int
    BY <1>1
  <2>2. y + 1 \in Up(u)
    BY <1>3
  <2> QED
    BY <1>7, <2>1, <2>2, TotalSplit
<1> QED
  BY <1>1, <1>3, <1>4, <1>5, <1>6, <1>8

LEMMA TotalOfNothing ==
  ASSUME NEW f, NEW S, IsFiniteSet(S), \A i \in S : f[i] = 0
  PROVE  Total(f, S) = 0
<1> DEFINE B == {u \in SUBSET S : Total(f, u) # 0}
<1> SUFFICES ASSUME B # {} PROVE FALSE
  OBVIOUS
<1>1. PICK u \in B : \A v \in SUBSET u : v # u => v \notin B
  <2> HIDE DEF B
  <2>1. B \in SUBSET (SUBSET S)
    BY DEF B
  <2> QED
    BY <2>1, SmallestSubset
<1>2. Total(f, u) = OneOff(f, u)
  BY <1>1, FS_Subset, TotalStep
<1>3. u # {}
  BY <1>1, <1>2 DEF OneOff
<1>4. AnyOf(u) \in u
  BY <1>3, AnyOfIn
<1>5. Total(f, u \ {AnyOf(u)}) = 0
  BY <1>1, <1>4
<1> QED
  BY <1>1, <1>2, <1>3, <1>4, <1>5 DEF OneOff

(* Two functions that differ in one place only.                            *)
LEMMA TotalChanged ==
  ASSUME NEW f, NEW g, NEW S, IsFiniteSet(S), NEW x \in S,
         \A i \in S : f[i] \in Int /\ g[i] \in Int,
         \A i \in S \ {x} : f[i] = g[i]
  PROVE  Total(g, S) = Total(f, S) + (g[x] - f[x])
<1>1. IsFiniteSet(S \ {x})
  BY FS_Subset
<1>2. Total(f, S \ {x}) = Total(g, S \ {x})
  BY <1>1, TotalSame
<1>3. Total(f, S \ {x}) \in Int
  BY <1>1, TotalType
<1>4. Total(f, S) = f[x] + Total(f, S \ {x})
  BY TotalSplit
<1>5. Total(g, S) = g[x] + Total(g, S \ {x})
  BY TotalSplit
<1> QED
  BY <1>2, <1>3, <1>4, <1>5

(* A sequence of numbers with one more at its end, and with one more at    *)
(* its front.                                                              *)
LEMMA TotalAppended ==
  ASSUME NEW n \in Nat, NEW f, NEW g,
         \A i \in 1..n : f[i] \in Int /\ g[i] = f[i],
         g[n + 1] \in Int
  PROVE  Total(g, 1 .. n + 1) = Total(f, 1..n) + g[n + 1]
<1>1. IsFiniteSet(1..n) /\ IsFiniteSet(1 .. n + 1)
  BY FS_Interval
<1>2. (1 .. n + 1) \ {n + 1} = 1..n /\ n + 1 \in 1 .. n + 1
  OBVIOUS
<1>3. \A i \in 1 .. n + 1 : g[i] \in Int
  OBVIOUS
<1>4. Total(g, 1 .. n + 1) = g[n + 1] + Total(g, 1..n)
  BY <1>1, <1>2, <1>3, TotalSplit
<1>5. Total(g, 1..n) = Total(f, 1..n)
  BY <1>1, TotalSame
<1>6. Total(f, 1..n) \in Int
  BY <1>1, TotalType
<1> QED
  BY <1>4, <1>5, <1>6

LEMMA TotalOfTail ==
  ASSUME NEW n \in Nat, NEW f, NEW g,
         \A i \in 1..n : f[i] \in Int /\ g[i + 1] = f[i],
         g[1] \in Int
  PROVE  Total(g, 1 .. n + 1) = g[1] + Total(f, 1..n)
<1>1. IsFiniteSet(1..n) /\ IsFiniteSet(1 .. n + 1)
  BY FS_Interval
<1>2. (1 .. n + 1) \ {1} = {i + 1 : i \in 1..n} /\ 1 \in 1 .. n + 1
  <2>1. \A i \in (1 .. n + 1) \ {1} : i - 1 \in 1..n /\ i = (i - 1) + 1
    OBVIOUS
  <2> QED
    BY <2>1
<1>3. \A i \in 1 .. n + 1 : g[i] \in Int
  <2> SUFFICES ASSUME NEW i \in 1 .. n + 1, i # 1 PROVE g[i] \in Int
    OBVIOUS
  <2>1. i - 1 \in 1..n /\ (i - 1) + 1 = i
    OBVIOUS
  <2> QED
    BY <2>1
<1>4. Total(g, 1 .. n + 1) = g[1] + Total(g, (1 .. n + 1) \ {1})
  <2>1. PICK S, x : S = 1 .. n + 1 /\ x = 1
    OBVIOUS
  <2>2. Total(g, S) = g[x] + Total(g, S \ {x})
    BY <1>1, <1>3, <2>1, TotalSplit
  <2> QED
    BY <2>1, <2>2
<1>5. Total(g, {i + 1 : i \in 1..n}) = Total(f, 1..n)
  <2>1. 1..n \in SUBSET Nat
    OBVIOUS
  <2> QED
    BY <1>1, <2>1, TotalShifted
<1> QED
  BY <1>2, <1>4, <1>5

-----------------------------------------------------------------------------
(* What queued callbacks tell an order.                                    *)

LEMMA FillOfType ==
  ASSUME NEW c \in CallbackRecords, NEW o
  PROVE  FillOf(c, o) \in Nat
  BY DEF FillOf, CallbackRecords

LEMMA ToldNat ==
  ASSUME NEW cb \in Seq(CallbackRecords), NEW o
  PROVE  ToldBy(cb, o) \in Nat
<1> DEFINE f == [i \in DOMAIN cb |-> FillOf(cb[i], o)]
<1>1. DOMAIN cb = 1..Len(cb) /\ Len(cb) \in Nat
  OBVIOUS
<1>2. \A i \in DOMAIN cb : f[i] \in Nat
  BY FillOfType
<1>3. IsFiniteSet(DOMAIN cb)
  BY <1>1, FS_Interval
<1> HIDE DEF f
<1>4. Total(f, DOMAIN cb) \in Nat
  BY <1>2, <1>3, TotalNat
<1> QED
  BY <1>4 DEF ToldBy, f

LEMMA ToldNothing ==
  ASSUME NEW cb \in Seq(CallbackRecords), NEW o,
         \A i \in 1..Len(cb) : FillOf(cb[i], o) = 0
  PROVE  ToldBy(cb, o) = 0
<1> DEFINE f == [i \in DOMAIN cb |-> FillOf(cb[i], o)]
<1>1. DOMAIN cb = 1..Len(cb) /\ Len(cb) \in Nat
  OBVIOUS
<1>2. \A i \in DOMAIN cb : f[i] = 0
  BY <1>1
<1>3. IsFiniteSet(DOMAIN cb)
  BY <1>1, FS_Interval
<1> HIDE DEF f
<1>4. Total(f, DOMAIN cb) = 0
  BY <1>2, <1>3, TotalOfNothing
<1> QED
  BY <1>4 DEF ToldBy, f

LEMMA ToldAppended ==
  ASSUME NEW cb \in Seq(CallbackRecords), NEW c \in CallbackRecords, NEW o
  PROVE  ToldBy(Append(cb, c), o) = ToldBy(cb, o) + FillOf(c, o)
<1> DEFINE d == Append(cb, c)
           f == [i \in DOMAIN cb |-> FillOf(cb[i], o)]
           g == [i \in DOMAIN d |-> FillOf(d[i], o)]
           n == Len(cb)
<1>1. /\ DOMAIN cb = 1..n /\ n \in Nat /\ DOMAIN d = 1 .. n + 1
      /\ d[n + 1] = c /\ \A i \in 1..n : d[i] = cb[i]
  OBVIOUS
<1> HIDE DEF d, n
<1>2. \A i \in 1..n : f[i] \in Int /\ g[i] = f[i]
  <2> SUFFICES ASSUME NEW i \in 1..n PROVE f[i] \in Int /\ g[i] = f[i]
    OBVIOUS
  <2>1. f[i] = FillOf(cb[i], o) /\ g[i] = FillOf(cb[i], o)
    BY <1>1
  <2>2. cb[i] \in CallbackRecords
    BY <1>1
  <2> QED
    BY <2>1, <2>2, FillOfType
<1>3. g[n + 1] = FillOf(c, o) /\ g[n + 1] \in Int
  BY <1>1, FillOfType
<1> HIDE DEF f, g
<1>4. Total(g, 1 .. n + 1) = Total(f, 1..n) + g[n + 1]
  BY <1>1, <1>2, <1>3, TotalAppended
<1> QED
  BY <1>1, <1>3, <1>4 DEF ToldBy, d, f, g

LEMMA ToldTail ==
  ASSUME NEW cb \in Seq(CallbackRecords), cb # <<>>, NEW o
  PROVE  ToldBy(cb, o) = FillOf(cb[1], o) + ToldBy(Tail(cb), o)
<1> DEFINE d == Tail(cb)
           n == Len(d)
           f == [i \in DOMAIN d |-> FillOf(d[i], o)]
           g == [i \in DOMAIN cb |-> FillOf(cb[i], o)]
<1>1. /\ DOMAIN cb = 1 .. n + 1 /\ n \in Nat /\ DOMAIN d = 1..n
      /\ \A i \in 1..n : d[i] = cb[i + 1] /\ i + 1 \in 1 .. n + 1
      /\ 1 \in 1 .. n + 1
  OBVIOUS
<1> HIDE DEF d, n
<1>2. \A i \in 1..n : f[i] \in Int /\ g[i + 1] = f[i]
  <2> SUFFICES ASSUME NEW i \in 1..n PROVE f[i] \in Int /\ g[i + 1] = f[i]
    OBVIOUS
  <2>1. f[i] = FillOf(cb[i + 1], o) /\ g[i + 1] = FillOf(cb[i + 1], o)
    BY <1>1
  <2>2. cb[i + 1] \in CallbackRecords
    BY <1>1
  <2> QED
    BY <2>1, <2>2, FillOfType
<1>3. g[1] = FillOf(cb[1], o) /\ g[1] \in Int
  <2>1. cb[1] \in CallbackRecords
    BY <1>1
  <2> QED
    BY <1>1, <2>1, FillOfType
<1> HIDE DEF f, g
<1>4. Total(g, 1 .. n + 1) = g[1] + Total(f, 1..n)
  BY <1>1, <1>2, <1>3, TotalOfTail
<1> QED
  BY <1>1, <1>3, <1>4 DEF ToldBy, d, f, g

-----------------------------------------------------------------------------
(* The order's count of its shares and the book's.                         *)

Outside(s) == handler[s].at \in {"get_book", "lock"}

(* What is queued for the thread of session s in its book: an order that   *)
(* was matched there is of the other side and in nobody's hands, an order  *)
(* that is to be rejected has no shares, one that is to be accepted has    *)
(* them all.                                                               *)
Owed(s) ==
  LET o == handler[s].order
      cb == callbacks[form[o].sym]
  IN  InABook(s) => \A i \in 1..Len(cb) :
        /\ cb[i].kind = "fill" => form[cb[i].other].buy # form[o].buy
        /\ cb[i].kind = "fill" => \A t \in Sessions :
             handler[t].at # "idle" => handler[t].order # cb[i].other
        /\ cb[i].kind = "reject" => open[o] = 0 /\ form[o].qty = 0
        /\ cb[i].kind = "accept" => leaves[o] = form[o].qty

(* The inductive form of LeavesAgree.                                      *)
AgreeInv ==
  /\ leaves \in [OrderIds -> Nat]
  /\ \A o \in OrderIds : o > lastId => open[o] = 0
  /\ \A s \in Sessions : handler[s].at = "idle" => handler[s].order = NoOrder
  /\ \A s \in Sessions : Outside(s) =>
       /\ leaves[handler[s].order] = form[handler[s].order].qty
       /\ open[handler[s].order] = 0
  /\ LeavesAgree
  /\ \A s \in Sessions : Owed(s)

LEMMA AgreeInit == Init => AgreeInv
  BY DEF Init, AgreeInv, Outside, Owed, InABook, LeavesAgree, Entered, Known, Idle

(* Only a thread on its way to the book keeps an order from it.            *)
LEMMA EnteredIs ==
  ASSUME SessionInv, BookInv, AgreeInv, NEW o \in OrderIds
  PROVE  /\ Entered(o) <=> /\ Known(o)
                           /\ \A s \in Sessions : Outside(s) => handler[s].order # o
         /\ Known(o) => form[o] \in Forms /\ form[o].sym \in Symbols
<1>1. \A s \in Sessions : handler[s].at \in Places
  BY DEF SessionInv, SessionTypes
<1>2. o # NoOrder
  BY DEF OrderIds, NoOrder
<1>3. Known(o) => form[o] \in Forms
  BY DEF BookInv, BookTypes, Known
<1> QED
  BY <1>1, <1>2, <1>3 DEF Entered, AgreeInv, Outside, Places, Forms

(* Nothing is queued for an order that has not got to its book.            *)
LEMMA NothingUntold ==
  ASSUME SessionInv, BookInv, AgreeInv, NEW s \in Sessions, Outside(s),
         NEW y \in Symbols
  PROVE  ToldBy(callbacks[y], handler[s].order) = 0
<1>1. PICK o, cb : o = handler[s].order /\ cb = callbacks[y]
  OBVIOUS
<1>2. cb \in Seq(CallbackRecords)
  BY <1>1 DEF BookInv, BookTypes
<1>3. ASSUME NEW i \in 1..Len(cb) PROVE FillOf(cb[i], o) = 0
  <2>1. cb # <<>>
    BY <1>2, <1>3
  <2>2. PICK t \in Sessions : InABook(t) /\ form[handler[t].order].sym = y
    BY <1>1, <2>1 DEF BookInv, Busy, InBook, InABook
  <2>3. handler[t].order # o
    BY <1>1, <2>2, Handled DEF Outside, InABook, BookInv
  <2>4. Queue(cb, handler[t].order) /\ Owed(t)
    BY <1>1, <2>2 DEF BookInv, Queued, AgreeInv
  <2>5. cb[i].order # o
    BY <1>3, <2>3, <2>4 DEF Queue
  <2>6. cb[i].kind = "fill" => cb[i].other # o
    BY <1>1, <1>3, <2>2, <2>4 DEF Owed, Outside
  <2> QED
    BY <2>5, <2>6 DEF FillOf
<1> QED
  BY <1>1, <1>2, <1>3, ToldNothing

LEMMA ToldByNobody ==
  ASSUME NEW o
  PROVE  ToldBy(<<>>, o) = 0
<1>1. PICK cb : cb = <<>>
  OBVIOUS
<1>2. cb \in Seq(CallbackRecords) /\ \A i \in 1..Len(cb) : FillOf(cb[i], o) = 0
  BY <1>1
<1>3. ToldBy(cb, o) = 0
  BY <1>2, ToldNothing
<1> QED
  BY <1>1, <1>3

(* Steps that move threads outside the books, inside one, or out of it.    *)
LEMMA AgreeMoved ==
  ASSUME SessionInv, BookInv, AgreeInv,
         UNCHANGED <<lastId, form, leaves, open, callbacks>>,
         \A t \in Sessions :
           \/ handler'[t] = handler[t]
           \/ handler'[t] = Idle /\ InABook(t)
           \/ /\ handler'[t].order = handler[t].order
              /\ \/ Outside(t) /\ Outside(t)'
                 \/ InABook(t) /\ InABook(t)'
  PROVE  AgreeInv'
<1>1. \A t \in Sessions : handler'[t].at = "idle" => handler'[t].order = NoOrder
  BY DEF AgreeInv, Idle, Outside, InABook
<1>2. \A t \in Sessions :
        /\ Outside(t)' => Outside(t) /\ handler'[t].order = handler[t].order
        /\ Outside(t) => Outside(t)'
        /\ InABook(t)' => InABook(t) /\ handler'[t].order = handler[t].order
        /\ handler'[t].at # "idle" =>
             handler[t].at # "idle" /\ handler'[t].order = handler[t].order
  BY DEF Idle, Outside, InABook
<1>3. ASSUME NEW o \in OrderIds, Entered(o)'
      PROVE  leaves'[o] = open'[o] + Untold(o)'
  <2>1. Known(o)
    BY <1>3 DEF Entered, Known
  <2>2. ASSUME NEW t \in Sessions, Outside(t) PROVE handler[t].order # o
    <3>1. Outside(t)' /\ handler'[t].order = handler[t].order
      BY <1>2, <2>2
    <3> QED
      BY <1>3, <3>1 DEF Entered, Outside
  <2>3. Entered(o)
    BY <2>1, <2>2, EnteredIs
  <2> QED
    BY <2>3 DEF AgreeInv, LeavesAgree, Untold
<1>4. ASSUME NEW t \in Sessions PROVE Owed(t)'
  <2> SUFFICES ASSUME InABook(t)' PROVE Owed(t)'
    BY DEF Owed
  <2>1. InABook(t) /\ handler'[t].order = handler[t].order /\ Owed(t)
    BY <1>2 DEF AgreeInv
  <2>2. PICK p, old : p = handler[t].order /\ old = callbacks[form[p].sym]
    OBVIOUS
  <2>3. \A i \in 1..Len(old) :
          /\ old[i].kind = "fill" => form[old[i].other].buy # form[p].buy
          /\ old[i].kind = "fill" => \A u \in Sessions :
               handler[u].at # "idle" => handler[u].order # old[i].other
          /\ old[i].kind = "reject" => open[p] = 0 /\ form[p].qty = 0
          /\ old[i].kind = "accept" => leaves[p] = form[p].qty
    BY <2>1, <2>2 DEF Owed
  <2>4. /\ handler'[t].order = p /\ form' = form /\ open' = open /\ leaves' = leaves
        /\ callbacks'[form'[p].sym] = old
    BY <2>1, <2>2
  <2> QED
    BY <1>2, <2>3, <2>4 DEF Owed
<1> QED
  BY <1>1, <1>2, <1>3, <1>4 DEF AgreeInv, LeavesAgree

(* A step of the thread of session s in book y, with its order o, that     *)
(* leaves cb queued and counts shares of o and r.                          *)
CountsOn(s, o, y, cb, r) ==
  /\ WorksOn(s, o, y, cb)
  /\ InABook(s)'
  /\ UNCHANGED lastId
  /\ leaves' \in [OrderIds -> Nat]
  /\ r \in 1..lastId
  /\ \A t \in Sessions \ {s} : handler[t].at # "idle" => handler[t].order # r
  /\ form[r].sym = y
  /\ \A q \in OrderIds \ {o, r} : leaves'[q] = leaves[q] /\ open'[q] = open[q]
  /\ \A q \in OrderIds : (q = o \/ Entered(q)) /\ form[q].sym = y =>
       leaves'[q] = open'[q] + ToldBy(cb, q)
  /\ Owed(s)'

LEMMA AgreeWorked ==
  ASSUME SessionInv, BookInv, AgreeInv, NEW s \in Sessions, NEW o, NEW y, NEW cb,
         NEW r, CountsOn(s, o, y, cb, r)
  PROVE  AgreeInv'
<1> USE DEF CountsOn
<1>1. /\ o \in OrderIds /\ o \in 1..lastId /\ y \in Symbols
      /\ \A t \in Sessions \ {s} : handler[t].at # "idle" =>
           /\ handler[t].order \in OrderIds \ {o, r}
           /\ form[handler[t].order].sym \in Symbols
  <2>1. handler[s].at # "idle"
    BY DEF WorksOn
  <2> QED
    BY <2>1, Handled DEF WorksOn, BookInv
<1>2. /\ callbacks'[y] = cb
      /\ \A z \in Symbols \ {y} : callbacks'[z] = callbacks[z]
  BY <1>1 DEF WorksOn, BookInv, BookTypes
<1>3. /\ handler'[s].order = o /\ handler[s].order = o /\ UNCHANGED form
      /\ form[o].sym = y
      /\ handler'[s].at \in {"match", "call"}
      /\ \A t \in Sessions \ {s} : handler'[t] = handler[t]
  BY DEF WorksOn, InABook
<1>4. \A q \in OrderIds : q > lastId => open'[q] = 0
  <2>1. \A q \in OrderIds : q > lastId => q \notin {o, r}
    BY <1>1 DEF OrderIds, SessionInv, SessionTypes
  <2> QED
    BY <2>1 DEF AgreeInv
<1>5. ASSUME NEW t \in Sessions PROVE handler'[t].at = "idle" => handler'[t].order = NoOrder
  BY <1>3 DEF AgreeInv
<1>6. ASSUME NEW t \in Sessions, Outside(t)'
      PROVE  /\ leaves'[handler'[t].order] = form'[handler'[t].order].qty
             /\ open'[handler'[t].order] = 0
  <2>1. t # s /\ Outside(t) /\ handler'[t] = handler[t]
    BY <1>3, <1>6 DEF Outside
  <2>2. handler[t].order \in OrderIds \ {o, r}
    BY <1>1, <2>1 DEF Outside
  <2> QED
    BY <1>3, <2>1, <2>2 DEF AgreeInv
<1>7. ASSUME NEW q \in OrderIds, Entered(q)'
      PROVE  leaves'[q] = open'[q] + Untold(q)'
  <2>1. Known(q)
    BY <1>3, <1>7 DEF Entered, Known
  <2>2. ASSUME q # o, NEW t \in Sessions, Outside(t) PROVE handler[t].order # q
    <3>1. t # s => Outside(t)' /\ handler'[t].order = handler[t].order
      BY <1>3, <2>2 DEF Outside
    <3> QED
      BY <1>3, <1>7, <2>2, <3>1 DEF Entered, Outside
  <2>3. q = o \/ Entered(q)
    BY <2>1, <2>2, EnteredIs
  <2>4. form[q].sym \in Symbols
    BY <2>1, EnteredIs
  <2>5. CASE form[q].sym = y
    BY <1>2, <1>3, <2>3, <2>5 DEF Untold
  <2>6. CASE form[q].sym # y
    <3>1. q \in OrderIds \ {o, r} /\ Entered(q)
      BY <1>3, <2>3, <2>6
    <3> QED
      BY <1>2, <1>3, <2>4, <2>6, <3>1 DEF AgreeInv, LeavesAgree, Untold
  <2> QED
    BY <2>5, <2>6
<1>8. ASSUME NEW t \in Sessions \ {s} PROVE Owed(t)'
  <2> SUFFICES ASSUME InABook(t)' PROVE Owed(t)'
    BY DEF Owed
  <2>1. PICK p, z : p = handler[t].order /\ z = form[p].sym
    OBVIOUS
  <2>2. handler'[t] = handler[t] /\ InABook(t)
    BY <1>3 DEF InABook
  <2>3. p \in OrderIds \ {o, r} /\ z \in Symbols
    BY <1>1, <2>1, <2>2 DEF InABook
  <2>4. callbacks'[z] = callbacks[z]
    BY <2>1, <2>2, OthersKept
  <2>5. \A u \in Sessions : handler'[u].at # "idle" =>
          handler[u].at # "idle" /\ handler'[u].order = handler[u].order
    BY <1>3 DEF WorksOn
  <2>6. open'[p] = open[p] /\ leaves'[p] = leaves[p]
    BY <2>3
  <2>7. Owed(t)
    BY DEF AgreeInv
  <2>8. PICK old : old = callbacks[z]
    OBVIOUS
  <2>9. \A i \in 1..Len(old) :
          /\ old[i].kind = "fill" => form[old[i].other].buy # form[p].buy
          /\ old[i].kind = "fill" => \A u \in Sessions :
               handler[u].at # "idle" => handler[u].order # old[i].other
          /\ old[i].kind = "reject" => open[p] = 0 /\ form[p].qty = 0
          /\ old[i].kind = "accept" => leaves[p] = form[p].qty
    BY <2>1, <2>2, <2>7, <2>8 DEF Owed
  <2>10. /\ handler'[t].order = p /\ form'[p] = form[p]
         /\ callbacks'[form'[p].sym] = old
    BY <1>3, <2>1, <2>2, <2>4, <2>8
  <2> QED
    BY <1>3, <2>5, <2>6, <2>9, <2>10 DEF Owed
<1> QED
  BY <1>4, <1>5, <1>6, <1>7, <1>8 DEF AgreeInv, LeavesAgree

LEMMA AgreeNew ==
  ASSUME SessionInv, BookInv, AgreeInv, NEW s \in Sessions, NEW f \in Forms,
         NewOrderSingle(s, f)
  PROVE  AgreeInv'
<1>1. PICK o : o = lastId + 1
  OBVIOUS
<1>2. /\ o \in OrderIds /\ lastId \in Nat /\ o \notin 1..lastId
      /\ \A q \in 1..lastId : q \in OrderIds \ {o}
  BY <1>1, ExchangeAssumption DEF NewOrderSingle, SessionInv, SessionTypes, OrderIds
<1>3. /\ lastId' = o /\ UNCHANGED <<open, callbacks>>
      /\ form' = [form EXCEPT ![o] = f] /\ leaves' = [leaves EXCEPT ![o] = f.qty]
      /\ handler' = [handler EXCEPT ![s] = [at |-> "get_book", order |-> o]]
      /\ handler[s].at = "idle"
  BY <1>1 DEF NewOrderSingle, bookVars
<1>4. /\ handler'[s] = [at |-> "get_book", order |-> o]
      /\ \A t \in Sessions \ {s} : handler'[t] = handler[t]
      /\ form'[o] = f /\ leaves'[o] = f.qty /\ f.qty \in Nat
      /\ \A q \in OrderIds \ {o} : form'[q] = form[q] /\ leaves'[q] = leaves[q]
      /\ leaves' \in [OrderIds -> Nat]
  <2>1. f.qty \in Nat
    BY ExchangeAssumption DEF Forms
  <2>2. form \in [OrderIds -> Forms \cup {None}] /\ leaves \in [OrderIds -> Nat]
    BY DEF BookInv, BookTypes, AgreeInv
  <2>3. /\ handler'[s] = [at |-> "get_book", order |-> o]
        /\ \A t \in Sessions \ {s} : handler'[t] = handler[t]
    BY <1>3 DEF SessionInv, SessionTypes
  <2>4. /\ form'[o] = f /\ \A q \in OrderIds \ {o} : form'[q] = form[q]
    BY <1>2, <1>3, <2>2
  <2> QED
    BY <1>2, <1>3, <2>1, <2>2, <2>3, <2>4
<1>5. \A t \in Sessions : handler[t].at # "idle" =>
        handler[t].order \in 1..lastId /\ form[handler[t].order].sym \in Symbols
  BY Handled DEF BookInv
<1>6. \A q \in OrderIds : q > lastId' => open'[q] = 0
  <2>1. \A q \in OrderIds : q > lastId' => q > lastId
    BY <1>1, <1>2, <1>3 DEF OrderIds
  <2> QED
    BY <1>3, <2>1 DEF AgreeInv
<1>7. \A t \in Sessions : handler'[t].at = "idle" => handler'[t].order = NoOrder
  BY <1>4 DEF AgreeInv
<1>8. ASSUME NEW t \in Sessions, Outside(t)'
      PROVE  /\ leaves'[handler'[t].order] = form'[handler'[t].order].qty
             /\ open'[handler'[t].order] = 0
  <2>1. CASE t = s
    <3>1. open[o] = 0
      BY <1>1, <1>2 DEF AgreeInv
    <3> QED
      BY <1>3, <1>4, <2>1, <3>1
  <2>2. CASE t # s
    <3>1. handler'[t] = handler[t] /\ Outside(t)
      BY <1>4, <1>8, <2>2 DEF Outside
    <3>2. handler[t].order \in OrderIds \ {o}
      BY <1>2, <1>5, <3>1 DEF Outside
    <3> QED
      BY <1>3, <1>4, <3>1, <3>2 DEF AgreeInv
  <2> QED
    BY <2>1, <2>2
<1>9. ASSUME NEW q \in OrderIds, Entered(q)'
      PROVE  leaves'[q] = open'[q] + Untold(q)'
  <2>1. q # o
    BY <1>4, <1>9 DEF Entered
  <2>2. Known(q)
    BY <1>4, <1>9, <2>1 DEF Entered, Known
  <2>3. ASSUME NEW t \in Sessions, Outside(t) PROVE handler[t].order # q
    <3>1. handler'[t] = handler[t]
      BY <1>3, <1>4, <2>3 DEF Outside
    <3> QED
      BY <1>9, <2>3, <3>1 DEF Entered, Outside
  <2>4. Entered(q)
    BY <2>2, <2>3, EnteredIs
  <2> QED
    BY <1>3, <1>4, <2>1, <2>4 DEF AgreeInv, LeavesAgree, Untold
<1>10. ASSUME NEW t \in Sessions PROVE Owed(t)'
  <2> SUFFICES ASSUME InABook(t)' PROVE Owed(t)'
    BY DEF Owed
  <2>1. handler'[t] = handler[t] /\ InABook(t)
    BY <1>4 DEF InABook
  <2>2. PICK p, cb : p = handler[t].order /\ cb = callbacks[form[p].sym]
    OBVIOUS
  <2>3. p \in OrderIds \ {o}
    BY <1>2, <1>5, <2>1, <2>2 DEF InABook
  <2>4. /\ handler'[t].order = p /\ form'[p] = form[p] /\ open'[p] = open[p]
        /\ leaves'[p] = leaves[p] /\ callbacks'[form'[p].sym] = cb
    BY <1>3, <1>4, <2>1, <2>2, <2>3
  <2>5. Queue(cb, p)
    BY <2>1, <2>2 DEF BookInv, Queued
  <2>6. ASSUME NEW i \in 1..Len(cb), cb[i].kind = "fill",
               NEW u \in Sessions, handler'[u].at # "idle"
        PROVE  handler'[u].order # cb[i].other
    <3>1. cb[i].other \in 1..lastId
      BY <2>5, <2>6 DEF Queue, QueuedFill
    <3>2. CASE u = s
      BY <1>2, <1>4, <3>1, <3>2
    <3>3. CASE u # s
      <4>1. Owed(t) /\ handler'[u] = handler[u]
        BY <1>4, <3>3 DEF AgreeInv
      <4> QED
        BY <2>1, <2>2, <2>6, <4>1 DEF Owed
    <3> QED
      BY <3>2, <3>3
  <2>7. \A i \in 1..Len(cb) :
          /\ cb[i].kind = "fill" => form[cb[i].other].buy # form[p].buy
          /\ cb[i].kind = "reject" => open[p] = 0 /\ form[p].qty = 0
          /\ cb[i].kind = "accept" => leaves[p] = form[p].qty
    <3>1. Owed(t)
      BY DEF AgreeInv
    <3> QED
      BY <2>1, <2>2, <3>1 DEF Owed
  <2>8. \A i \in 1..Len(cb) : cb[i].kind = "fill" =>
          form'[cb[i].other] = form[cb[i].other]
    <3>1. \A i \in 1..Len(cb) : cb[i].kind = "fill" => cb[i].other \in 1..lastId
      BY <2>5 DEF Queue, QueuedFill
    <3> QED
      BY <1>2, <1>4, <3>1
  <2> QED
    BY <2>4, <2>6, <2>7, <2>8 DEF Owed
<1> QED
  BY <1>4, <1>6, <1>7, <1>8, <1>9, <1>10 DEF AgreeInv, LeavesAgree

LEMMA AgreeRefused ==
  ASSUME SessionInv, BookInv, AgreeInv, NEW s \in Sessions, Refuse(s)
  PROVE  AgreeInv'
<1>1. PICK o : o = handler[s].order
  OBVIOUS
<1>2. /\ Outside(s) /\ leaves' = [leaves EXCEPT ![o] = 0]
      /\ handler' = [handler EXCEPT ![s] = Idle]
      /\ UNCHANGED <<lastId, form, open, callbacks>>
  BY <1>1 DEF Refuse, bookVars, Outside
<1>3. /\ o \in OrderIds /\ form[o] \in Forms /\ form[o].sym \in Symbols
      /\ \A t \in Sessions \ {s} : handler[t].at # "idle" => handler[t].order # o
  BY <1>1, <1>2, Handled DEF Outside, BookInv
<1>4. /\ handler'[s] = Idle /\ \A t \in Sessions \ {s} : handler'[t] = handler[t]
      /\ leaves'[o] = 0 /\ \A q \in OrderIds \ {o} : leaves'[q] = leaves[q]
      /\ leaves' \in [OrderIds -> Nat]
  BY <1>2, <1>3 DEF SessionInv, SessionTypes, AgreeInv
<1>5. open[o] = 0 /\ ToldBy(callbacks[form[o].sym], o) = 0
  BY <1>1, <1>2, <1>3, NothingUntold DEF AgreeInv
<1>6. \A t \in Sessions : handler'[t].at = "idle" => handler'[t].order = NoOrder
  BY <1>4 DEF AgreeInv, Idle
<1>7. ASSUME NEW t \in Sessions, Outside(t)'
      PROVE  /\ leaves'[handler'[t].order] = form'[handler'[t].order].qty
             /\ open'[handler'[t].order] = 0
  <2>1. t # s /\ handler'[t] = handler[t] /\ Outside(t)
    BY <1>4, <1>7 DEF Outside, Idle
  <2>2. handler[t].order \in OrderIds \ {o}
    BY <1>3, <2>1, Handled DEF Outside, BookInv
  <2> QED
    BY <1>2, <1>4, <2>1, <2>2 DEF AgreeInv
<1>8. ASSUME NEW q \in OrderIds, Entered(q)'
      PROVE  leaves'[q] = open'[q] + Untold(q)'
  <2>1. CASE q = o
    BY <1>2, <1>4, <1>5, <2>1 DEF Untold
  <2>2. CASE q # o
    <3>1. Known(q)
      BY <1>2, <1>8 DEF Entered, Known
    <3>2. ASSUME NEW t \in Sessions, Outside(t) PROVE handler[t].order # q
      <4>1. t # s => handler'[t] = handler[t]
        BY <1>4
      <4> QED
        BY <1>1, <1>8, <2>2, <3>2, <4>1 DEF Entered, Outside
    <3>3. Entered(q)
      BY <3>1, <3>2, EnteredIs
    <3> QED
      BY <1>2, <1>4, <2>2, <3>3 DEF AgreeInv, LeavesAgree, Untold
  <2> QED
    BY <2>1, <2>2
<1>9. ASSUME NEW t \in Sessions PROVE Owed(t)'
  <2> SUFFICES ASSUME InABook(t)' PROVE Owed(t)'
    BY DEF Owed
  <2>1. t # s /\ handler'[t] = handler[t] /\ InABook(t) /\ Owed(t)
    BY <1>4 DEF InABook, Idle, AgreeInv
  <2>2. PICK p, cb : p = handler[t].order /\ cb = callbacks[form[p].sym]
    OBVIOUS
  <2>3. p \in OrderIds \ {o}
    BY <1>3, <2>1, <2>2, Handled DEF InABook, BookInv
  <2>4. /\ handler'[t].order = p /\ form'[p] = form[p] /\ open'[p] = open[p]
        /\ leaves'[p] = leaves[p] /\ callbacks'[form'[p].sym] = cb
    BY <1>2, <1>4, <2>1, <2>2, <2>3
  <2>5. \A u \in Sessions : handler'[u].at # "idle" =>
          handler[u].at # "idle" /\ handler'[u].order = handler[u].order
    BY <1>4 DEF Idle
  <2>6. \A i \in 1..Len(cb) :
          /\ cb[i].kind = "fill" => form[cb[i].other].buy # form[p].buy
          /\ cb[i].kind = "fill" => \A u \in Sessions :
               handler[u].at # "idle" => handler[u].order # cb[i].other
          /\ cb[i].kind = "reject" => open[p] = 0 /\ form[p].qty = 0
          /\ cb[i].kind = "accept" => leaves[p] = form[p].qty
    BY <2>1, <2>2 DEF Owed
  <2>7. ASSUME NEW i \in 1..Len(cb)
        PROVE  /\ cb[i].kind = "fill" => form'[cb[i].other].buy # form'[p].buy
               /\ cb[i].kind = "fill" => \A u \in Sessions :
                    handler'[u].at # "idle" => handler'[u].order # cb[i].other
               /\ cb[i].kind = "reject" => open'[p] = 0 /\ form'[p].qty = 0
               /\ cb[i].kind = "accept" => leaves'[p] = form'[p].qty
    <3>1. form' = form
      BY <1>2
    <3>2. cb[i].kind = "fill" => \A u \in Sessions :
            handler'[u].at # "idle" => handler'[u].order # cb[i].other
      BY <2>5, <2>6
    <3> QED
      BY <2>4, <2>6, <3>1, <3>2
  <2> QED
    BY <2>4, <2>7 DEF Owed
<1> QED
  BY <1>2, <1>4, <1>6, <1>7, <1>8, <1>9 DEF AgreeInv, LeavesAgree

LEMMA AgreeCancelled ==
  ASSUME SessionInv, BookInv, AgreeInv, NEW o \in OrderIds, CancelOrder(o)
  PROVE  AgreeInv'
<1>1. PICK y : y = form[o].sym
  OBVIOUS
<1>2. /\ o <= lastId /\ o \in resting[y] /\ ~Busy(y)
      /\ open' = [open EXCEPT ![o] = 0] /\ leaves' = [leaves EXCEPT ![o] = 0]
      /\ UNCHANGED <<lastId, form, handler, callbacks>>
  BY <1>1 DEF CancelOrder, Request
<1>3. y \in Symbols /\ o \in 1..lastId
  BY <1>1, <1>2, KnownOrder
<1>4. /\ leaves' \in [OrderIds -> Nat] /\ leaves'[o] = 0 /\ open'[o] = 0
      /\ \A q \in OrderIds \ {o} : leaves'[q] = leaves[q] /\ open'[q] = open[q]
  BY <1>2 DEF AgreeInv, BookInv, BookTypes
<1>5. ToldBy(callbacks[y], o) = 0
  <2>1. callbacks[y] = <<>>
    BY <1>2, <1>3 DEF BookInv
  <2> QED
    BY <2>1, ToldByNobody
<1>6. \A q \in OrderIds : q > lastId => open'[q] = 0
  BY <1>4 DEF AgreeInv
<1>7. ASSUME NEW t \in Sessions, Outside(t)
      PROVE  /\ leaves'[handler[t].order] = form[handler[t].order].qty
             /\ open'[handler[t].order] = 0
  <2>1. handler[t].order # o
    BY <1>2, <1>3, <1>7 DEF BookInv, Resting, Outside
  <2>2. handler[t].order \in OrderIds
    BY <1>7, Handled DEF Outside, BookInv
  <2> QED
    BY <1>4, <1>7, <2>1, <2>2 DEF AgreeInv
<1>8. ASSUME NEW q \in OrderIds, Entered(q)'
      PROVE  leaves'[q] = open'[q] + Untold(q)'
  <2>1. CASE q = o
    BY <1>1, <1>2, <1>4, <1>5, <2>1 DEF Untold
  <2>2. CASE q # o
    <3>1. Entered(q)
      BY <1>2, <1>8 DEF Entered, Known
    <3> QED
      BY <1>2, <1>4, <2>2, <3>1 DEF AgreeInv, LeavesAgree, Untold
  <2> QED
    BY <2>1, <2>2
<1>9. ASSUME NEW t \in Sessions PROVE Owed(t)'
  <2> SUFFICES ASSUME InABook(t) PROVE Owed(t)'
    BY <1>2 DEF Owed, InABook
  <2>1. PICK p, cb : p = handler[t].order /\ cb = callbacks[form[p].sym]
    OBVIOUS
  <2>2. p \in OrderIds \ {o}
    <3>1. form[p].sym # y
      BY <1>2, <2>1 DEF Busy, InBook, InABook
    <3> QED
      BY <1>1, <2>1, <3>1, Handled DEF InABook, BookInv
  <2>3. open'[p] = open[p] /\ leaves'[p] = leaves[p]
    BY <1>4, <2>2
  <2>4. Owed(t)
    BY DEF AgreeInv
  <2>5. \A i \in 1..Len(cb) :
          /\ cb[i].kind = "fill" => form[cb[i].other].buy # form[p].buy
          /\ cb[i].kind = "fill" => \A u \in Sessions :
               handler[u].at # "idle" => handler[u].order # cb[i].other
          /\ cb[i].kind = "reject" => open[p] = 0 /\ form[p].qty = 0
          /\ cb[i].kind = "accept" => leaves[p] = form[p].qty
    BY <2>1, <2>4 DEF Owed
  <2>6. handler'[t].order = p /\ form' = form /\ callbacks'[form'[p].sym] = cb
    BY <1>2, <2>1
  <2> QED
    BY <1>2, <2>3, <2>5, <2>6 DEF Owed
<1> QED
  BY <1>2, <1>4, <1>6, <1>7, <1>8, <1>9 DEF AgreeInv, LeavesAgree, Outside

LEMMA AgreeEntered ==
  ASSUME SessionInv, BookInv, AgreeInv, NEW s \in Sessions, EnterBook(s)
  PROVE  AgreeInv'
<1>1. PICK o, y, f : o = handler[s].order /\ f = form[o] /\ y = f.sym
  OBVIOUS
<1>2. /\ o \in OrderIds /\ o \in 1..lastId /\ y \in Symbols /\ f.qty \in Nat
      /\ handler[s].at = "lock" /\ Outside(s)
      /\ \A t \in Sessions \ {s} : handler[t].at # "idle" => handler[t].order # o
  BY <1>1, Handled, ExchangeAssumption DEF EnterBook, BookInv, Forms, Outside
<1>3. PICK kind : kind = IF f.qty = 0 THEN "reject" ELSE "accept"
  OBVIOUS
<1>4. PICK cb : cb = <<Callback(kind, o, NoOrder, 0)>>
  OBVIOUS
<1>5. cb \in Seq(CallbackRecords)
  BY <1>2, <1>3, <1>4 DEF Callback, CallbackRecords, NoOrder
<1>6. /\ Len(cb) = 1 /\ cb[1].kind = kind /\ kind # "fill"
      /\ \A i \in 1..Len(cb) : cb[i].kind = kind
  BY <1>3, <1>4 DEF Callback
<1>7. /\ open' = [open EXCEPT ![o] = f.qty]
      /\ callbacks' = [callbacks EXCEPT ![y] = cb]
      /\ handler' = [handler EXCEPT ![s].at = IF f.qty = 0 THEN "call" ELSE "match"]
      /\ ~Busy(y)
      /\ UNCHANGED <<lastId, form, leaves>>
  BY <1>1, <1>3, <1>4 DEF EnterBook, orderVars
<1>8. /\ open'[o] = f.qty /\ \A q \in OrderIds \ {o} : open'[q] = open[q]
  BY <1>2, <1>7 DEF BookInv, BookTypes
<1>9. WorksOn(s, o, y, cb) /\ InABook(s)'
  BY <1>1, <1>2, <1>7 DEF WorksOn, InABook, SessionInv, SessionTypes
<1>10. leaves[o] = f.qty
  BY <1>1, <1>2 DEF AgreeInv
<1>11. ASSUME NEW q \in OrderIds, q = o \/ Entered(q), form[q].sym = y
       PROVE  leaves'[q] = open'[q] + ToldBy(cb, q)
  <2>1. ToldBy(cb, q) = 0
    BY <1>5, <1>6, ToldNothing DEF FillOf
  <2>2. CASE q = o
    BY <1>2, <1>7, <1>8, <1>10, <2>1, <2>2
  <2>3. CASE q # o
    <3>1. callbacks[y] = <<>>
      BY <1>2, <1>7 DEF BookInv
    <3>2. leaves[q] = open[q] + ToldBy(<<>>, q)
      BY <1>11, <2>3, <3>1 DEF AgreeInv, LeavesAgree, Untold
    <3> QED
      BY <1>7, <1>8, <2>1, <2>3, <3>2, ToldByNobody
  <2> QED
    BY <2>2, <2>3
<1>12. Owed(s)'
  <2>1. /\ handler'[s].order = o /\ form'[o].sym = y /\ callbacks'[y] = cb
        /\ form'[o] = f
    <3>1. callbacks'[y] = cb
      BY <1>9, OthersKept
    <3> QED
      BY <1>1, <1>9, <3>1 DEF WorksOn
  <2>2. /\ kind = "reject" => open'[o] = 0 /\ f.qty = 0
        /\ kind = "accept" => leaves'[o] = f.qty
    BY <1>3, <1>7, <1>8, <1>10
  <2> QED
    BY <1>6, <2>1, <2>2 DEF Owed
<1>13. CountsOn(s, o, y, cb, o)
  BY <1>1, <1>2, <1>7, <1>8, <1>9, <1>11, <1>12 DEF CountsOn, AgreeInv
<1> QED
  BY <1>13, AgreeWorked

(* While the thread of session s matches its order with r, a resting one,  *)
(* no thread has r.                                                        *)
LEMMA MatchedIsFree ==
  ASSUME SessionInv, BookInv, NEW s \in Sessions, NEW r \in OrderIds, Match(s, r)
  PROVE  /\ r \in 1..lastId /\ form[r] \in Forms
         /\ r # handler[s].order
         /\ r \in resting[form[handler[s].order].sym]
         /\ form[r].sym = form[handler[s].order].sym
         /\ form[r].buy # form[handler[s].order].buy
         /\ \A t \in Sessions : handler[t].at # "idle" => handler[t].order # r
<1>1. PICK o, y : o = handler[s].order /\ y = form[o].sym
  OBVIOUS
<1>2. /\ o \in OrderIds /\ y \in Symbols /\ handler[s].at = "match"
      /\ r \in resting[y]
  BY <1>1, Handled DEF Match, MatchWith, BookInv, Crossing
<1>3. r \in 1..lastId /\ form[r].sym = y /\ r # o /\ form[r] \in Forms
  BY <1>1, <1>2, ExchangeAssumption
  DEF BookInv, BookTypes, Resting, OrderIds, SessionInv, SessionTypes
<1>4. ASSUME NEW t \in Sessions, handler[t].at # "idle" PROVE handler[t].order # r
  <2>1. CASE handler[t].at = "call"
    <3>1. ASSUME handler[t].order = r PROVE FALSE
      <4>1. t = s
        BY <1>1, <1>2, <1>3, <2>1, <3>1 DEF BookInv, Alone, InABook
      <4> QED
        BY <1>2, <2>1, <4>1
    <3> QED
      BY <3>1
  <2>2. CASE handler[t].at # "call"
    <3>1. handler[t].at \in {"get_book", "lock", "match"}
      BY <1>4, <2>2 DEF SessionInv, SessionTypes, Places
    <3> QED
      BY <1>2, <3>1 DEF BookInv, Resting
  <2> QED
    BY <2>1, <2>2
<1>5. form[r].buy # form[o].buy
  BY <1>1 DEF Match, MatchWith, Crossing, Crosses
<1> QED
  BY <1>1, <1>2, <1>3, <1>4, <1>5

LEMMA AgreeMatched ==
  ASSUME SessionInv, BookInv, AgreeInv, NEW s \in Sessions, NEW r \in OrderIds,
         Match(s, r)
  PROVE  AgreeInv'
<1>1. PICK o, y, old, n, c, cb :
        /\ o = handler[s].order /\ y = form[o].sym /\ old = callbacks[y]
        /\ n = Smaller(open[o], open[r]) /\ c = Callback("fill", o, r, n)
        /\ cb = Append(old, c)
  OBVIOUS
<1>2. /\ o \in OrderIds /\ o \in 1..lastId /\ form[o] \in Forms
      /\ y \in Symbols /\ handler[s].at = "match"
  BY <1>1, Handled DEF Match, MatchWith, BookInv
<1>3. /\ r \in 1..lastId /\ r # o /\ form[r].sym = y
      /\ \A t \in Sessions : handler[t].at # "idle" => handler[t].order # r
  BY <1>1, MatchedIsFree
<1>4. /\ open' = [open EXCEPT ![o] = @ - n, ![r] = @ - n]
      /\ callbacks' = [callbacks EXCEPT ![y] = cb]
      /\ handler' = [handler EXCEPT ![s].at = IF open[o] = n THEN "call" ELSE @]
      /\ UNCHANGED <<lastId, form, leaves>>
  BY <1>1 DEF Match, MatchWith, orderVars
<1>5. /\ open[o] \in Nat /\ open[r] \in Nat /\ n \in Nat
      /\ open'[o] = open[o] - n /\ open'[r] = open[r] - n
      /\ \A q \in OrderIds \ {o, r} : open'[q] = open[q]
  BY <1>1, <1>2, <1>3, <1>4 DEF BookInv, BookTypes, Smaller
<1>6. WorksOn(s, o, y, cb) /\ InABook(s)'
  <2>1. WorksOn(s, o, y, cb) /\ handler'[s].at \in {"match", "call"}
    BY <1>1, MatchWorks
  <2> QED
    BY <2>1 DEF InABook
<1>7. old \in Seq(CallbackRecords) /\ c \in CallbackRecords
  BY <1>1, <1>2, <1>5
  DEF BookInv, BookTypes, Callback, CallbackRecords
<1>8. FillOf(c, o) = n /\ FillOf(c, r) = n
      /\ \A q \in OrderIds \ {o, r} : FillOf(c, q) = 0
  BY <1>1 DEF Callback, FillOf
<1>9. \A t \in Sessions : Outside(t) => handler[t].order # o
  BY <1>1, <1>2, Handled DEF Outside, BookInv
<1>10. Entered(o)
  BY <1>2, <1>9, EnteredIs, NoneAssumption DEF Known
<1>11. ASSUME NEW q \in OrderIds, q = o \/ Entered(q), form[q].sym = y
       PROVE  leaves'[q] = open'[q] + ToldBy(cb, q)
  <2>1. Entered(q)
    BY <1>10, <1>11
  <2>2. leaves'[q] = open[q] + ToldBy(old, q)
    BY <1>1, <1>4, <1>11, <2>1 DEF AgreeInv, LeavesAgree, Untold
  <2>3. ToldBy(cb, q) = ToldBy(old, q) + FillOf(c, q) /\ ToldBy(old, q) \in Nat
    BY <1>1, <1>7, ToldAppended, ToldNat
  <2>4. open[q] \in Nat
    BY DEF BookInv, BookTypes
  <2>5. PICK a \in Nat, b \in Nat : a = open[q] /\ b = ToldBy(old, q)
    BY <2>3, <2>4
  <2>6. CASE q \in {o, r}
    <3>1. FillOf(c, q) = n /\ open'[q] = a - n
      BY <1>5, <1>8, <2>5, <2>6
    <3> QED
      BY <1>5, <2>2, <2>3, <2>5, <3>1
  <2>7. CASE q \notin {o, r}
    <3>1. FillOf(c, q) = 0 /\ open'[q] = a
      BY <1>5, <1>8, <2>5, <2>7
    <3> QED
      BY <2>2, <2>3, <2>5, <3>1
  <2> QED
    BY <2>6, <2>7
<1>12. Owed(s)'
  <2>1. /\ handler'[s].order = o /\ form'[o].sym = y /\ callbacks'[y] = cb
    <3>1. callbacks'[y] = cb
      BY <1>6, OthersKept
    <3> QED
      BY <1>1, <1>6, <3>1 DEF WorksOn
  <2>2. \A u \in Sessions : handler'[u].at # "idle" =>
          handler[u].at # "idle" /\ handler'[u].order = handler[u].order
    BY <1>1, <1>2, <1>6 DEF WorksOn
  <2>3. /\ Len(old) \in Nat /\ Len(cb) = Len(old) + 1 /\ cb[Len(old) + 1] = c
        /\ \A i \in 1..Len(old) : cb[i] = old[i]
    <3>1. old \in Seq(CallbackRecords) /\ c \in CallbackRecords /\ cb = Append(old, c)
      BY <1>1, <1>7
    <3> QED
      BY <3>1
  <2>4. /\ Queue(old, o) /\ old[1].kind = "accept" /\ Owed(s) /\ InABook(s)
    BY <1>1, <1>2 DEF BookInv, Queued, InABook, AgreeInv
  <2>5. ASSUME NEW i \in 1..Len(cb)
        PROVE  /\ cb[i].kind = "fill" => form'[cb[i].other].buy # form'[o].buy
               /\ cb[i].kind = "fill" => \A u \in Sessions :
                    handler'[u].at # "idle" => handler'[u].order # cb[i].other
               /\ cb[i].kind # "reject"
               /\ cb[i].kind = "accept" => leaves'[o] = form'[o].qty
    <3>1. CASE i \in 1..Len(old)
      <4>1. /\ old[i].kind = "fill" => form[old[i].other].buy # form[o].buy
            /\ old[i].kind = "fill" => \A u \in Sessions :
                 handler[u].at # "idle" => handler[u].order # old[i].other
            /\ old[i].kind = "accept" => leaves[o] = form[o].qty
        BY <1>1, <2>4, <3>1 DEF Owed
      <4>2. old[i].kind # "reject"
        BY <2>4, <3>1 DEF Queue
      <4>3. cb[i] = old[i]
        BY <2>3, <3>1
      <4> QED
        BY <1>4, <2>2, <4>1, <4>2, <4>3
    <3>2. CASE i = Len(old) + 1
      <4>1. cb[i].kind = "fill" /\ cb[i].other = r
        <5>1. c.kind = "fill" /\ c.other = r
          BY <1>1 DEF Callback
        <5>2. cb[i] = c
          BY <2>3, <3>2
        <5> QED
          BY <5>1, <5>2
      <4>2. form'[r].buy # form'[o].buy
        BY <1>1, <1>4, MatchedIsFree
      <4> QED
        BY <1>3, <2>2, <4>1, <4>2
    <3> QED
      BY <2>3, <3>1, <3>2
  <2> QED
    BY <2>1, <2>5 DEF Owed
<1>13. CountsOn(s, o, y, cb, r)
  <2>1. leaves' \in [OrderIds -> Nat] /\ \A q \in OrderIds : leaves'[q] = leaves[q]
    BY <1>4 DEF AgreeInv
  <2> QED
    BY <1>3, <1>4, <1>5, <1>6, <1>11, <1>12, <2>1 DEF CountsOn
<1> QED
  BY <1>13, AgreeWorked

LEMMA AgreeRested ==
  ASSUME SessionInv, BookInv, AgreeInv, NEW s \in Sessions, Rest(s)
  PROVE  AgreeInv'
<1>1. /\ handler[s].at = "match" /\ handler' = [handler EXCEPT ![s].at = "call"]
      /\ UNCHANGED <<lastId, form, leaves, open, callbacks>>
  BY DEF Rest, orderVars
<1>2. /\ handler'[s].order = handler[s].order /\ handler'[s].at = "call"
      /\ \A t \in Sessions \ {s} : handler'[t] = handler[t]
  BY <1>1 DEF SessionInv, SessionTypes
<1>3. \A t \in Sessions : \/ handler'[t] = handler[t]
                          \/ /\ handler'[t].order = handler[t].order
                             /\ InABook(t) /\ InABook(t)'
  BY <1>1, <1>2 DEF InABook
<1> QED
  BY <1>1, <1>3, AgreeMoved

(* A callback takes what it tells from what is left of an order.           *)
Takes(s) ==
  /\ leaves' = [q \in OrderIds |->
        leaves[q] - FillOf(Head(callbacks[form[handler[s].order].sym]), q)]
  /\ UNCHANGED <<lastId, form, handler, open>>

LEMMA AgreeCalled ==
  ASSUME SessionInv, BookInv, AgreeInv, NEW s \in Sessions, NEW k, Calling(s, k),
         Takes(s)
  PROVE  AgreeInv'
<1>0. PICK o, y, old, c : /\ o = handler[s].order /\ y = form[o].sym
                          /\ old = callbacks[y] /\ c = old[1]
  OBVIOUS
<1>1. PICK cb, r : cb = Tail(old) /\ r = IF c.kind = "fill" THEN c.other ELSE o
  OBVIOUS
<1>2. /\ handler[s].at = "call" /\ InABook(s)
      /\ o \in OrderIds /\ form[o] \in Forms /\ y \in Symbols
      /\ old \in Seq(CallbackRecords) /\ old # <<>> /\ Queue(old, o)
      /\ c \in CallbackRecords /\ c.kind = k
      /\ callbacks' = [callbacks EXCEPT ![y] = cb]
      /\ k = "fill" => /\ c.other \in OrderIds /\ form[c.other] \in Forms
                       /\ QueuedFill(c, o)
  <2>1. /\ handler[s].at = "call"
        /\ o \in OrderIds /\ form[o] \in Forms /\ y \in Symbols
        /\ old \in Seq(CallbackRecords) /\ old # <<>> /\ Queue(old, o)
        /\ c = Head(old) /\ c \in CallbackRecords /\ c.kind = k
        /\ k = "fill" => /\ c.other \in OrderIds /\ form[c.other] \in Forms
                         /\ QueuedFill(c, o)
    BY <1>0, CallbackMade
  <2>2. callbacks' = [callbacks EXCEPT ![y] = cb]
    BY <1>0, <1>1, <2>1 DEF Calling, BookInv, BookTypes
  <2> QED
    BY <1>0, <1>1, <2>1, <2>2 DEF InABook
<1>2a. /\ leaves' = [q \in OrderIds |-> leaves[q] - FillOf(c, q)]
       /\ UNCHANGED <<lastId, form, handler, open>>
  <2>1. c = Head(old)
    BY <1>0, CallbackMade
  <2> QED
    BY <1>0, <2>1 DEF Takes
<1> USE <1>0
<1>3. o \in 1..lastId /\ \A t \in Sessions \ {s} :
        handler[t].at # "idle" => handler[t].order # o
  BY <1>1, <1>2, Handled DEF BookInv
<1>4. Owed(s) /\ 1 \in 1..Len(old)
  <2>1. Owed(s)
    BY DEF AgreeInv
  <2>2. old \in Seq(CallbackRecords) /\ old # <<>>
    BY <1>2
  <2> QED
    BY <2>1, <2>2
<1>5. /\ r \in OrderIds /\ r \in 1..lastId /\ form[r] \in Forms /\ form[r].sym = y
      /\ \A t \in Sessions \ {s} : handler[t].at # "idle" => handler[t].order # r
  <2>1. CASE c.kind = "fill"
    <3>1. \A t \in Sessions : handler[t].at # "idle" => handler[t].order # c.other
      BY <1>1, <1>2, <1>4, <2>1 DEF Owed
    <3> QED
      BY <1>1, <1>2, <2>1, <3>1 DEF QueuedFill
  <2>2. CASE c.kind # "fill"
    BY <1>1, <1>2, <1>3, <2>2
  <2> QED
    BY <2>1, <2>2
<1>6. Entered(o) /\ Entered(r)
  <2>1. \A t \in Sessions : Outside(t) => t # s /\ handler[t].at # "idle"
    BY <1>2 DEF Outside
  <2> QED
    BY <1>2, <1>3, <1>5, <2>1, EnteredIs, NoneAssumption DEF Known
<1>7. \A q \in OrderIds \ {o, r} : FillOf(c, q) = 0
  <2>1. c.order = o
    BY <1>2, <1>4 DEF Queue
  <2> QED
    BY <1>1, <2>1 DEF FillOf
<1>8. cb \in Seq(CallbackRecords)
  BY <1>1, <1>2, QueueTail
<1>9. ASSUME NEW q \in OrderIds, q = o \/ Entered(q), form[q].sym = y
      PROVE  leaves'[q] = open'[q] + ToldBy(cb, q) /\ leaves'[q] \in Nat
  <2>1. leaves[q] = open[q] + ToldBy(old, q)
    BY <1>1, <1>6, <1>9 DEF AgreeInv, LeavesAgree, Untold
  <2>2. ToldBy(old, q) = FillOf(c, q) + ToldBy(cb, q)
    BY <1>1, <1>2, ToldTail
  <2>3. PICK a \in Nat, b \in Nat, d \in Nat :
          a = open[q] /\ b = ToldBy(cb, q) /\ d = FillOf(c, q)
    BY <1>2, <1>8, ToldNat, FillOfType DEF BookInv, BookTypes
  <2>4. leaves'[q] = leaves[q] - d /\ leaves[q] = a + (d + b) /\ open'[q] = a
    BY <1>2a, <2>1, <2>2, <2>3
  <2>5. (a + (d + b)) - d = a + b /\ a + b \in Nat
    OBVIOUS
  <2>6. leaves'[q] = (a + (d + b)) - d
    BY <2>4
  <2>7. leaves'[q] = a + b
    BY <2>5, <2>6
  <2> QED
    BY <2>3, <2>4, <2>5, <2>7
<1>10. \A q \in OrderIds \ {o, r} : leaves'[q] = leaves[q] /\ leaves[q] \in Nat
  <2>1. \A q \in OrderIds : leaves[q] \in Nat
    BY DEF AgreeInv
  <2> QED
    BY <1>7, <1>2a, <2>1
<1>11. leaves' \in [OrderIds -> Nat]
  <2>1. \A q \in OrderIds : leaves'[q] \in Nat
    BY <1>2, <1>5, <1>6, <1>9, <1>10
  <2> QED
    BY <1>2a, <2>1
<1>12. WorksOn(s, o, y, cb) /\ InABook(s)'
  BY <1>2, <1>2a DEF WorksOn, InABook
<1>13. Owed(s)'
  <2>1. /\ handler' = handler /\ form' = form /\ callbacks'[y] = cb
    BY <1>12, <1>2a, OthersKept
  <2>2. \A i \in 1..Len(cb) : i + 1 \in 1..Len(old) /\ cb[i] = old[i + 1]
    <3>1. old \in Seq(CallbackRecords) /\ old # <<>> /\ cb = Tail(old)
      BY <1>1, <1>2
    <3> QED
      BY <3>1
  <2>3. \A i \in 1..Len(cb) : cb[i].kind = "fill"
    BY <1>1, <1>2, QueueTail
  <2>4. \A i \in 1..Len(cb) : \A t \in Sessions :
          handler[t].at # "idle" => handler[t].order # cb[i].other
    <3>1. \A i \in 1..Len(old) : old[i].kind = "fill" => \A t \in Sessions :
            handler[t].at # "idle" => handler[t].order # old[i].other
      BY <1>1, <1>2, <1>4 DEF Owed
    <3> QED
      BY <2>2, <2>3, <3>1
  <2>5. \A i \in 1..Len(cb) : form[cb[i].other].buy # form[o].buy
    <3>1. \A i \in 1..Len(old) : old[i].kind = "fill" =>
            form[old[i].other].buy # form[o].buy
      BY <1>1, <1>2, <1>4 DEF Owed
    <3> QED
      BY <2>2, <2>3, <3>1
  <2>6. handler'[s].order = o /\ form'[o].sym = y
    BY <2>1
  <2>7. ASSUME NEW i \in 1..Len(cb)
        PROVE  /\ form'[cb[i].other].buy # form'[o].buy
               /\ \A t \in Sessions :
                    handler'[t].at # "idle" => handler'[t].order # cb[i].other
               /\ cb[i].kind = "fill"
    BY <2>1, <2>3, <2>4, <2>5
  <2> QED
    BY <2>1, <2>6, <2>7 DEF Owed
<1>14. CountsOn(s, o, y, cb, r)
  BY <1>5, <1>9, <1>10, <1>11, <1>12, <1>13, <1>2a DEF CountsOn
<1> QED
  BY <1>14, AgreeWorked

(* The book rejects orders without shares only.                            *)
LEMMA NothingToReject ==
  ASSUME SessionInv, BookInv, AgreeInv, NEW s \in Sessions, Calling(s, "reject")
  PROVE  leaves[handler[s].order] = 0 /\ form[handler[s].order].qty = 0
<1>1. PICK o, y, old, c : /\ o = handler[s].order /\ y = form[o].sym
                          /\ old = callbacks[y] /\ c = old[1]
  OBVIOUS
<1>2. /\ o \in OrderIds /\ y \in Symbols /\ handler[s].at = "call"
      /\ old \in Seq(CallbackRecords) /\ old # <<>> /\ Queue(old, o)
      /\ c.kind = "reject"
  BY <1>1, CallbackMade
<1>3. 1 \in 1..Len(old) /\ Len(old) = 1 /\ InABook(s)
  <2>1. old \in Seq(CallbackRecords) /\ old # <<>>
    BY <1>2
  <2>2. 1 \in 1..Len(old)
    BY <2>1
  <2>3. Queue(old, o) /\ old[1].kind = "reject" /\ handler[s].at = "call"
    BY <1>1, <1>2
  <2> QED
    BY <2>2, <2>3 DEF Queue, InABook
<1>4. open[o] = 0 /\ form[o].qty = 0
  BY <1>1, <1>2, <1>3 DEF AgreeInv, Owed
<1>5. ToldBy(old, o) = 0
  <2>1. \A i \in 1..Len(old) : FillOf(old[i], o) = 0
    <3>1. \A i \in 1..Len(old) : old[i].kind = "reject"
      <4>1. Len(old) = 1 /\ old[1].kind = "reject"
        BY <1>1, <1>2, <1>3
      <4> QED
        BY <4>1
    <3> QED
      BY <3>1 DEF FillOf
  <2> QED
    BY <1>2, <2>1, ToldNothing
<1>6. Entered(o)
  <2>1. \A t \in Sessions : Outside(t) => handler[t].order # o
    BY <1>1, <1>2, Handled DEF Outside, BookInv
  <2>2. form[o] \in Forms
    BY <1>1, <1>2, Handled DEF BookInv
  <2>3. Known(o)
    BY <2>2, NoneAssumption DEF Known
  <2> QED
    BY <1>2, <2>1, <2>3, EnteredIs
<1>7. leaves[o] = 0
  <2>1. leaves[o] = open[o] + ToldBy(old, o)
    BY <1>1, <1>2, <1>6 DEF AgreeInv, LeavesAgree, Untold
  <2> QED
    BY <1>4, <1>5, <2>1
<1> QED
  BY <1>1, <1>4, <1>7

LEMMA AgreeTold ==
  ASSUME SessionInv, BookInv, AgreeInv, NEW s \in Sessions,
         OnAccept(s) \/ OnReject(s) \/ OnFill(s)
  PROVE  AgreeInv'
<1>1. PICK o, y, old, c : /\ o = handler[s].order /\ y = form[o].sym
                          /\ old = callbacks[y] /\ c = old[1]
  OBVIOUS
<1>2. UNCHANGED <<lastId, form, handler, open>>
  BY DEF OnAccept, OnReject, OnFill, bookVars
<1>3. leaves \in [OrderIds -> Nat]
  BY DEF AgreeInv
<1>4. ASSUME NEW k, Calling(s, k)
      PROVE  /\ o \in OrderIds /\ y \in Symbols /\ handler[s].at = "call"
             /\ c = Head(old) /\ c \in CallbackRecords /\ c.kind = k
             /\ old \in Seq(CallbackRecords) /\ old # <<>> /\ Queue(old, o)
             /\ k = "fill" => c.other \in OrderIds /\ QueuedFill(c, o)
  BY <1>1, <1>4, CallbackMade
<1>5. ASSUME NEW k, Calling(s, k), k # "fill", leaves' = leaves
      PROVE  AgreeInv'
  <2>1. c = Head(old) /\ c.kind = k
    BY <1>4, <1>5
  <2>2. \A q \in OrderIds : leaves[q] - FillOf(c, q) = leaves[q]
    BY <1>3, <1>5, <2>1 DEF FillOf
  <2>3. leaves' = [q \in OrderIds |-> leaves[q] - FillOf(c, q)]
    BY <1>3, <1>5, <2>2
  <2> QED
    BY <1>1, <1>2, <1>5, <2>1, <2>3, AgreeCalled DEF Takes
<1>6. CASE OnAccept(s)
  BY <1>5, <1>6 DEF OnAccept
<1>7. CASE OnReject(s)
  <2>1. Calling(s, "reject") /\ leaves' = [leaves EXCEPT ![o] = 0]
    BY <1>1, <1>7 DEF OnReject
  <2>2. leaves[o] = 0
    BY <1>1, <2>1, NothingToReject
  <2>3. leaves' = leaves
    BY <1>3, <2>1, <2>2
  <2> QED
    BY <1>5, <2>1, <2>3
<1>8. CASE OnFill(s)
  <2>1. Calling(s, "fill")
    BY <1>8 DEF OnFill
  <2>2. /\ o \in OrderIds /\ c = Head(old) /\ c \in CallbackRecords
        /\ c.kind = "fill" /\ c.other \in OrderIds /\ c.other # o
        /\ old \in Seq(CallbackRecords) /\ old # <<>> /\ Queue(old, o)
    BY <1>4, <2>1 DEF QueuedFill
  <2>3. PICK r, n : r = c.other /\ n = c.qty
    OBVIOUS
  <2>4. leaves' = [leaves EXCEPT ![o] = leaves[o] - n, ![r] = leaves[r] - n]
    BY <1>1, <1>8, <2>2, <2>3 DEF OnFill
  <2>5. c.order = o /\ n \in Nat
    <3>1. 1 \in 1..Len(old)
      BY <2>2
    <3> QED
      BY <1>1, <2>2, <2>3, <3>1 DEF Queue, CallbackRecords
  <2>6. /\ FillOf(c, o) = n /\ FillOf(c, r) = n
        /\ \A q \in OrderIds \ {o, r} : FillOf(c, q) = 0
    BY <2>2, <2>3, <2>5 DEF FillOf
  <2>7. \A q \in OrderIds : leaves'[q] = leaves[q] - FillOf(c, q)
    <3>1. leaves'[o] = leaves[o] - n /\ leaves'[r] = leaves[r] - n
      BY <1>3, <2>2, <2>3, <2>4
    <3>2. \A q \in OrderIds \ {o, r} : leaves'[q] = leaves[q] /\ leaves[q] \in Nat
      BY <1>3, <2>4
    <3> QED
      BY <2>6, <3>1, <3>2
  <2>8. leaves' = [q \in OrderIds |-> leaves[q] - FillOf(c, q)]
    BY <1>3, <2>4, <2>7
  <2> QED
    BY <1>1, <1>2, <2>1, <2>2, <2>8, AgreeCalled DEF Takes
<1> QED
  BY <1>6, <1>7, <1>8

LEMMA AgreeStep == SessionInv /\ BookInv /\ AgreeInv /\ [Next]_vars => AgreeInv'
<1> SUFFICES ASSUME SessionInv, BookInv, AgreeInv, [Next]_vars
             PROVE  AgreeInv'
  OBVIOUS
<1>1. ASSUME NEW s \in Sessions, NEW f \in Forms, NewOrderSingle(s, f)
      PROVE  AgreeInv'
  BY <1>1, AgreeNew
<1>2. ASSUME NEW s \in Sessions, Submit(s) PROVE AgreeInv'
  <2>1. /\ handler[s].at = "get_book"
        /\ handler' = [handler EXCEPT ![s].at = "lock"]
        /\ UNCHANGED <<lastId, form, leaves, open, callbacks>>
    BY <1>2 DEF Submit, bookVars
  <2>2. /\ handler'[s].order = handler[s].order /\ handler'[s].at = "lock"
        /\ \A t \in Sessions \ {s} : handler'[t] = handler[t]
    BY <2>1 DEF SessionInv, SessionTypes
  <2>3. \A t \in Sessions : \/ handler'[t] = handler[t]
                            \/ /\ handler'[t].order = handler[t].order
                               /\ Outside(t) /\ Outside(t)'
    BY <2>1, <2>2 DEF Outside
  <2> QED
    BY <2>1, <2>3, AgreeMoved
<1>3. ASSUME NEW s \in Sessions, Refuse(s) PROVE AgreeInv'
  BY <1>3, AgreeRefused
<1>4. ASSUME NEW s \in Sessions, EnterBook(s) PROVE AgreeInv'
  BY <1>4, AgreeEntered
<1>5. ASSUME NEW s \in Sessions, NEW r \in OrderIds, Match(s, r) PROVE AgreeInv'
  BY <1>5, AgreeMatched
<1>6. ASSUME NEW s \in Sessions, Rest(s) PROVE AgreeInv'
  BY <1>6, AgreeRested
<1>7. ASSUME NEW s \in Sessions, OnAccept(s) \/ OnReject(s) \/ OnFill(s)
      PROVE  AgreeInv'
  BY <1>7, AgreeTold
<1>8. ASSUME NEW s \in Sessions, Finish(s) PROVE AgreeInv'
  <2>1. /\ handler[s].at = "call" /\ handler' = [handler EXCEPT ![s] = Idle]
        /\ UNCHANGED <<lastId, form, leaves, open, callbacks>>
    BY <1>8 DEF Finish, orderVars, bookVars
  <2>2. \A t \in Sessions : \/ handler'[t] = handler[t]
                            \/ handler'[t] = Idle /\ InABook(t)
    BY <2>1 DEF InABook, SessionInv, SessionTypes
  <2> QED
    BY <2>1, <2>2, AgreeMoved
<1>9. ASSUME UNCHANGED <<lastId, form, leaves, open, callbacks, handler>>
      PROVE  AgreeInv'
  BY <1>9, AgreeMoved
<1>10. ASSUME NEW s \in Sessions, Disconnect(s) \/ CloseStep(s) PROVE AgreeInv'
  BY <1>9, <1>10 DEF Disconnect, CloseStep, CloseSession, Unlink,
      EndSession, orderVars, bookVars
<1>11. ASSUME NEW o \in OrderIds, CancelOrder(o) PROVE AgreeInv'
  BY <1>11, AgreeCancelled
<1>12. ASSUME NEW o \in OrderIds,
              \/ ModifyOrder(o) \/ RequestRejected(o, "CancelRejected")
              \/ RequestRejected(o, "ModifyRejected")
       PROVE  AgreeInv'
  BY <1>9, <1>12 DEF ModifyOrder, RequestRejected, Request, bookVars
<1>13. CASE UNCHANGED vars
  BY <1>9, <1>13 DEF vars, orderVars, bookVars
<1> QED
  BY <1>1, <1>2, <1>3, <1>4, <1>5, <1>6, <1>7, <1>8, <1>10, <1>11, <1>12, <1>13
  DEF Next, HandlerStep

(* leaves_qty_ never drifts from what the book has open for an order: the  *)
(* difference is what queued callbacks have still to tell it, whichever    *)
(* thread makes them, and nothing once the book is idle.                   *)
THEOREM CountsAgree == Spec => []LeavesAgree
<1>1. AgreeInv => LeavesAgree
  BY DEF AgreeInv
<1> QED
  BY <1>1, AgreeInit, AgreeStep, BookAlways, PTL DEF Spec

LEMMA SharesAlways == Spec => [](SessionInv /\ BookInv /\ HistoryInv /\ AgreeInv)
  BY HistoryInit, HistoryStep, AgreeInit, AgreeStep, BookAlways, PTL DEF Spec

-----------------------------------------------------------------------------
(* Shares bought, sold and published.                                      *)

(* The history of an order that is in the market or has been.              *)
Goes(h) == h # <<>> /\ h[Len(h)] # "Rejected"

LEMMA GoesAppended ==
  ASSUME NEW h \in Seq(States), NEW x \in States
  PROVE  Goes(Append(h, x)) <=> x # "Rejected"
<1>1. /\ Len(Append(h, x)) = Len(h) + 1 /\ Len(h) \in Nat
      /\ Append(h, x)[Len(h) + 1] = x
  OBVIOUS
<1>2. Append(h, x) # <<>>
  <2>1. Len(<<>>) = 0
    OBVIOUS
  <2> QED
    BY <1>1, <2>1
<1> QED
  BY <1>1, <1>2 DEF Goes

LEMMA LiveGoes ==
  ASSUME NEW h, Live(h)
  PROVE  Goes(h)
<1>1. PICK n : n = Len(h)
  OBVIOUS
<1>2. n \in Nat /\ n >= 2 /\ h # <<>>
  <2>1. h \in Seq(States) /\ n >= 2
    BY <1>1 DEF Live
  <2>2. Len(<<>>) = 0
    OBVIOUS
  <2> QED
    BY <1>1, <2>1, <2>2
<1>3. CASE n = 2
  <2>1. h[2] = "Accepted"
    BY DEF Live
  <2> QED
    BY <1>1, <1>2, <1>3, <2>1 DEF Goes
<1>4. CASE n # 2
  <2>1. \A i \in 3..n : h[i] \in {"Filled", "Modified", "CancelRejected", "ModifyRejected"}
    BY <1>1 DEF Live, Refused
  <2>2. h[n] # "Rejected"
    BY <1>2, <1>4, <2>1
  <2> QED
    BY <1>1, <1>2, <2>2 DEF Goes
<1> QED
  BY <1>3, <1>4

LEMMA ShareType ==
  ASSUME BookInv, AgreeInv, NEW q \in OrderIds, NEW y, NEW buy
  PROVE  Share(q, y, buy) \in Int
<1>1. Known(q) => form[q].qty \in Nat
  BY ExchangeAssumption DEF Known, BookInv, BookTypes, Forms
<1>2. leaves[q] \in Nat
  BY DEF AgreeInv
<1> QED
  BY <1>1, <1>2 DEF Share, Counts

LEMMA OrderIdsFinite == IsFiniteSet(OrderIds)
  BY ExchangeAssumption, FS_Interval DEF OrderIds

LEMMA ExecutedKept ==
  ASSUME NEW y, NEW buy, \A q \in OrderIds : Share(q, y, buy)' = Share(q, y, buy)
  PROVE  Executed(y, buy)' = Executed(y, buy)
<1>1. [q \in OrderIds |-> Share(q, y, buy)]' = [q \in OrderIds |-> Share(q, y, buy)]
  OBVIOUS
<1> QED
  BY <1>1 DEF Executed

(* One order's share changes.                                              *)
LEMMA ExecutedMore ==
  ASSUME NEW y, NEW buy, NEW x \in OrderIds,
         \A q \in OrderIds :
           Share(q, y, buy) \in Int /\ Share(q, y, buy)' \in Int,
         \A q \in OrderIds \ {x} : Share(q, y, buy)' = Share(q, y, buy)
  PROVE  Executed(y, buy)'
           = Executed(y, buy) + (Share(x, y, buy)' - Share(x, y, buy))
<1> DEFINE f == [q \in OrderIds |-> Share(q, y, buy)]
<1>1. PICK g : g = f'
  OBVIOUS
<1>2. \A q \in OrderIds : f[q] = Share(q, y, buy) /\ g[q] = Share(q, y, buy)'
  BY <1>1
<1>3. Executed(y, buy) = Total(f, OrderIds)
  BY DEF Executed
<1>4. Executed(y, buy)' = Total(g, OrderIds)
  BY <1>1 DEF Executed
<1> HIDE DEF f
<1>5. Total(g, OrderIds) = Total(f, OrderIds) + (g[x] - f[x])
  BY <1>2, TotalChanged, OrderIdsFinite
<1> QED
  BY <1>2, <1>3, <1>4, <1>5

LEMMA TradeOfType ==
  ASSUME NEW m \in FeedMessages, NEW y
  PROVE  TradeOf(m, y) \in Nat
  BY DEF TradeOf, FeedMessages

LEMMA TradedNat ==
  ASSUME NEW f \in Seq(FeedMessages), NEW y
  PROVE  TradedIn(f, y) \in Nat
<1> DEFINE a == [i \in DOMAIN f |-> TradeOf(f[i], y)]
<1>1. DOMAIN f = 1..Len(f) /\ Len(f) \in Nat
  OBVIOUS
<1>2. \A i \in DOMAIN f : a[i] \in Nat
  BY TradeOfType
<1>3. IsFiniteSet(DOMAIN f)
  BY <1>1, FS_Interval
<1> HIDE DEF a
<1>4. Total(a, DOMAIN f) \in Nat
  BY <1>2, <1>3, TotalNat
<1> QED
  BY <1>4 DEF TradedIn, a

LEMMA TradedGrows ==
  ASSUME NEW f \in Seq(FeedMessages), NEW m \in FeedMessages, NEW y
  PROVE  /\ f \o <<m>> \in Seq(FeedMessages)
         /\ TradedIn(f \o <<m>>, y) = TradedIn(f, y) + TradeOf(m, y)
<1> DEFINE d == f \o <<m>>
           n == Len(f)
           a == [i \in DOMAIN f |-> TradeOf(f[i], y)]
           b == [i \in DOMAIN d |-> TradeOf(d[i], y)]
<1>1. /\ DOMAIN f = 1..n /\ n \in Nat /\ DOMAIN d = 1 .. n + 1
      /\ d[n + 1] = m /\ \A i \in 1..n : d[i] = f[i]
      /\ d \in Seq(FeedMessages)
  OBVIOUS
<1> HIDE DEF d, n
<1>2. \A i \in 1..n : a[i] \in Int /\ b[i] = a[i]
  <2> SUFFICES ASSUME NEW i \in 1..n PROVE a[i] \in Int /\ b[i] = a[i]
    OBVIOUS
  <2>1. a[i] = TradeOf(f[i], y) /\ b[i] = TradeOf(f[i], y)
    BY <1>1
  <2>2. f[i] \in FeedMessages
    BY <1>1
  <2> QED
    BY <2>1, <2>2, TradeOfType
<1>3. b[n + 1] = TradeOf(m, y) /\ b[n + 1] \in Int
  BY <1>1, TradeOfType
<1> HIDE DEF a, b
<1>4. Total(b, 1 .. n + 1) = Total(a, 1..n) + b[n + 1]
  BY <1>1, <1>2, <1>3, TotalAppended
<1> QED
  BY <1>1, <1>3, <1>4 DEF TradedIn, d, a, b

BalanceInv == requests \in 0..MaxRequests /\ SharesBalance

LEMMA NothingExecuted ==
  ASSUME NEW y, NEW buy, \A q \in OrderIds : Share(q, y, buy) = 0
  PROVE  Executed(y, buy) = 0
<1> DEFINE f == [q \in OrderIds |-> Share(q, y, buy)]
<1>1. \A q \in OrderIds : f[q] = 0
  OBVIOUS
<1> HIDE DEF f
<1>2. Total(f, OrderIds) = 0
  BY <1>1, OrderIdsFinite, TotalOfNothing
<1> QED
  BY <1>2 DEF Executed, f

LEMMA BalanceInit == Init => BalanceInv
<1> SUFFICES ASSUME Init PROVE BalanceInv
  OBVIOUS
<1>1. \A y, buy : \A q \in OrderIds : Share(q, y, buy) = 0
  BY DEF Init, Share, Counts, Known
<1>2. \A y, buy : Executed(y, buy) = 0
  BY <1>1, NothingExecuted
<1>3. ASSUME NEW y PROVE Traded(y) = 0
  <2>1. PICK f : f = [i \in DOMAIN feed |-> TradeOf(feed[i], y)]
    OBVIOUS
  <2>2. DOMAIN feed = {}
    BY DEF Init
  <2>3. Total(f, {}) = 0
    BY TotalOfNone
  <2> QED
    BY <2>1, <2>2, <2>3 DEF Traded, TradedIn
<1>4. requests \in 0..MaxRequests
  BY ExchangeAssumption DEF Init
<1> QED
  BY <1>2, <1>3, <1>4 DEF BalanceInv, SharesBalance


LEMMA ShareTypeNext ==
  ASSUME BookInv', AgreeInv', NEW q \in OrderIds, NEW y, NEW buy
  PROVE  Share(q, y, buy)' \in Int
<1>1. Known(q)' => form'[q].qty \in Nat
  BY ExchangeAssumption DEF Known, BookInv, BookTypes, Forms
<1>2. leaves'[q] \in Nat
  BY DEF AgreeInv
<1> QED
  BY <1>1, <1>2 DEF Share, Counts

LEMMA ShareSame ==
  ASSUME NEW q, form'[q] = form[q], leaves'[q] = leaves[q],
         history'[q] = history[q], NEW y, NEW buy
  PROVE  Share(q, y, buy)' = Share(q, y, buy)
  BY DEF Share, Counts, Known

(* Steps that change nobody's share and publish no trade.                  *)
LEMMA BalanceKept ==
  ASSUME BalanceInv, requests' = requests,
         \A q \in OrderIds : \A y, buy : Share(q, y, buy)' = Share(q, y, buy),
         \A y \in Symbols : Traded(y)' = Traded(y)
  PROVE  BalanceInv'
<1>1. ASSUME NEW y, NEW buy PROVE Executed(y, buy)' = Executed(y, buy)
  BY ExecutedKept
<1>2. ASSUME NEW y \in Symbols, requests' = 0
      PROVE  /\ Executed(y, TRUE)' = Executed(y, FALSE)'
             /\ Executed(y, TRUE)' = Traded(y)'
  <2>1. /\ Executed(y, TRUE) = Executed(y, FALSE)
        /\ Executed(y, TRUE) = Traded(y)
    BY <1>2 DEF BalanceInv, SharesBalance
  <2> QED
    BY <1>1, <2>1
<1> QED
  BY <1>2 DEF BalanceInv, SharesBalance

(* Steps of one order that leave its share what it is.                     *)
LEMMA BalanceOfOne ==
  ASSUME BalanceInv, HistoryInv, requests' = requests, NEW o, NEW x, Record(o, x),
         UNCHANGED form, \A q \in OrderIds \ {o} : leaves'[q] = leaves[q],
         \A y, buy : Share(o, y, buy)' = Share(o, y, buy),
         \A y \in Symbols : Traded(y)' = Traded(y)
  PROVE  BalanceInv'
<1>1. ASSUME NEW q \in OrderIds \ {o}, NEW y, NEW buy
      PROVE  Share(q, y, buy)' = Share(q, y, buy)
  <2>1. history'[q] = history[q]
    BY DEF Record, HistoryInv
  <2> QED
    BY <2>1, ShareSame
<1> QED
  BY <1>1, BalanceKept

LEMMA NoShare ==
  ASSUME NEW q, ~Goes(history[q]) \/ (form[q].qty = 0 /\ leaves[q] = 0), NEW y, NEW buy
  PROVE  Share(q, y, buy) = 0
  BY DEF Share, Counts, Goes

LEMMA NoShareNext ==
  ASSUME NEW q, \/ ~Goes(history'[q])
                \/ leaves'[q] \in Int /\ form'[q].qty = leaves'[q],
         NEW y, NEW buy
  PROVE  Share(q, y, buy)' = 0
<1>1. CASE ~Goes(history'[q])
  BY <1>1 DEF Share, Counts, Goes
<1>2. CASE leaves'[q] \in Int /\ form'[q].qty = leaves'[q]
  BY <1>2 DEF Share
<1> QED
  BY <1>1, <1>2

(* An order that is told of n shares it has traded.                        *)
Fills(q, n, y, b) ==
  /\ n \in Nat /\ form[q] \in Forms /\ y = form[q].sym /\ b = form[q].buy
  /\ UNCHANGED form
  /\ leaves[q] \in Nat /\ leaves'[q] = leaves[q] - n
  /\ Goes(history[q]) /\ Goes(history'[q])

LEMMA ShareFilled ==
  ASSUME NEW q, NEW n, NEW y, NEW b, Fills(q, n, y, b)
  PROVE  /\ Share(q, y, b)' = Share(q, y, b) + n
         /\ \A z, w : z # y \/ w # b => Share(q, z, w)' = Share(q, z, w)
<1> USE DEF Fills
<1>1. form[q].qty \in Nat /\ Known(q)
  BY ExchangeAssumption, NoneAssumption DEF Forms, Known
<1>2. Counts(q, y, b) /\ Counts(q, y, b)'
  BY <1>1 DEF Counts, Goes, Known
<1>3. Share(q, y, b) = form[q].qty - leaves[q]
  BY <1>2 DEF Share
<1>4. Share(q, y, b)' = form[q].qty - (leaves[q] - n)
  BY <1>2 DEF Share
<1>5. Share(q, y, b)' = Share(q, y, b) + n
  BY <1>1, <1>3, <1>4
<1>6. ASSUME NEW z, NEW w, z # y \/ w # b
      PROVE  Share(q, z, w)' = 0 /\ Share(q, z, w) = 0
  BY <1>6 DEF Share, Counts
<1> QED
  BY <1>5, <1>6

LEMMA BalanceNew ==
  ASSUME SessionInv, HistoryInv, AgreeInv, BookInv, BalanceInv,
         NEW s \in Sessions, NEW f \in Forms, NewOrderSingle(s, f)
  PROVE  BalanceInv'
<1>1. PICK o : o = lastId + 1
  OBVIOUS
<1>2. o \in OrderIds /\ o > lastId
  BY <1>1, ExchangeAssumption DEF NewOrderSingle, SessionInv, SessionTypes, OrderIds
<1>3. /\ form' = [form EXCEPT ![o] = f] /\ leaves' = [leaves EXCEPT ![o] = f.qty]
      /\ UNCHANGED <<history, feed, requests>>
  BY <1>1 DEF NewOrderSingle
<1>4. ~Goes(history[o]) /\ ~Goes(history'[o])
  BY <1>2, <1>3 DEF HistoryInv, Goes
<1>5. ASSUME NEW q \in OrderIds, NEW y, NEW buy
      PROVE  Share(q, y, buy)' = Share(q, y, buy)
  <2>1. CASE q = o
    BY <1>4, <2>1, NoShare, NoShareNext
  <2>2. CASE q # o
    BY <1>3, <2>2, ShareSame DEF BookInv, BookTypes, AgreeInv
  <2> QED
    BY <2>1, <2>2
<1>6. \A y \in Symbols : Traded(y)' = Traded(y)
  BY <1>3 DEF Traded
<1> QED
  BY <1>3, <1>5, <1>6, BalanceKept

(* Steps that only write the history and the reports of one order.         *)
LEMMA BalanceQuiet ==
  ASSUME SessionInv, BookInv, HistoryInv, AgreeInv, BalanceInv, NEW s \in Sessions,
         Submit(s) \/ Refuse(s) \/ OnReject(s)
  PROVE  BalanceInv'
<1>1. PICK o : o = handler[s].order
  OBVIOUS
<1>2. PICK x : Record(o, x) /\ x \in {"Submitted", "Rejected"}
  BY <1>1 DEF Submit, Refuse, OnReject
<1>3. /\ UNCHANGED <<form, feed, requests>> /\ leaves \in [OrderIds -> Nat]
      /\ leaves' \in {leaves, [leaves EXCEPT ![o] = 0]}
  BY <1>1 DEF Submit, Refuse, OnReject, AgreeInv
<1>4. o \in OrderIds /\ handler[s].at # "idle"
  BY <1>1, Handled DEF Submit, Refuse, OnReject, Calling, BookInv
<1>5. ASSUME NEW y, NEW buy PROVE Share(o, y, buy)' = Share(o, y, buy)
  <2>1. CASE Submit(s)
    <3>1. history[o] = <<>> /\ leaves[o] = form[o].qty
      BY <1>1, <2>1 DEF HistoryInv, ThreadHistory, Submit, AgreeInv, Outside
    <3>2. leaves'[o] = leaves[o]
      BY <2>1 DEF Submit
    <3> QED
      BY <1>3, <1>4, <3>1, <3>2, NoShare, NoShareNext DEF Goes
  <2>2. CASE Refuse(s)
    <3>1. history[o] = <<>>
      BY <1>1, <2>2 DEF HistoryInv, ThreadHistory, Refuse
    <3>2. ~Goes(history'[o])
      <4>1. history'[o] = Append(history[o], "Rejected") /\ history[o] \in Seq(States)
        BY <1>1, <1>4, <2>2 DEF HistoryInv, Refuse, Record
      <4> QED
        BY <4>1, GoesAppended DEF States
    <3> QED
      BY <3>1, <3>2, NoShare, NoShareNext DEF Goes
  <2>3. CASE OnReject(s)
    <3>1. leaves[o] = 0 /\ form[o].qty = 0
      BY <1>1, <2>3, NothingToReject DEF OnReject
    <3>2. leaves'[o] = 0
      BY <1>3, <1>4, <3>1
    <3> QED
      BY <1>3, <3>1, <3>2, NoShare, NoShareNext
  <2> QED
    BY <2>1, <2>2, <2>3
<1>6. \A y \in Symbols : Traded(y)' = Traded(y)
  BY <1>3 DEF Traded
<1>7. \A q \in OrderIds \ {o} : leaves'[q] = leaves[q]
  BY <1>3
<1> QED
  BY <1>2, <1>3, <1>5, <1>6, <1>7, BalanceOfOne

LEMMA BalanceAccepted ==
  ASSUME SessionInv, BookInv, HistoryInv, AgreeInv, FeedInv, BalanceInv,
         NEW s \in Sessions, OnAccept(s)
  PROVE  BalanceInv'
<1>1. PICK o, y, old, c : /\ o = handler[s].order /\ y = form[o].sym
                          /\ old = callbacks[y] /\ c = old[1]
  OBVIOUS
<1>2. Calling(s, "accept") /\ Record(o, "Accepted")
      /\ UNCHANGED <<form, leaves, requests>> /\ feed' = feed \o FeedAccept(o)
  BY <1>1 DEF OnAccept
<1>3. /\ handler[s].at = "call" /\ o \in OrderIds /\ form[o] \in Forms
      /\ old # <<>> /\ c.kind = "accept"
  BY <1>1, <1>2, CallbackMade
<1>4. history[o] = <<"Submitted">> /\ history[o] \in Seq(States)
  BY <1>1, <1>3 DEF HistoryInv, ThreadHistory
<1>5. Goes(history[o]) /\ Goes(history'[o])
  <2>1. history'[o] = Append(history[o], "Accepted")
    BY <1>2, <1>3 DEF HistoryInv, Record
  <2> QED
    BY <1>4, <2>1, GoesAppended DEF Goes, States
<1>6. ASSUME NEW z, NEW buy PROVE Share(o, z, buy)' = Share(o, z, buy)
  BY <1>2, <1>5 DEF Share, Counts, Known, Goes
<1>7. ASSUME NEW z \in Symbols PROVE Traded(z)' = Traded(z)
  <2>1. PICK m : m = [type |-> "add_order", order |-> o, sym |-> form[o].sym,
                      shares |-> form[o].qty, buy |-> form[o].buy,
                      price |-> to_itch_price(form[o].px)]
    OBVIOUS
  <2>2. m \in FeedMessages
    <3>1. /\ form[o].qty \in Nat /\ form[o].px \in Nat
          /\ form[o].buy \in BOOLEAN /\ form[o].sym \in Symbols
      BY <1>3, ExchangeAssumption DEF Forms
    <3>2. to_itch_price(form[o].px) \in -Half .. Half - 1
      BY <3>1, ItchPriceFits
    <3> QED
      BY <1>3, <2>1, <3>1, <3>2 DEF FeedMessages
  <2>3. PICK f : f = feed /\ f \in Seq(FeedMessages)
    BY DEF FeedInv, FeedOK
  <2>4. TradedIn(f \o <<m>>, z) = TradedIn(f, z) + TradeOf(m, z)
    BY <2>2, <2>3, TradedGrows
  <2>5. TradeOf(m, z) = 0 /\ TradedIn(f, z) \in Nat
    BY <2>1, <2>3, TradedNat DEF TradeOf
  <2>6. feed' = f \o <<m>>
    BY <1>2, <2>1, <2>3 DEF FeedAccept
  <2> QED
    BY <2>3, <2>4, <2>5, <2>6 DEF Traded
<1> QED
  BY <1>2, <1>6, <1>7, BalanceOfOne

LEMMA BalanceFilled ==
  ASSUME SessionInv, BookInv, HistoryInv, AgreeInv, FeedInv, BalanceInv,
         BookInv', AgreeInv', NEW s \in Sessions, OnFill(s)
  PROVE  BalanceInv'
<1>1. PICK o, y, old, c : /\ o = handler[s].order /\ y = form[o].sym
                          /\ old = callbacks[y] /\ c = old[1]
  OBVIOUS
<1>2. Calling(s, "fill")
  BY DEF OnFill
<1>3. /\ handler[s].at = "call" /\ o \in OrderIds /\ form[o] \in Forms /\ y \in Symbols
      /\ old \in Seq(CallbackRecords) /\ old # <<>>
      /\ c = Head(old) /\ c \in CallbackRecords /\ c.kind = "fill"
      /\ c.other \in OrderIds /\ form[c.other] \in Forms /\ QueuedFill(c, o)
  BY <1>1, <1>2, CallbackMade
<1>4. PICK r, n : r = c.other /\ n = c.qty
  OBVIOUS
<1>5. r \in OrderIds /\ r # o /\ form[r] \in Forms /\ form[r].sym = y /\ n \in Nat
  BY <1>1, <1>3, <1>4 DEF QueuedFill, CallbackRecords
<1>6. /\ leaves' = [leaves EXCEPT ![o] = leaves[o] - n, ![r] = leaves[r] - n]
      /\ history' = [history EXCEPT ![o] = Append(@, "Filled"),
                                    ![r] = Append(@, "Filled")]
      /\ feed' = feed \o FeedFill(o, n) \o FeedTrade(y, n)
      /\ UNCHANGED <<form, requests>>
  BY <1>1, <1>3, <1>4 DEF OnFill
<1>7. Live(history[o]) /\ Live(history[r]) /\ form[r].buy # form[o].buy
  <2>1. ThreadHistory(s) /\ Owed(s) /\ InABook(s) /\ 1 \in 1..Len(old)
    BY <1>3 DEF HistoryInv, AgreeInv, InABook
  <2> QED
    BY <1>1, <1>3, <1>4, <2>1 DEF ThreadHistory, Owed
<1>8. /\ leaves[o] \in Nat /\ leaves[r] \in Nat
      /\ leaves'[o] = leaves[o] - n /\ leaves'[r] = leaves[r] - n
      /\ \A q \in OrderIds \ {o, r} : leaves'[q] = leaves[q]
  BY <1>3, <1>5, <1>6 DEF AgreeInv
<1>9. /\ history'[o] = Append(history[o], "Filled")
      /\ history'[r] = Append(history[r], "Filled")
      /\ \A q \in OrderIds \ {o, r} : history'[q] = history[q]
      /\ history[o] \in Seq(States) /\ history[r] \in Seq(States)
  BY <1>3, <1>5, <1>6 DEF HistoryInv
<1>10. /\ Goes(history[o]) /\ Goes(history[r])
       /\ Goes(history'[o]) /\ Goes(history'[r])
  BY <1>7, <1>9, LiveGoes, GoesAppended DEF States
<1>11. \A q \in OrderIds \ {o, r} : \A z, b : Share(q, z, b)' = Share(q, z, b)
  BY <1>6, <1>8, <1>9, ShareSame
<1>12. PICK x : x = form[o].buy
  OBVIOUS
<1>13. PICK w : w = form[r].buy
  OBVIOUS
<1>14. /\ Share(o, y, x)' = Share(o, y, x) + n
       /\ \A z, b : z # y \/ b # x => Share(o, z, b)' = Share(o, z, b)
  <2>1. Fills(o, n, y, x)
    BY <1>1, <1>3, <1>5, <1>6, <1>8, <1>10, <1>12 DEF Fills
  <2> QED
    BY <2>1, ShareFilled
<1>15. /\ Share(r, y, w)' = Share(r, y, w) + n
       /\ \A z, b : z # y \/ b # w => Share(r, z, b)' = Share(r, z, b)
  <2>1. Fills(r, n, y, w)
    BY <1>5, <1>6, <1>8, <1>10, <1>13 DEF Fills
  <2> QED
    BY <2>1, ShareFilled
<1>16. x # w
  BY <1>7, <1>12, <1>13
<1>17. \A q \in OrderIds : \A z, b : Share(q, z, b) \in Int /\ Share(q, z, b)' \in Int
  BY ShareType, ShareTypeNext
<1>18. Executed(y, x)' = Executed(y, x) + n
  <2>1. \A q \in OrderIds \ {o} : Share(q, y, x)' = Share(q, y, x)
    BY <1>11, <1>15, <1>16
  <2>2. Executed(y, x)' = Executed(y, x) + (Share(o, y, x)' - Share(o, y, x))
    BY <1>3, <1>17, <2>1, ExecutedMore
  <2>3. PICK a \in Int : a = Share(o, y, x)
    BY <1>3, <1>17
  <2>4. (a + n) - a = n
    BY <1>5
  <2> QED
    BY <1>14, <2>2, <2>3, <2>4
<1>19. Executed(y, w)' = Executed(y, w) + n
  <2>1. \A q \in OrderIds \ {r} : Share(q, y, w)' = Share(q, y, w)
    BY <1>11, <1>14, <1>16
  <2>2. Executed(y, w)' = Executed(y, w) + (Share(r, y, w)' - Share(r, y, w))
    BY <1>5, <1>17, <2>1, ExecutedMore
  <2>3. PICK a \in Int : a = Share(r, y, w)
    BY <1>5, <1>17
  <2>4. (a + n) - a = n
    BY <1>5
  <2> QED
    BY <1>15, <2>2, <2>3, <2>4
<1>20. ASSUME NEW z \in Symbols \ {y}, NEW b PROVE Executed(z, b)' = Executed(z, b)
  <2>1. \A q \in OrderIds : Share(q, z, b)' = Share(q, z, b)
    BY <1>11, <1>14, <1>15, <1>20
  <2> QED
    BY <2>1, ExecutedKept
<1>21. \A b \in BOOLEAN : b = x \/ b = w
  BY <1>3, <1>5, <1>12, <1>13, <1>16 DEF Forms
<1>22. \A b \in BOOLEAN : Executed(y, b)' = Executed(y, b) + n
  BY <1>18, <1>19, <1>21
<1>23. /\ Traded(y)' = Traded(y) + n
       /\ \A z \in Symbols \ {y} : Traded(z)' = Traded(z)
  <2>1. PICK m1, m2, f, g : /\ m1 = Itch("order_executed", o, y, n)
                            /\ m2 = Itch("trade", NoOrder, y, n)
                            /\ f = feed /\ g = f \o <<m1>>
    OBVIOUS
  <2>2. m1 \in FeedMessages /\ m2 \in FeedMessages
    BY <1>3, <1>5, <2>1 DEF FeedMessages, Itch
  <2>3. feed' = g \o <<m2>>
    BY <1>1, <1>6, <2>1 DEF FeedFill, FeedTrade
  <2>4. f \in Seq(FeedMessages) /\ g \in Seq(FeedMessages)
    BY <2>1, <2>2 DEF FeedInv, FeedOK
  <2>5. ASSUME NEW z
        PROVE  TradedIn(feed', z) = TradedIn(f, z) + TradeOf(m2, z)
    <3>1. TradedIn(g, z) = TradedIn(f, z) + TradeOf(m1, z)
      BY <2>1, <2>2, <2>4, TradedGrows
    <3>2. TradedIn(feed', z) = TradedIn(g, z) + TradeOf(m2, z)
      BY <2>2, <2>3, <2>4, TradedGrows
    <3>3. TradeOf(m1, z) = 0 /\ TradedIn(f, z) \in Nat
      BY <2>1, <2>4, TradedNat DEF TradeOf, Itch
    <3> QED
      BY <3>1, <3>2, <3>3
  <2>6. TradeOf(m2, y) = n /\ \A z \in Symbols \ {y} : TradeOf(m2, z) = 0
    BY <2>1 DEF TradeOf, Itch
  <2>7. \A z : TradedIn(f, z) \in Nat
    BY <2>4, TradedNat
  <2>8. Traded(y)' = Traded(y) + n
    BY <2>1, <2>5, <2>6 DEF Traded
  <2>9. \A z \in Symbols \ {y} : TradedIn(feed', z) = TradedIn(f, z)
    BY <2>5, <2>6, <2>7
  <2> QED
    BY <2>1, <2>8, <2>9 DEF Traded
<1>24. ASSUME NEW z \in Symbols, requests' = 0
       PROVE  /\ Executed(z, TRUE)' = Executed(z, FALSE)'
              /\ Executed(z, TRUE)' = Traded(z)'
  <2>1. /\ Executed(z, TRUE) = Executed(z, FALSE)
        /\ Executed(z, TRUE) = Traded(z)
    BY <1>6, <1>24 DEF BalanceInv, SharesBalance
  <2>2. CASE z = y
    BY <1>22, <1>23, <2>1, <2>2
  <2>3. CASE z # y
    BY <1>20, <1>23, <2>1, <2>3
  <2> QED
    BY <2>2, <2>3
<1> QED
  BY <1>6, <1>24 DEF BalanceInv, SharesBalance

LEMMA BalanceStep ==
  ASSUME SessionInv, BookInv, HistoryInv, AgreeInv, FeedInv, BalanceInv, [Next]_vars
  PROVE  BalanceInv'
<1>1. BookInv' /\ AgreeInv'
  BY BookStep, AgreeStep
<1>2. ASSUME UNCHANGED <<form, leaves, history, feed, requests>> PROVE BalanceInv'
  <2>1. \A q \in OrderIds : \A y, buy : Share(q, y, buy)' = Share(q, y, buy)
    BY <1>2, ShareSame
  <2>2. \A y \in Symbols : Traded(y)' = Traded(y)
    BY <1>2 DEF Traded
  <2> QED
    BY <1>2, <2>1, <2>2, BalanceKept
<1>3. ASSUME NEW o, Request(o) PROVE BalanceInv'
  <2>1. requests' \in 0..MaxRequests /\ requests' # 0
    BY <1>3, ExchangeAssumption DEF Request, BalanceInv
  <2> QED
    BY <2>1 DEF BalanceInv, SharesBalance
<1>4. ASSUME NEW s \in Sessions, NEW f \in Forms, NewOrderSingle(s, f)
      PROVE  BalanceInv'
  BY <1>4, BalanceNew
<1>5. ASSUME NEW s \in Sessions, HandlerStep(s) PROVE BalanceInv'
  <2>1. CASE Submit(s) \/ Refuse(s) \/ OnReject(s)
    BY <2>1, BalanceQuiet
  <2>2. CASE OnAccept(s)
    BY <2>2, BalanceAccepted
  <2>3. CASE OnFill(s)
    BY <1>1, <2>3, BalanceFilled
  <2>4. CASE EnterBook(s) \/ (\E r \in OrderIds : Match(s, r)) \/ Rest(s) \/ Finish(s)
    BY <1>2, <2>4 DEF EnterBook, Match, MatchWith, Rest, Finish, orderVars
  <2> QED
    BY <1>5, <2>1, <2>2, <2>3, <2>4 DEF HandlerStep
<1>6. ASSUME NEW s \in Sessions, Disconnect(s) \/ CloseStep(s) PROVE BalanceInv'
  BY <1>2, <1>6 DEF Disconnect, CloseStep, CloseSession, Unlink,
      EndSession, orderVars
<1>7. ASSUME NEW o \in OrderIds,
             \/ CancelOrder(o) \/ ModifyOrder(o)
             \/ RequestRejected(o, "CancelRejected")
             \/ RequestRejected(o, "ModifyRejected")
      PROVE  BalanceInv'
  BY <1>3, <1>7 DEF CancelOrder, ModifyOrder, RequestRejected
<1>8. CASE UNCHANGED vars
  BY <1>2, <1>8 DEF vars, orderVars
<1> QED
  BY <1>4, <1>5, <1>6, <1>7, <1>8 DEF Next

(* No shares are made or lost: while nobody cancels, the buyers of a       *)
(* symbol have got what its sellers have given, and the feed has published *)
(* as many, at every step of every thread's callbacks.                     *)
THEOREM SharesConserved == Spec => []SharesBalance
<1>1. BalanceInv => SharesBalance
  BY DEF BalanceInv
<1>2. Spec => []FeedInv
  BY FeedInit, FeedStep, BookAlways, PTL DEF Spec
<1> QED
  BY <1>1, <1>2, BalanceInit, BalanceStep, SharesAlways, PTL DEF Spec
-----------------------------------------------------------------------------
(* Types.                                                                  *)

LEMMA MaxExists ==
  ASSUME NEW S \in SUBSET Nat, IsFiniteSet(S), S # {}
  PROVE  /\ Max(S) \in S
         /\ \A i \in S : i <= Max(S)
<1> DEFINE B == {u \in SUBSET S : u # {} /\ \A m \in u : \E i \in u : ~ (i <= m)}
<1>1. S \notin B
  <2> SUFFICES ASSUME B # {} PROVE FALSE
    OBVIOUS
  <2>1. PICK u \in B : \A v \in SUBSET u : v # u => v \notin B
    <3> HIDE DEF B
    <3>1. B \in SUBSET (SUBSET S)
      BY DEF B
    <3> QED
      BY <3>1, SmallestSubset
  <2>2. PICK x \in u : TRUE
    BY <2>1
  <2>3. x \in Nat /\ \A i \in u : i \in Nat
    BY <2>1, <2>2
  <2>4. PICK j \in u : ~ (j <= x)
    BY <2>1, <2>2
  <2>5. u \ {x} \notin B /\ u \ {x} # {} /\ u \ {x} \in SUBSET S
    <3>1. j # x
      BY <2>3, <2>4
    <3>2. u \ {x} \in SUBSET u /\ u \ {x} # u
      BY <2>2
    <3>3. u \ {x} \notin B
      BY <2>1, <3>2
    <3> QED
      BY <2>1, <2>4, <3>1, <3>3
  <2>6. PICK m \in u \ {x} : \A i \in u \ {x} : i <= m
    BY <2>1, <2>5
  <2>7. \A i \in u : i <= m
    BY <2>3, <2>4, <2>6
  <2> QED
    BY <2>1, <2>6, <2>7
<1>2. PICK m \in S : \A i \in S : i <= m
  BY <1>1
<1> HIDE DEF B
<1>3. \E k \in S : \A i \in S : k >= i
  BY <1>2
<1>4. PICK k : k = Max(S)
  OBVIOUS
<1>5. k \in S /\ \A i \in S : k >= i
  BY <1>3, <1>4, Zenon DEF Max
<1> QED
  BY <1>4, <1>5

LEMMA NextArrivalType ==
  ASSUME arrived \in [OrderIds -> Nat], NEW y, resting[y] \in SUBSET OrderIds
  PROVE  NextArrival(y) \in Nat
<1> DEFINE A == {arrived[r] : r \in resting[y]}
<1>1. IsFiniteSet(A)
  <2>1. IsFiniteSet(resting[y])
    BY OrderIdsFinite, FS_Subset
  <2>2. [r \in resting[y] |-> arrived[r]] \in Surjection(resting[y], A)
    BY DEF Surjection
  <2> QED
    BY <2>1, <2>2, FS_Surjection
<1>2. A \in SUBSET Nat
  OBVIOUS
<1>3. NextArrival(y) = Max(A \cup {0}) + 1
  BY DEF NextArrival
<1> HIDE DEF A
<1>4. PICK S : S = A \cup {0}
  OBVIOUS
<1>5. IsFiniteSet(S) /\ S # {} /\ S \in SUBSET Nat
  <2>1. IsFiniteSet(A \cup {0})
    BY <1>1, FS_AddElement
  <2> QED
    BY <1>2, <1>4, <2>1
<1>6. Max(S) \in Nat
  BY <1>5, MaxExists
<1> QED
  BY <1>3, <1>4, <1>6

ArrivedInv == arrived \in [OrderIds -> Nat]

LEMMA ArrivedStep == SessionInv /\ BookInv /\ ArrivedInv /\ [Next]_vars => ArrivedInv'
<1> SUFFICES ASSUME SessionInv, BookInv, ArrivedInv, [Next]_vars PROVE ArrivedInv'
  OBVIOUS
<1> USE DEF ArrivedInv
<1>1. ASSUME UNCHANGED arrived PROVE ArrivedInv'
  BY <1>1
<1>2. ASSUME NEW o, NEW y, resting[y] \in SUBSET OrderIds,
             arrived' \in {arrived, [arrived EXCEPT ![o] = NextArrival(y)]}
      PROVE  ArrivedInv'
  BY <1>2, NextArrivalType
<1>3. ASSUME NEW s \in Sessions, NEW f \in Forms, NewOrderSingle(s, f)
      PROVE  ArrivedInv'
  BY <1>1, <1>3 DEF NewOrderSingle, bookVars
<1>4. ASSUME NEW s \in Sessions, HandlerStep(s) PROVE ArrivedInv'
  <2>1. CASE Rest(s)
    <3>1. PICK o, y : o = handler[s].order /\ y = form[o].sym
      OBVIOUS
    <3>2. /\ arrived' = [arrived EXCEPT ![o] = NextArrival(y)]
          /\ resting' = [resting EXCEPT ![y] = @ \cup {o}]
      BY <2>1, <3>1 DEF Rest
    <3>3. y \in Symbols
      BY <2>1, <3>1, Handled DEF Rest, BookInv
    <3>4. resting[y] \in SUBSET OrderIds
      BY <3>3 DEF BookInv, BookTypes
    <3> QED
      BY <1>2, <3>2, <3>4
  <2>2. CASE ~Rest(s)
    BY <1>1, <1>4, <2>2
    DEF HandlerStep, Submit, Refuse, EnterBook, Match, MatchWith, OnAccept, OnReject,
        OnFill, Finish, bookVars
  <2> QED
    BY <2>1, <2>2
<1>5. ASSUME NEW s \in Sessions, Disconnect(s) \/ CloseStep(s) PROVE ArrivedInv'
  BY <1>1, <1>5 DEF Disconnect, CloseStep, CloseSession, Unlink,
      EndSession, bookVars
<1>6. ASSUME NEW o \in OrderIds,
             \/ CancelOrder(o) \/ RequestRejected(o, "CancelRejected")
             \/ RequestRejected(o, "ModifyRejected")
      PROVE  ArrivedInv'
  BY <1>1, <1>6 DEF CancelOrder, RequestRejected, bookVars
<1>7. ASSUME NEW o \in OrderIds, ModifyOrder(o) PROVE ArrivedInv'
  <2>1. PICK y : y = form[o].sym
    OBVIOUS
  <2>2. /\ arrived' \in {arrived, [arrived EXCEPT ![o] = NextArrival(y)]}
        /\ o <= lastId
    BY <1>7, <2>1 DEF ModifyOrder, Request
  <2>3. y \in Symbols
    BY <2>1, <2>2, KnownOrder
  <2>4. resting[y] \in SUBSET OrderIds
    BY <2>3 DEF BookInv, BookTypes
  <2> QED
    BY <1>2, <2>2, <2>4
<1>8. CASE UNCHANGED vars
  BY <1>1, <1>8 DEF vars, bookVars
<1> QED
  BY <1>3, <1>4, <1>5, <1>6, <1>7, <1>8 DEF Next

LEMMA TypesFollow ==
  ASSUME SessionInv, BookInv, HistoryInv, AgreeInv, OutInv, FeedInv, BalanceInv,
         ArrivedInv
  PROVE  TypeOK
<1>1. /\ lastId \in 0..MaxOrders /\ server \in [OrderIds -> Sessions \cup {None}]
      /\ session \in [Sessions -> {"up", "down", "closing", "gone"}]
      /\ handler \in [Sessions -> [at : {"idle", "get_book", "lock", "match", "call"},
                                   order : OrderIds \cup {NoOrder}]]
  BY DEF SessionInv, SessionTypes, Places
<1>2. /\ form \in [OrderIds -> Forms \cup {None}]
      /\ resting \in [Symbols -> SUBSET OrderIds]
      /\ open \in [OrderIds -> Nat]
      /\ callbacks \in [Symbols -> Seq(CallbackRecords)]
  BY DEF BookInv, BookTypes
<1>3. leaves \in [OrderIds -> Nat] /\ history \in [OrderIds -> Seq(States)]
  BY DEF AgreeInv, HistoryInv
<1>4. /\ out.execId \in Nat /\ out.sent \in [Sessions -> Seq(Reports)]
      /\ feed \in Seq(FeedMessages)
  BY DEF OutInv, ReportsOK, FeedInv, FeedOK
<1>5. arrived \in [OrderIds -> Nat] /\ requests \in 0..MaxRequests
  BY DEF ArrivedInv, BalanceInv
<1> QED
  BY <1>1, <1>2, <1>3, <1>4, <1>5 DEF TypeOK

LEMMA AllAlways ==
  Spec => [](/\ SessionInv /\ BookInv /\ HistoryInv /\ AgreeInv
             /\ OutInv /\ FeedInv /\ BalanceInv /\ ArrivedInv)
<1>1. Init => ArrivedInv
  BY DEF Init, ArrivedInv
<1>2. Spec => []OutInv
  BY OutInit, OutStep, BookAlways, PTL DEF Spec
<1>3. Spec => []FeedInv
  BY FeedInit, FeedStep, BookAlways, PTL DEF Spec
<1>4. Spec => []ArrivedInv
  BY <1>1, ArrivedStep, BookAlways, PTL DEF Spec
<1>5. Spec => []BalanceInv
  BY <1>3, BalanceInit, BalanceStep, SharesAlways, PTL DEF Spec
<1> QED
  BY <1>2, <1>3, <1>4, <1>5, SharesAlways, PTL

(* Every variable has its type: no step of matching, telling, rejecting or *)
(* cancelling takes the unsigned leaves_qty_, or the quantity the book has *)
(* open, below zero.                                                       *)
THEOREM TypesCorrect == Spec => []TypeOK
  BY TypesFollow, AllAlways, PTL
-----------------------------------------------------------------------------
(* What a client knows of its orders.                                      *)

(* What a status says of an order of n shares with l left.                 *)
StatusFits(status, n, l) ==
  /\ status = "NEW" => l = n
  /\ status = "PARTIALLY_FILLED" => l \in 1 .. n - 1
  /\ status \in {"FILLED", "CANCELED"} => l = 0

(* The last report on order o in q says what is left of it.                *)
LastOf(q, o, i) == i \in 1..Len(q) /\ q[i].order = o
                   /\ \A j \in 1..Len(q) : q[j].order = o => j <= i

Heard(q, o, n, l) ==
  \E i \in 1..Len(q) : /\ LastOf(q, o, i)
                       /\ q[i].leaves = l /\ StatusFits(q[i].status, n, l)

(* The inductive form of ClientKnows: it is the order's count the reports  *)
(* give, at every moment, and the reports reach the owner while the order  *)
(* has a server.                                                           *)
Knows(o) ==
  Known(o) =>
    /\ leaves[o] <= form[o].qty
    /\ history[o] = <<>> =>
         \E s \in Sessions : handler[s].at = "get_book" /\ handler[s].order = o
    /\ session[form[o].owner] = "up" =>
         /\ server[o] = form[o].owner \/ history[o] = <<"Rejected">>
         /\ history[o] # <<>> =>
              Heard(out.sent[form[o].owner], o, form[o].qty, leaves[o])

KnowsInv == \A o \in OrderIds : Knows(o)

LEMMA KnowsInit == Init => KnowsInv
  BY DEF Init, KnowsInv, Knows, Known

LEMMA HeardLast ==
  ASSUME NEW q \in Seq(Reports), NEW report \in Reports, NEW o, NEW n, NEW l,
         report.order = o, report.leaves = l, StatusFits(report.status, n, l)
  PROVE  Heard(Append(q, report), o, n, l)
<1>1. PICK v, m : v = Append(q, report) /\ m = Len(q) + 1
  OBVIOUS
<1>2. Len(v) = m /\ m \in Nat /\ m >= 1 /\ v[m] = report
  BY <1>1
<1>3. m \in 1..Len(v) /\ \A j \in 1..Len(v) : j <= m
  BY <1>2
<1>4. LastOf(v, o, m)
  BY <1>2, <1>3 DEF LastOf
<1> QED
  BY <1>1, <1>2, <1>3, <1>4 DEF Heard

LEMMA HeardStill ==
  ASSUME NEW q \in Seq(Reports), NEW report \in Reports, NEW o, NEW n, NEW l,
         report.order # o, Heard(q, o, n, l)
  PROVE  Heard(Append(q, report), o, n, l)
<1>1. PICK v, m : v = Append(q, report) /\ m = Len(q)
  OBVIOUS
<1>2. /\ m \in Nat /\ Len(v) = m + 1 /\ v[m + 1] = report
      /\ \A i \in 1..m : v[i] = q[i] /\ i \in 1..Len(v)
  BY <1>1
<1>3. PICK i \in 1..m : /\ LastOf(q, o, i)
                        /\ q[i].leaves = l /\ StatusFits(q[i].status, n, l)
  BY <1>1 DEF Heard
<1>4. ASSUME NEW j \in 1..Len(v), v[j].order = o PROVE j <= i
  <2>1. j # m + 1
    BY <1>2, <1>4
  <2>2. j \in 1..m
    BY <1>2, <2>1
  <2>3. q[j].order = o
    BY <1>2, <1>4, <2>2
  <2> QED
    BY <1>1, <1>3, <2>2, <2>3 DEF LastOf
<1>5. v[i] = q[i] /\ i \in 1..Len(v)
  BY <1>2, <1>3
<1>6. LastOf(v, o, i)
  BY <1>3, <1>4, <1>5 DEF LastOf
<1> QED
  BY <1>1, <1>3, <1>5, <1>6 DEF Heard

(* A report is the last its owner has on the order, and does not touch     *)
(* what there is on other orders.                                          *)
LEMMA HeardTold ==
  ASSUME SessionTypes, NEW w, ReportsOK(w), NEW v, NEW o, NEW type, NEW status,
         NEW left, Told(v, w, o, type, status, left)
  PROVE  /\ \A n : /\ session[form[o].owner] = "up" /\ server[o] = form[o].owner
                   /\ StatusFits(status, n, left)
                   => Heard(v.sent[form[o].owner], o, n, left)
         /\ \A u \in Sessions : \A p, n, l :
              p # o /\ Heard(w.sent[u], p, n, l) => Heard(v.sent[u], p, n, l)
<1> USE DEF Told
<1>1. CASE server[o] = None
  <2>1. v = w
    BY <1>1 DEF Emit
  <2>2. form[o].owner # None
    BY ExchangeAssumption DEF Forms
  <2> QED
    BY <1>1, <2>1, <2>2
<1>2. CASE server[o] # None
  <2>1. PICK s \in Sessions : s = server[o]
    BY <1>2 DEF SessionTypes
  <2>2. PICK report : report = [exec |-> w.execId + 1, order |-> o, type |-> type,
                                status |-> status, leaves |-> left,
                                cum |-> form[o].qty - left]
    OBVIOUS
  <2>3. /\ report \in Reports /\ report.order = o /\ report.leaves = left
        /\ report.status = status
    <3>1. form[o].qty \in Nat
      BY ExchangeAssumption DEF Forms
    <3>2. form[o].qty - left \in Int
      BY <3>1
    <3>3. w.execId + 1 \in Nat
      BY DEF ReportsOK
    <3> QED
      BY <2>2, <3>2, <3>3 DEF Reports
  <2>4. v.sent = IF session[s] = "up" THEN [w.sent EXCEPT ![s] = Append(@, report)]
                                      ELSE w.sent
    BY <1>2, <2>1, <2>2 DEF Emit
  <2>5. w.sent \in [Sessions -> Seq(Reports)]
    BY DEF ReportsOK
  <2>6. \A u \in Sessions : \/ v.sent[u] = w.sent[u]
                            \/ v.sent[u] = Append(w.sent[u], report)
    BY <2>4, <2>5
  <2>7. ASSUME NEW u \in Sessions, NEW p, NEW n, NEW l, p # o,
               Heard(w.sent[u], p, n, l)
        PROVE  Heard(v.sent[u], p, n, l)
    <3>1. PICK q \in Seq(Reports) : q = w.sent[u]
      BY <2>5
    <3>2. Heard(Append(q, report), p, n, l)
      BY <2>3, <2>7, <3>1, HeardStill
    <3> QED
      BY <2>6, <2>7, <3>1, <3>2
  <2>8. ASSUME NEW n, session[form[o].owner] = "up", server[o] = form[o].owner,
               StatusFits(status, n, left)
        PROVE  Heard(v.sent[form[o].owner], o, n, left)
    <3>1. PICK q \in Seq(Reports) : q = w.sent[s]
      BY <2>5
    <3>2. v.sent[s] = Append(q, report)
      BY <2>1, <2>4, <2>5, <2>8, <3>1
    <3>3. Heard(Append(q, report), o, n, left)
      BY <2>3, <2>8, HeardLast
    <3> QED
      BY <2>1, <2>8, <3>2, <3>3
  <2> QED
    BY <2>7, <2>8
<1> QED
  BY <1>1, <1>2

(* Steps that say nothing of order p.                                      *)
Passed(p) ==
  /\ UNCHANGED <<form[p], leaves[p], history[p]>>
  /\ \A s \in Sessions : session'[s] = "up" => session[s] = "up"
  /\ server'[p] = server[p] \/ session'[server[p]] # "up"
  /\ \A s \in Sessions : handler[s].at = "get_book" /\ handler[s].order = p =>
       handler'[s] = handler[s]
  /\ \A s \in Sessions : \A n, l :
       Heard(out.sent[s], p, n, l) => Heard(out'.sent[s], p, n, l)

LEMMA KnowsPassed ==
  ASSUME BookTypes, NEW p \in OrderIds, Knows(p), Passed(p)
  PROVE  Knows(p)'
<1> SUFFICES ASSUME Known(p)' PROVE Knows(p)'
  BY DEF Knows
<1>1. PICK f, l, h : f = form[p] /\ l = leaves[p] /\ h = history[p]
  OBVIOUS
<1>2. form'[p] = f /\ leaves'[p] = l /\ history'[p] = h
  BY <1>1 DEF Passed
<1>3. Known(p) /\ f.owner \in Sessions
  BY <1>1, <1>2 DEF Known, BookTypes, Forms
<1>4. /\ l <= f.qty
      /\ h = <<>> =>
           \E s \in Sessions : handler[s].at = "get_book" /\ handler[s].order = p
      /\ session[f.owner] = "up" =>
           /\ server[p] = f.owner \/ h = <<"Rejected">>
           /\ h # <<>> => Heard(out.sent[f.owner], p, f.qty, l)
  BY <1>1, <1>3 DEF Knows
<1>5. h = <<>> =>
        \E s \in Sessions : handler'[s].at = "get_book" /\ handler'[s].order = p
  BY <1>4 DEF Passed
<1>6. session'[f.owner] = "up" => session[f.owner] = "up"
  BY <1>3 DEF Passed
<1>7. session'[f.owner] = "up" => server'[p] = f.owner \/ h = <<"Rejected">>
  BY <1>3, <1>4, <1>6 DEF Passed
<1>8. session'[f.owner] = "up" /\ h # <<>> => Heard(out'.sent[f.owner], p, f.qty, l)
  BY <1>3, <1>4, <1>6 DEF Passed
<1> QED
  BY <1>2, <1>4, <1>5, <1>7, <1>8 DEF Knows

(* Steps that report on order o, once, what is left of it.                 *)
Speaks(o, x, type, status, left) ==
  /\ Told(out', out, o, type, status, left)
  /\ UNCHANGED <<form, session>>
  /\ x \in States /\ Record(o, x)
  /\ leaves' = [leaves EXCEPT ![o] = left]
  /\ left <= form[o].qty
  /\ StatusFits(status, form[o].qty, left)
  /\ history[o] # <<"Rejected">>
  /\ \/ server' = server
     \/ server' = [server EXCEPT ![o] = None] /\ history[o] = <<>> /\ x = "Rejected"
  /\ \A s \in Sessions : handler[s].at = "get_book" /\ handler[s].order # o =>
       handler'[s] = handler[s]

LEMMA KnowsSpoken ==
  ASSUME SessionInv, BookInv, HistoryInv, AgreeInv, OutInv, KnowsInv,
         NEW o, NEW x, NEW type, NEW status, NEW left,
         Speaks(o, x, type, status, left)
  PROVE  KnowsInv'
<1> USE DEF Speaks
<1>1. /\ o \in OrderIds /\ form[o] \in Forms /\ Known(o) /\ form[o].owner \in Sessions
      /\ SessionTypes /\ ReportsOK(out)
  BY NoneAssumption DEF Told, Known, SessionInv, OutInv, Forms
<1>2. ASSUME NEW p \in OrderIds \ {o} PROVE Knows(p)'
  <2>1. UNCHANGED <<form[p], leaves[p], history[p], server[p]>>
    BY <1>1 DEF Record, AgreeInv, HistoryInv, SessionTypes
  <2>2. \A s \in Sessions : \A n, l :
          Heard(out.sent[s], p, n, l) => Heard(out'.sent[s], p, n, l)
    BY <1>1, HeardTold
  <2>3. Passed(p)
    BY <2>1, <2>2 DEF Passed
  <2> QED
    BY <2>3, KnowsPassed DEF KnowsInv, BookInv
<1>3. Knows(o)'
  <2>1. PICK h : h = history[o] /\ h \in Seq(States)
    BY <1>1 DEF HistoryInv
  <2>2. history'[o] = Append(h, x) /\ Append(h, x) # <<>>
    <3>1. history'[o] = Append(h, x)
      BY <1>1, <2>1 DEF Record, HistoryInv
    <3>2. Len(Append(h, x)) = Len(h) + 1 /\ Len(h) \in Nat
      BY <2>1
    <3>3. Append(h, x) # <<>>
      <4>1. Len(Append(h, x)) # 0 /\ Len(<<>>) = 0
        BY <3>2
      <4> QED
        BY <4>1, Zenon
    <3> QED
      BY <3>1, <3>3, Zenon
  <2>3. leaves'[o] = left
    BY <1>1 DEF AgreeInv
  <2>4. session[form[o].owner] = "up" => server[o] = form[o].owner
    BY <1>1 DEF KnowsInv, Knows
  <2>5. session[form[o].owner] = "up" =>
          Heard(out'.sent[form[o].owner], o, form[o].qty, left)
    BY <1>1, <2>4, HeardTold
  <2>6. session[form[o].owner] = "up" =>
          server'[o] = form[o].owner \/ history'[o] = <<"Rejected">>
    <3>1. CASE server' = server
      BY <2>4, <3>1
    <3>2. CASE h = <<>> /\ x = "Rejected"
      BY <2>2, <3>2
    <3> QED
      BY <2>1, <3>1, <3>2
  <2> QED
    BY <2>2, <2>3, <2>5, <2>6 DEF Knows
<1> QED
  BY <1>2, <1>3 DEF KnowsInv

LEMMA KnowsNew ==
  ASSUME SessionInv, BookInv, HistoryInv, AgreeInv, KnowsInv,
         NEW s \in Sessions, NEW f \in Forms, NewOrderSingle(s, f)
  PROVE  KnowsInv'
<1>1. PICK o : o = lastId + 1
  OBVIOUS
<1>2. o \in OrderIds /\ o > lastId
  BY <1>1, ExchangeAssumption DEF NewOrderSingle, SessionInv, SessionTypes, OrderIds
<1>3. /\ form' = [form EXCEPT ![o] = f] /\ leaves' = [leaves EXCEPT ![o] = f.qty]
      /\ server' = [server EXCEPT ![o] = s] /\ f.owner = s
      /\ handler' = [handler EXCEPT ![s] = [at |-> "get_book", order |-> o]]
      /\ handler[s].at = "idle"
      /\ UNCHANGED <<history, session, out>>
  BY <1>1 DEF NewOrderSingle
<1>4. ASSUME NEW p \in OrderIds \ {o} PROVE Knows(p)'
  <2>1. UNCHANGED <<form[p], leaves[p], history[p], server[p]>>
    BY <1>3 DEF BookInv, BookTypes, AgreeInv, SessionInv, SessionTypes
  <2>2. \A t \in Sessions : handler[t].at = "get_book" => handler'[t] = handler[t]
    BY <1>3 DEF SessionInv, SessionTypes
  <2>3. Passed(p)
    BY <1>3, <2>1, <2>2 DEF Passed
  <2> QED
    BY <2>3, KnowsPassed DEF KnowsInv, BookInv
<1>5. Knows(o)'
  <2>1. /\ form'[o] = f /\ leaves'[o] = f.qty /\ server'[o] = s /\ history'[o] = <<>>
        /\ handler'[s] = [at |-> "get_book", order |-> o]
    BY <1>2, <1>3
    DEF BookInv, BookTypes, AgreeInv, SessionInv, SessionTypes, HistoryInv
  <2>2. f.qty \in Nat
    BY ExchangeAssumption DEF Forms
  <2> QED
    BY <1>3, <2>1, <2>2 DEF Knows
<1> QED
  BY <1>4, <1>5 DEF KnowsInv

(* Both orders of a fill are told of it.                                   *)
LEMMA KnowsFilled ==
  ASSUME SessionInv, BookInv, HistoryInv, AgreeInv, OutInv, KnowsInv, AgreeInv',
         NEW s \in Sessions, OnFill(s)
  PROVE  KnowsInv'
<1>1. PICK o, y, old, c : /\ o = handler[s].order /\ y = form[o].sym
                          /\ old = callbacks[y] /\ c = old[1]
  OBVIOUS
<1>2. Calling(s, "fill")
  BY DEF OnFill
<1>3. /\ handler[s].at = "call" /\ o \in OrderIds /\ form[o] \in Forms
      /\ old \in Seq(CallbackRecords) /\ old # <<>>
      /\ c = Head(old) /\ c \in CallbackRecords /\ c.kind = "fill"
      /\ c.other \in OrderIds /\ form[c.other] \in Forms /\ QueuedFill(c, o)
  BY <1>1, <1>2, CallbackMade
<1>4. PICK r, n, lo, lr : /\ r = c.other /\ n = c.qty
                          /\ lo = leaves[o] - n /\ lr = leaves[r] - n
  OBVIOUS
<1>5. /\ r \in OrderIds /\ r # o /\ form[r] \in Forms /\ n \in Nat /\ n > 0
  BY <1>1, <1>3, <1>4 DEF QueuedFill, CallbackRecords
<1>6. /\ leaves' = [leaves EXCEPT ![o] = lo, ![r] = lr]
      /\ history' = [history EXCEPT ![o] = Append(@, "Filled"),
                                    ![r] = Append(@, "Filled")]
      /\ UNCHANGED <<form, session, server, handler>>
  BY <1>1, <1>3, <1>4 DEF OnFill, sessionVars
<1>7. Live(history[o]) /\ Live(history[r])
  <2>1. ThreadHistory(s) /\ InABook(s) /\ 1 \in 1..Len(old)
    BY <1>3 DEF HistoryInv, InABook
  <2> QED
    BY <1>1, <1>3, <1>4, <2>1 DEF ThreadHistory
<1>8. /\ leaves'[o] = lo /\ leaves'[r] = lr
      /\ \A q \in OrderIds \ {o, r} : leaves'[q] = leaves[q]
      /\ lo \in Nat /\ lr \in Nat /\ leaves[o] \in Nat /\ leaves[r] \in Nat
  <2>1. leaves'[o] = lo /\ leaves'[r] = lr
    BY <1>3, <1>5, <1>6 DEF AgreeInv
  <2> QED
    BY <1>3, <1>5, <1>6, <2>1 DEF AgreeInv
<1>9. \A q \in OrderIds \ {o, r} : history'[q] = history[q]
  BY <1>6 DEF HistoryInv
<1>10. /\ SessionTypes /\ ReportsOK(out) /\ Known(o) /\ Known(r)
       /\ form[o].owner \in Sessions /\ form[r].owner \in Sessions
  BY <1>3, <1>5, NoneAssumption DEF SessionInv, OutInv, Known, Forms
<1>11. ASSUME NEW q \in {o, r}
       PROVE  /\ history'[q] # <<>> /\ history'[q] # <<"Rejected">>
              /\ leaves[q] <= form[q].qty /\ form[q].qty \in Nat
              /\ session[form[q].owner] = "up" => server[q] = form[q].owner
  <2>1. q \in OrderIds /\ Knows(q) /\ Known(q) /\ form[q] \in Forms
    BY <1>3, <1>5, <1>10 DEF KnowsInv
  <2>2. PICK h : h = history[q] /\ h \in Seq(States) /\ Len(h) >= 2
    BY <1>7 DEF Live
  <2>3. history'[q] = Append(h, "Filled")
    BY <1>3, <1>5, <1>6, <2>2 DEF HistoryInv
  <2>4. PICK x : x = "Filled" /\ x \in States
    BY DEF States
  <2>5. Len(Append(h, x)) = Len(h) + 1 /\ Len(h) \in Nat
    BY <2>2, <2>4
  <2>6. Len(<<>>) = 0 /\ Len(<<"Rejected">>) = 1
    OBVIOUS
  <2>7. history'[q] # <<>> /\ history'[q] # <<"Rejected">> /\ h # <<"Rejected">>
    BY <2>2, <2>3, <2>4, <2>5, <2>6
  <2> QED
    BY <2>1, <2>2, <2>7, ExchangeAssumption DEF Knows, Forms
<1>12. PICK w, so, sr : /\ so = FillStatus(lo) /\ sr = FillStatus(lr)
                        /\ w = Emit(out, o, "TRADE", so, lo)
  OBVIOUS
<1>13. /\ so \in OrdStatuses /\ sr \in OrdStatuses
       /\ StatusFits(so, form[o].qty, lo) /\ StatusFits(sr, form[r].qty, lr)
  <2>1. /\ lo < form[o].qty /\ lr < form[r].qty
        /\ form[o].qty \in Nat /\ form[r].qty \in Nat
    BY <1>4, <1>5, <1>8, <1>11
  <2> QED
    BY <1>8, <1>12, <2>1 DEF FillStatus, OrdStatuses, StatusFits
<1>14. out' = Emit(w, r, "TRADE", sr, lr)
  BY <1>1, <1>3, <1>4, <1>12 DEF OnFill, OnFilled
<1>15. Told(w, out, o, "TRADE", so, lo) /\ Told(out', w, r, "TRADE", sr, lr)
  BY <1>3, <1>5, <1>8, <1>12, <1>13, <1>14 DEF Told, ExecTypes
<1>16. ReportsOK(w)
  BY <1>10, <1>15, Reported
<1>17. \A u \in Sessions : \A p, k, l : p # o =>
         (Heard(out.sent[u], p, k, l) => Heard(w.sent[u], p, k, l))
  BY <1>10, <1>15, HeardTold
<1>18. \A u \in Sessions : \A p, k, l : p # r =>
         (Heard(w.sent[u], p, k, l) => Heard(out'.sent[u], p, k, l))
  BY <1>10, <1>15, <1>16, HeardTold
<1>19. ASSUME NEW q \in OrderIds \ {o, r} PROVE Knows(q)'
  <2>1. Passed(q)
    BY <1>6, <1>8, <1>9, <1>17, <1>18 DEF Passed
  <2> QED
    BY <2>1, KnowsPassed DEF KnowsInv, BookInv
<1>20. Knows(o)'
  <2>1. session[form[o].owner] = "up" =>
          Heard(w.sent[form[o].owner], o, form[o].qty, lo)
    BY <1>10, <1>11, <1>13, <1>15, HeardTold
  <2>2. session[form[o].owner] = "up" =>
          Heard(out'.sent[form[o].owner], o, form[o].qty, lo)
    BY <1>5, <1>10, <1>18, <2>1
  <2>3. lo <= form[o].qty
    BY <1>4, <1>5, <1>8, <1>11
  <2> QED
    BY <1>6, <1>8, <1>11, <2>2, <2>3 DEF Knows
<1>21. Knows(r)'
  <2>1. session[form[r].owner] = "up" =>
          Heard(out'.sent[form[r].owner], r, form[r].qty, lr)
    BY <1>10, <1>11, <1>13, <1>15, <1>16, HeardTold
  <2>2. lr <= form[r].qty
    BY <1>4, <1>5, <1>8, <1>11
  <2> QED
    BY <1>6, <1>8, <1>11, <2>1, <2>2 DEF Knows
<1> QED
  BY <1>19, <1>20, <1>21 DEF KnowsInv

LEMMA NothingRejectedHere ==
  ASSUME NEW i, NEW h \in Seq(States), h[i] = "Accepted", i \in DOMAIN h
  PROVE  h # <<"Rejected">> /\ h # <<>>
<1>1. PICK g : g = <<"Rejected">>
  OBVIOUS
<1>2. Len(g) = 1 /\ g[1] = "Rejected"
  BY <1>1
<1>3. i \in 1..Len(h)
  OBVIOUS
<1>4. h # g
  BY <1>2, <1>3
<1>5. h # <<>>
  BY <1>3
<1> QED
  BY <1>1, <1>4, <1>5

LEMMA KnowsStep ==
  ASSUME SessionInv, BookInv, HistoryInv, AgreeInv, OutInv, KnowsInv, [Next]_vars
  PROVE  KnowsInv'
<1>1. AgreeInv'
  BY AgreeStep
<1>2. leaves \in [OrderIds -> Nat]
  BY DEF AgreeInv
<1>3. ASSUME NEW s \in Sessions, NEW f \in Forms, NewOrderSingle(s, f)
      PROVE  KnowsInv'
  BY <1>3, KnowsNew
<1>4. ASSUME NEW s \in Sessions, Submit(s) \/ Refuse(s) \/ OnAccept(s) \/ OnReject(s)
      PROVE  KnowsInv'
  <2>1. PICK o : o = handler[s].order
    OBVIOUS
  <2>2. /\ handler[s].at # "idle" /\ o \in OrderIds /\ form[o] \in Forms
        /\ leaves[o] \in Nat /\ form[o].qty \in Nat
    BY <1>2, <1>4, <2>1, Handled, ExchangeAssumption
    DEF Submit, Refuse, OnAccept, OnReject, Calling, BookInv, Forms
  <2>3. leaves[o] <= form[o].qty
    BY <2>2, NoneAssumption DEF KnowsInv, Knows, Known
  <2>4. [leaves EXCEPT ![o] = leaves[o]] = leaves
    BY <1>2
  <2>5. \A t \in Sessions : handler[t].at = "get_book" /\ handler[t].order # o =>
          handler'[t] = handler[t]
    BY <1>4, <2>1
    DEF Submit, Refuse, OnAccept, OnReject, SessionInv, SessionTypes
  <2>6. CASE Submit(s)
    <3>1. history[o] = <<>>
      BY <2>1, <2>6 DEF HistoryInv, ThreadHistory, Submit
    <3>2. Told(out', out, o, "NEW", "PENDING_NEW", leaves[o])
      BY <2>1, <2>2, <2>6 DEF Submit, Told, ExecTypes, OrdStatuses
    <3>3. /\ Record(o, "Submitted") /\ UNCHANGED <<form, session, server, leaves>>
      BY <2>1, <2>6 DEF Submit, sessionVars
    <3>4. StatusFits("PENDING_NEW", form[o].qty, leaves[o])
      BY DEF StatusFits
    <3>5. Speaks(o, "Submitted", "NEW", "PENDING_NEW", leaves[o])
      BY <2>3, <2>4, <2>5, <3>1, <3>2, <3>3, <3>4 DEF Speaks, States
    <3> QED
      BY <3>5, KnowsSpoken
  <2>7. CASE Refuse(s)
    <3>1. history[o] = <<>>
      BY <2>1, <2>7 DEF HistoryInv, ThreadHistory, Refuse
    <3>2. Told(out', out, o, "REJECTED", "REJECTED", 0)
      BY <2>1, <2>2, <2>7 DEF Refuse, Told, ExecTypes, OrdStatuses
    <3>3. /\ Record(o, "Rejected") /\ UNCHANGED <<form, session>>
          /\ leaves' = [leaves EXCEPT ![o] = 0]
          /\ server' = [server EXCEPT ![o] = None]
      BY <2>1, <2>7 DEF Refuse
    <3>4. StatusFits("REJECTED", form[o].qty, 0) /\ 0 <= form[o].qty
      BY <2>2 DEF StatusFits
    <3>5. Speaks(o, "Rejected", "REJECTED", "REJECTED", 0)
      BY <2>5, <3>1, <3>2, <3>3, <3>4 DEF Speaks, States
    <3> QED
      BY <3>5, KnowsSpoken
  <2>8. ASSUME NEW k, Calling(s, k), k # "fill"
        PROVE  /\ history[o] = <<"Submitted">> /\ history[o] # <<"Rejected">>
               /\ k = "accept" => leaves[o] = form[o].qty
    <3>1. PICK y, old, c : y = form[o].sym /\ old = callbacks[y] /\ c = old[1]
      OBVIOUS
    <3>2. /\ handler[s].at = "call" /\ old \in Seq(CallbackRecords) /\ old # <<>>
          /\ c.kind = k
      BY <2>1, <2>8, <3>1, CallbackMade
    <3>3. InABook(s) /\ 1 \in 1..Len(old) /\ ThreadHistory(s) /\ Owed(s)
      BY <3>2 DEF InABook, HistoryInv, AgreeInv
    <3>4. history[o] = <<"Submitted">>
      BY <2>1, <2>8, <3>1, <3>2, <3>3 DEF ThreadHistory
    <3>5. <<"Submitted">>[1] # <<"Rejected">>[1]
      OBVIOUS
    <3>6. history[o] # <<"Rejected">>
      BY <3>4, <3>5
    <3>7. k = "accept" => leaves[o] = form[o].qty
      BY <2>1, <3>1, <3>2, <3>3 DEF Owed
    <3> QED
      BY <3>4, <3>6, <3>7
  <2>9. CASE OnAccept(s)
    <3>1. history[o] # <<"Rejected">> /\ leaves[o] = form[o].qty
      BY <2>8, <2>9 DEF OnAccept
    <3>2. Told(out', out, o, "PENDING_NEW", "NEW", leaves[o])
      BY <2>1, <2>2, <2>9 DEF OnAccept, Told, ExecTypes, OrdStatuses
    <3>3. /\ Record(o, "Accepted") /\ UNCHANGED <<form, session, server, leaves>>
      BY <2>1, <2>9 DEF OnAccept, sessionVars
    <3>4. StatusFits("NEW", form[o].qty, leaves[o])
      BY <3>1 DEF StatusFits
    <3>5. Speaks(o, "Accepted", "PENDING_NEW", "NEW", leaves[o])
      BY <2>3, <2>4, <2>5, <3>1, <3>2, <3>3, <3>4 DEF Speaks, States
    <3> QED
      BY <3>5, KnowsSpoken
  <2>10. CASE OnReject(s)
    <3>1. history[o] # <<"Rejected">>
      BY <2>8, <2>10 DEF OnReject
    <3>2. Told(out', out, o, "REJECTED", "REJECTED", 0)
      BY <2>1, <2>2, <2>10 DEF OnReject, Told, ExecTypes, OrdStatuses
    <3>3. /\ Record(o, "Rejected") /\ UNCHANGED <<form, session, server>>
          /\ leaves' = [leaves EXCEPT ![o] = 0]
      BY <2>1, <2>10 DEF OnReject, sessionVars
    <3>4. StatusFits("REJECTED", form[o].qty, 0) /\ 0 <= form[o].qty
      BY <2>2 DEF StatusFits
    <3>5. Speaks(o, "Rejected", "REJECTED", "REJECTED", 0)
      BY <2>5, <3>1, <3>2, <3>3, <3>4 DEF Speaks, States
    <3> QED
      BY <3>5, KnowsSpoken
  <2> QED
    BY <1>4, <2>6, <2>7, <2>9, <2>10
<1>5. ASSUME NEW s \in Sessions, OnFill(s) PROVE KnowsInv'
  BY <1>1, <1>5, KnowsFilled
<1>6. ASSUME UNCHANGED <<form, leaves, history, out>>,
             \A s \in Sessions : session'[s] = "up" => session[s] = "up",
             \A p \in OrderIds : server'[p] = server[p] \/ session'[server[p]] # "up",
             \A s \in Sessions : handler[s].at = "get_book" => handler'[s] = handler[s]
      PROVE  KnowsInv'
  <2>1. ASSUME NEW p \in OrderIds PROVE Passed(p)
    BY <1>6 DEF Passed
  <2> QED
    BY <2>1, KnowsPassed DEF KnowsInv, BookInv
<1>7. ASSUME NEW s \in Sessions,
             \/ EnterBook(s) \/ (\E r \in OrderIds : Match(s, r)) \/ Rest(s)
             \/ Finish(s)
      PROVE  KnowsInv'
  <2>1. UNCHANGED <<form, leaves, history, out, session, server>>
    BY <1>7
    DEF EnterBook, Match, MatchWith, Rest, Finish, orderVars, sessionVars
  <2>2. /\ handler[s].at # "get_book"
        /\ \A t \in Sessions \ {s} : handler'[t] = handler[t]
    BY <1>7
    DEF EnterBook, Match, MatchWith, Rest, Finish, SessionInv, SessionTypes
  <2> QED
    BY <1>6, <2>1, <2>2
<1>8. ASSUME NEW s \in Sessions, Disconnect(s) PROVE KnowsInv'
  <2>1. /\ UNCHANGED <<form, leaves, history, out, server, handler>>
        /\ session' = [session EXCEPT ![s] = "down"]
    BY <1>8 DEF Disconnect, orderVars
  <2>2. \A t \in Sessions : session'[t] = "up" => session[t] = "up"
    BY <2>1 DEF SessionInv, SessionTypes
  <2> QED
    BY <1>6, <2>1, <2>2
<1>9. ASSUME NEW s \in Sessions, CloseStep(s) PROVE KnowsInv'
  <2>1. UNCHANGED <<form, leaves, history, out, handler>>
    BY <1>9 DEF CloseStep, CloseSession, Unlink, EndSession, orderVars
  <2>2. CASE CloseSession(s) \/ EndSession(s)
    <3>1. server' = server /\ \A t \in Sessions : session'[t] = "up" => session[t] = "up"
      BY <2>2 DEF CloseSession, EndSession, SessionInv, SessionTypes
    <3> QED
      BY <1>6, <2>1, <3>1
  <2>3. CASE \E o \in OrderIds : Unlink(s, o)
    <3>1. session' = session /\ session[s] # "up"
      BY <2>3 DEF Unlink
    <3>2. \A p \in OrderIds : server'[p] = server[p] \/ server[p] = s
      BY <2>3 DEF Unlink, SessionInv, SessionTypes
    <3> QED
      BY <1>6, <2>1, <3>1, <3>2
  <2> QED
    BY <1>9, <2>2, <2>3 DEF CloseStep
<1>10. ASSUME NEW o \in OrderIds, Request(o)
       PROVE  /\ form[o] \in Forms /\ leaves[o] \in Nat /\ form[o].qty \in Nat
              /\ leaves[o] <= form[o].qty
              /\ history[o] # <<"Rejected">>
              /\ [leaves EXCEPT ![o] = leaves[o]] = leaves
  <2>1. form[o] \in Forms
    BY <1>10, KnownOrder DEF Request
  <2>2. PICK i \in DOMAIN history[o] : history[o][i] = "Accepted"
    BY <1>10 DEF Request
  <2>3. history[o] # <<"Rejected">>
    <3>1. PICK h \in Seq(States) : h = history[o]
      BY DEF HistoryInv
    <3> QED
      BY <2>2, <3>1, NothingRejectedHere
  <2> QED
    BY <1>2, <2>1, <2>3, NoneAssumption, ExchangeAssumption
    DEF KnowsInv, Knows, Known, Forms
<1>11. ASSUME NEW o \in OrderIds, CancelOrder(o) PROVE KnowsInv'
  <2>1. Request(o)
    BY <1>11 DEF CancelOrder
  <2>2. /\ form[o] \in Forms /\ form[o].qty \in Nat /\ history[o] # <<"Rejected">>
    BY <1>10, <2>1
  <2>3. Told(out', out, o, "CANCELED", "CANCELED", 0)
    BY <1>11, <2>2 DEF CancelOrder, Told, ExecTypes, OrdStatuses
  <2>4. /\ Record(o, "Cancelled") /\ UNCHANGED <<form, session, server, handler>>
        /\ leaves' = [leaves EXCEPT ![o] = 0]
    BY <1>11 DEF CancelOrder, sessionVars
  <2>5. StatusFits("CANCELED", form[o].qty, 0) /\ 0 <= form[o].qty
    BY <2>2 DEF StatusFits
  <2>6. Speaks(o, "Cancelled", "CANCELED", "CANCELED", 0)
    BY <2>2, <2>3, <2>4, <2>5 DEF Speaks, States
  <2> QED
    BY <2>6, KnowsSpoken
<1>12. ASSUME NEW o \in OrderIds, NEW x, NEW type, NEW status,
              Request(o), Record(o, x),
              x \in {"Modified", "CancelRejected", "ModifyRejected"},
              type \in {"REPLACED", "REJECTED"}, status \in {"REPLACED", "REJECTED"},
              out' = Emit(out, o, type, status, leaves[o]),
              UNCHANGED <<form, leaves, session, server, handler>>
       PROVE  KnowsInv'
  <2>1. /\ form[o] \in Forms /\ leaves[o] \in Nat /\ leaves[o] <= form[o].qty
        /\ history[o] # <<"Rejected">> /\ leaves' = [leaves EXCEPT ![o] = leaves[o]]
    BY <1>10, <1>12
  <2>2. Told(out', out, o, type, status, leaves[o])
    BY <1>12, <2>1 DEF Told, ExecTypes, OrdStatuses
  <2>3. StatusFits(status, form[o].qty, leaves[o])
    BY <1>12 DEF StatusFits
  <2>4. Speaks(o, x, type, status, leaves[o])
    BY <1>12, <2>1, <2>2, <2>3 DEF Speaks, States
  <2> QED
    BY <2>4, KnowsSpoken
<1>13. ASSUME NEW o \in OrderIds, ModifyOrder(o) PROVE KnowsInv'
  <2>1. /\ Request(o) /\ Record(o, "Modified")
        /\ out' = Emit(out, o, "REPLACED", "REPLACED", leaves[o])
        /\ UNCHANGED <<form, leaves, session, server, handler>>
    BY <1>13 DEF ModifyOrder, sessionVars
  <2> QED
    BY <1>12, <2>1
<1>14. ASSUME NEW o \in OrderIds, NEW x, x \in {"CancelRejected", "ModifyRejected"},
              RequestRejected(o, x)
       PROVE  KnowsInv'
  <2>1. /\ Request(o) /\ Record(o, x)
        /\ out' = Emit(out, o, "REJECTED", "REJECTED", leaves[o])
        /\ UNCHANGED <<form, leaves, session, server, handler>>
    BY <1>14 DEF RequestRejected, sessionVars
  <2> QED
    BY <1>12, <1>14, <2>1
<1>15. CASE UNCHANGED vars
  BY <1>6, <1>15 DEF vars, orderVars, sessionVars
<1> QED
  BY <1>3, <1>4, <1>5, <1>7, <1>8, <1>9, <1>11, <1>13, <1>14, <1>15
  DEF Next, HandlerStep

LEMMA KnowsFollows ==
  SessionInv /\ BookInv /\ HistoryInv /\ AgreeInv /\ OutInv /\ KnowsInv => ClientKnows
<1> SUFFICES ASSUME SessionInv, BookInv, HistoryInv, AgreeInv, OutInv, KnowsInv,
                    NEW o \in OrderIds, Entered(o), session[form[o].owner] = "up",
                    ~Busy(form[o].sym)
             PROVE  LET last == LastReport(o)
                    IN  /\ last.leaves = open[o]
                        /\ last.status = "NEW" => open[o] = form[o].qty
                        /\ last.status = "PARTIALLY_FILLED" =>
                             open[o] \in 1..form[o].qty - 1
                        /\ last.status \in {"FILLED", "CANCELED"} => open[o] = 0
  BY DEF ClientKnows
<1>1. Known(o) /\ form[o] \in Forms /\ form[o].sym \in Symbols
  BY EnteredIs DEF Entered
<1>2. leaves[o] = open[o]
  <2>1. callbacks[form[o].sym] = <<>>
    BY <1>1 DEF BookInv
  <2>2. leaves[o] = open[o] + ToldBy(<<>>, o)
    BY <2>1 DEF AgreeInv, LeavesAgree, Untold
  <2>3. open[o] \in Nat
    BY DEF BookInv, BookTypes
  <2> QED
    BY <2>2, <2>3, ToldByNobody
<1>3. history[o] # <<>>
  BY <1>1 DEF KnowsInv, Knows, Entered
<1>4. PICK q : q = out.sent[form[o].owner] /\ q \in Seq(Reports)
  BY <1>1 DEF OutInv, ReportsOK, Forms
<1>5. PICK i \in 1..Len(q) :
        /\ LastOf(q, o, i)
        /\ q[i].leaves = leaves[o] /\ StatusFits(q[i].status, form[o].qty, leaves[o])
  BY <1>1, <1>3, <1>4 DEF KnowsInv, Knows, Heard
<1>6. PICK S : S = ReportsOn(o)
  OBVIOUS
<1>7. S \in SUBSET Nat /\ i \in S /\ \A j \in S : i >= j
  <2>1. LastOf(q, o, i)
    BY <1>5
  <2>2. S = {j \in DOMAIN q : q[j].order = o}
    BY <1>4, <1>6 DEF ReportsOn
  <2>3. DOMAIN q = 1..Len(q) /\ Len(q) \in Nat
    BY <1>4
  <2> QED
    BY <2>1, <2>2, <2>3 DEF LastOf
<1>8. PICK k : k = Max(S)
  OBVIOUS
<1>9. k \in S /\ \A j \in S : k >= j
  <2>1. \E m \in S : \A j \in S : m >= j
    BY <1>7
  <2> QED
    BY <1>8, <2>1, Zenon DEF Max
<1>10. k = i
  <2>1. k \in Nat /\ i \in Nat /\ k >= i /\ i >= k
    BY <1>7, <1>9
  <2> QED
    BY <2>1
<1>11. LastReport(o) = q[i]
  BY <1>4, <1>6, <1>8, <1>10 DEF LastReport
<1> QED
  BY <1>2, <1>5, <1>11 DEF StatusFits

(* A client that has stayed connected is never misled: once the book of    *)
(* its order is idle, the last execution report it has been sent gives the *)
(* quantity the book has open and a status that fits it, though the report *)
(* may have been made by the thread of another client's session.           *)
THEOREM ClientsKnow == Spec => []ClientKnows
<1>1. Spec => []OutInv
  BY OutInit, OutStep, BookAlways, PTL DEF Spec
<1> QED
  BY <1>1, KnowsInit, KnowsStep, KnowsFollows, SharesAlways, PTL DEF Spec
=============================================================================
