---------------------------- MODULE HistoryProofs ----------------------------
(***************************************************************************)
(* Proofs about the request history: for any processes, entry sizes, bounds, *)
(* crashes and interleavings the file stays ordered, a quiet file is within  *)
(* its bounds, and a process alone loses nothing.                           *)
(***************************************************************************)
EXTENDS History, WellFoundedInduction, TLAPS

Increasing(q) == \A i, j \in DOMAIN q : i < j => q[i] < q[j]

(* Whoever is not idle has made or found a file, and an open line is there.   *)
FilesOf(S) == [lines : Seq(Seq(S)), open : BOOLEAN, blanks : Nat]
LogFile == FilesOf(Entries)
TypeInv ==
  /\ file \in Seq(LogFile)
  /\ \A k \in 1 .. Len(file) : file[k].open => file[k].lines # <<>>
  /\ named \in 0 .. Len(file)
  /\ at \in [Procs -> {"idle", "opened", "written", "appended", "measured",
                   "compacting"}]
  /\ long \in [Procs -> BOOLEAN]
  /\ fd \in [Procs -> 0 .. Len(file)]
  /\ \A p \in Procs : fd[p] # 0 <=> at[p] \in {"opened", "written", "appended"}
  /\ \A p \in Procs : at[p] # "idle" => named # 0
  /\ snapshot \in [Procs -> Seq(Seq(Entries))]
  /\ log \in Seq(Sizes) /\ Len(log) <= MaxAppends
  /\ cleared \in 0 .. Len(log)
  /\ overlapped \in BOOLEAN
  /\ aborts \in 0 .. MaxAborts

(* Every file that ever had the name is ordered, and so is what a compaction   *)
(* has still to write, however old it is.                                     *)
OrderInv ==
  /\ \A k \in 1 .. Len(file) : Increasing(Flat(file[k].lines))
  /\ \A p \in Procs : Increasing(Flat(snapshot[p]))

(* Unless something was cut short, a file out of its bounds is one that        *)
(* somebody has still to measure or to compact.                                *)
WillCompact(p) ==
  \/ at[p] \in {"written", "appended", "compacting"}
  \/ at[p] = "measured" /\ (long[p] \/ Len(Current.lines) > MaxEntries)
SnapshotsFit == \A p \in Procs : at[p] = "compacting" => Fits(snapshot[p])
OpenIsWritten == Current.open => \E p \in Procs : at[p] = "written" /\ fd[p] = named
LongIsSeen == ~Fits(Current.lines) => \E p \in Procs : WillCompact(p)
BoundInv == aborts = 0 => SnapshotsFit /\ OpenIsWritten /\ LongIsSeen

(* One process at a time: the file holds the newest entries without a gap.     *)
IsRetained(kept, lines) ==
  \E n \in 0 .. Len(lines) :
    /\ kept = DropFirst(lines, n)
    /\ \A m \in 0 .. n - 1 : ~Fits(DropFirst(lines, m))
Oldest == Len(log) - Len(Flat(Current.lines))
OneBusy == \A p, q \in Procs : Busy(p) /\ Busy(q) => p = q
OwnFile == \A p \in Procs : fd[p] \in {0, named}
OwnSnapshot ==
  \A p \in Procs : at[p] = "compacting" => IsRetained(snapshot[p], Current.lines)
Newest ==
  /\ Oldest >= cleared
  /\ \A i \in DOMAIN Flat(Current.lines) : Flat(Current.lines)[i] = Oldest + i
AloneInv == OneBusy /\ OwnFile /\ OwnSnapshot /\ Newest

(* ... and one more would not have fitted.                                     *)
Singles(lines) == \A i \in DOMAIN lines : Len(lines[i]) = 1
NoRoom == Oldest > cleared => ~Fits(<<<<Oldest>>>> \o Current.lines)
SinglesInv == aborts = 0 => Singles(Current.lines) /\ NoRoom

HistoryInv ==
  /\ TypeInv /\ OrderInv /\ BoundInv
  /\ ~overlapped => AloneInv /\ SinglesInv

(***************************************************************************)
(* Sequences                                                               *)
(***************************************************************************)
LEMMA LeastNatural ==
  ASSUME NEW T, T \subseteq Nat, T # {}
  PROVE  \E x \in T : \A y \in T : x <= y
<1>1. PICK x \in T : \A y \in T : ~ (<<y, x>> \in OpToRel(<, Nat))
  BY WFMin, NatLessThanWellFounded, Zenon
<1>2. \A y \in T : ~ (y < x)
  BY <1>1 DEF OpToRel
<1> QED  BY <1>2

LEMMA SequenceEquality ==
  ASSUME NEW S, NEW p \in Seq(S), NEW q \in Seq(S), Len(p) = Len(q),
         \A i \in 1 .. Len(p) : p[i] = q[i]
  PROVE  p = q
<1>1. p = [i \in 1 .. Len(p) |-> p[i]] /\ q = [i \in 1 .. Len(q) |-> q[i]]
  OBVIOUS
<1> QED  BY <1>1

LEMMA EmptySequence ==
  ASSUME NEW S, NEW q \in Seq(S), Len(q) = 0
  PROVE  q = <<>>
  OBVIOUS

LEMMA AppendFacts ==
  ASSUME NEW S, NEW q \in Seq(S), NEW x \in S
  PROVE  /\ Append(q, x) \in Seq(S) /\ Len(Append(q, x)) = Len(q) + 1
         /\ \A i \in 1 .. Len(q) : Append(q, x)[i] = q[i]
         /\ Append(q, x)[Len(q) + 1] = x
         /\ Len(q) \in Nat /\ DOMAIN q = 1 .. Len(q)
         /\ DOMAIN Append(q, x) = 1 .. Len(q) + 1
  OBVIOUS

LEMMA ConcatFacts ==
  ASSUME NEW S, NEW p \in Seq(S), NEW q \in Seq(S)
  PROVE  /\ p \o q \in Seq(S) /\ Len(p \o q) = Len(p) + Len(q)
         /\ \A i \in 1 .. Len(p) : (p \o q)[i] = p[i]
         /\ \A i \in 1 .. Len(q) : (p \o q)[Len(p) + i] = q[i]
         /\ Len(p) \in Nat /\ Len(q) \in Nat
         /\ DOMAIN (p \o q) = 1 .. Len(p) + Len(q)
<1>1. /\ p \o q \in Seq(S) /\ Len(p \o q) = Len(p) + Len(q)
      /\ Len(p) \in Nat /\ Len(q) \in Nat
      /\ DOMAIN (p \o q) = 1 .. Len(p) + Len(q)
  OBVIOUS
<1>2. \A i \in 1 .. Len(p) + Len(q) :
        (p \o q)[i] = IF i <= Len(p) THEN p[i] ELSE q[i - Len(p)]
  OBVIOUS
<1>3. \A i \in 1 .. Len(p) : (p \o q)[i] = p[i]
  BY <1>1, <1>2
<1>4. ASSUME NEW i \in 1 .. Len(q) PROVE (p \o q)[Len(p) + i] = q[i]
  <2>1. Len(p) + i \in 1 .. Len(p) + Len(q) /\ ~(Len(p) + i <= Len(p)) /\ (Len(p) + i) - Len(p) = i
    BY <1>1
  <2> QED  BY <1>2, <2>1
<1> QED  BY <1>1, <1>3, <1>4

LEMMA ConcatAppend ==
  ASSUME NEW S, NEW p \in Seq(S), NEW q \in Seq(S), NEW x \in S
  PROVE  p \o Append(q, x) = Append(p \o q, x)
<1>1. /\ Append(q, x) \in Seq(S) /\ p \o q \in Seq(S)
      /\ p \o Append(q, x) \in Seq(S) /\ Append(p \o q, x) \in Seq(S)
  OBVIOUS
<1>2. Len(p \o Append(q, x)) = Len(Append(p \o q, x))
  BY <1>1, ConcatFacts, AppendFacts
<1>3. ASSUME NEW i \in 1 .. Len(p \o Append(q, x))
      PROVE  (p \o Append(q, x))[i] = Append(p \o q, x)[i]
  <2>1. /\ Len(p) \in Nat /\ Len(q) \in Nat
        /\ i \in 1 .. Len(p) \/ \E j \in 1 .. Len(q) + 1 : i = Len(p) + j
    <3>1. Len(p) \in Nat /\ Len(q) \in Nat /\ i \in 1 .. Len(p) + (Len(q) + 1)
      BY <1>1, ConcatFacts, AppendFacts
    <3>2. CASE i > Len(p)
      <4>1. i - Len(p) \in 1 .. Len(q) + 1 /\ i = Len(p) + (i - Len(p))
        BY <3>1, <3>2
      <4> QED  BY <3>1, <4>1
    <3>3. CASE ~(i > Len(p))
      BY <3>1, <3>3
    <3> QED  BY <3>2, <3>3
  <2>2. CASE i \in 1 .. Len(p)
    <3>1. (p \o Append(q, x))[i] = p[i]
      BY <1>1, <2>2, ConcatFacts
    <3>2. (p \o q)[i] = p[i] /\ i \in 1 .. Len(p \o q)
      BY <2>1, <2>2, ConcatFacts
    <3> QED  BY <1>1, <3>1, <3>2, AppendFacts
  <2>3. ASSUME NEW j \in 1 .. Len(q) + 1, i = Len(p) + j
        PROVE  (p \o Append(q, x))[i] = Append(p \o q, x)[i]
    <3>1. (p \o Append(q, x))[i] = Append(q, x)[j]
      BY <1>1, <2>3, ConcatFacts, AppendFacts
    <3>2. CASE j = Len(q) + 1
      <4>1. Append(q, x)[j] = x /\ i = Len(p \o q) + 1
        BY <2>1, <2>3, <3>2, ConcatFacts, AppendFacts
      <4> QED  BY <1>1, <3>1, <4>1, AppendFacts
    <3>3. CASE j \in 1 .. Len(q)
      <4>1. Append(q, x)[j] = q[j] /\ (p \o q)[i] = q[j] /\ i \in 1 .. Len(p \o q)
        BY <2>1, <2>3, <3>3, ConcatFacts, AppendFacts
      <4> QED  BY <1>1, <3>1, <4>1, AppendFacts
    <3> QED  BY <2>1, <3>2, <3>3
  <2> QED  BY <2>1, <2>2, <2>3
<1> QED  BY <1>1, <1>2, <1>3, SequenceEquality

LEMMA SuffixFacts ==
  ASSUME NEW S, NEW q \in Seq(S), NEW n \in 0 .. Len(q)
  PROVE  /\ DropFirst(q, n) \in Seq(S) /\ Len(DropFirst(q, n)) = Len(q) - n
         /\ \A i \in 1 .. Len(q) - n : DropFirst(q, n)[i] = q[n + i]
         /\ SubSeq(q, 1, n) \in Seq(S) /\ Len(SubSeq(q, 1, n)) = n
         /\ \A i \in 1 .. n : SubSeq(q, 1, n)[i] = q[i]
         /\ DropFirst(q, 0) = q
<1>1. Len(q) \in Nat /\ n \in Nat /\ n <= Len(q)
  OBVIOUS
<1>2. /\ DropFirst(q, n) \in Seq(S) /\ Len(DropFirst(q, n)) = Len(q) - n
      /\ SubSeq(q, 1, n) \in Seq(S) /\ Len(SubSeq(q, 1, n)) = n
  BY <1>1 DEF DropFirst
<1>3. \A i \in 1 .. n : SubSeq(q, 1, n)[i] = q[i]
  BY <1>1
<1>4. \A i \in 1 .. Len(q) - n : DropFirst(q, n)[i] = q[n + i]
  BY <1>1 DEF DropFirst
<1>5. DropFirst(q, 0) = q
  BY <1>1 DEF DropFirst
<1> QED  BY <1>2, <1>3, <1>4, <1>5

(* A sequence that is not empty is its front and its last element.           *)
Front(q) == SubSeq(q, 1, Len(q) - 1)
LEMMA FrontFacts ==
  ASSUME NEW S, NEW q \in Seq(S), Len(q) >= 1
  PROVE  /\ Front(q) \in Seq(S) /\ Len(Front(q)) = Len(q) - 1 /\ q[Len(q)] \in S
         /\ \A i \in 1 .. Len(q) - 1 : Front(q)[i] = q[i]
         /\ q = Append(Front(q), q[Len(q)])
         /\ Len(q) \in Nat /\ Len(q) - 1 \in Nat
<1>0. Len(q) \in Nat /\ Len(q) - 1 \in Nat /\ q[Len(q)] \in S
  OBVIOUS
<1>1. /\ Front(q) \in Seq(S) /\ Len(Front(q)) = Len(q) - 1
      /\ \A i \in 1 .. Len(q) - 1 : Front(q)[i] = q[i]
  <2>1. Len(q) - 1 \in 0 .. Len(q)
    BY <1>0
  <2> QED  BY <2>1, SuffixFacts, Zenon, SMTT(30) DEF Front
<1>2. Append(Front(q), q[Len(q)]) \in Seq(S) /\ Len(Append(Front(q), q[Len(q)])) = Len(q)
  BY <1>0, <1>1
<1>3. ASSUME NEW i \in 1 .. Len(q) PROVE Append(Front(q), q[Len(q)])[i] = q[i]
  BY <1>0, <1>1
<1>4. q = Append(Front(q), q[Len(q)])
  BY <1>2, <1>3, SequenceEquality
<1> QED  BY <1>0, <1>1, <1>4

(***************************************************************************)
(* Total: the sum of a sequence                                            *)
(***************************************************************************)
SumOf(s, n, g) == g = [i \in 0 .. n |-> IF i = 0 THEN 0 ELSE g[i - 1] + s[i]]

LEMMA SumExists ==
  ASSUME NEW s, NEW n \in Nat
  PROVE  \E g : SumOf(s, n, g)
<1> SUFFICES ASSUME ~\E g : SumOf(s, n, g) PROVE FALSE
  OBVIOUS
<1> DEFINE T == {m \in Nat : ~\E g : SumOf(s, m, g)}
<1>1. PICK m \in T : \A k \in T : m <= k
  BY LeastNatural
<1>2. CASE m = 0
  <2> DEFINE h == [i \in 0 .. 0 |-> 0]
  <2>1. h = [i \in 0 .. 0 |-> IF i = 0 THEN 0 ELSE h[i - 1] + s[i]]
    OBVIOUS
  <2> QED  BY <1>1, <1>2, <2>1 DEF SumOf
<1>3. CASE m > 0
  <2>1. m - 1 \in Nat /\ m - 1 \notin T
    BY <1>1, <1>3
  <2>2. PICK g : SumOf(s, m - 1, g)
    BY <2>1
  <2> DEFINE h == [i \in 0 .. m |-> IF i = m THEN g[m - 1] + s[m] ELSE g[i]]
  <2>3. \A i \in 0 .. m - 1 : h[i] = g[i] /\ i \in 0 .. m
    BY <1>1
  <2>4. \A i \in 0 .. m : h[i] = IF i = 0 THEN 0 ELSE h[i - 1] + s[i]
    BY <1>1, <1>3, <2>2, <2>3 DEF SumOf
  <2>5. h = [i \in 0 .. m |-> IF i = 0 THEN 0 ELSE h[i - 1] + s[i]]
    BY <2>4
  <2> QED  BY <1>1, <2>5 DEF SumOf
<1> QED  BY <1>1, <1>2, <1>3

(* Partial sums depend on what they sum alone.                               *)
LEMMA SumUnique ==
  ASSUME NEW s, NEW t, NEW n \in Nat, NEW m \in Nat, NEW g, NEW h,
         SumOf(s, n, g), SumOf(t, m, h), NEW k \in Nat, k <= n, k <= m,
         \A i \in 1 .. k : s[i] = t[i]
  PROVE  g[k] = h[k]
<1> SUFFICES ASSUME g[k] # h[k] PROVE FALSE
  OBVIOUS
<1> DEFINE T == {j \in 0 .. k : g[j] # h[j]}
<1>1. PICK j \in T : \A i \in T : j <= i
  <2>1. k \in T /\ T \subseteq Nat
    OBVIOUS
  <2> QED  BY <2>1, LeastNatural
<1>2. j \in Nat /\ j <= k /\ j \in 0 .. n /\ j \in 0 .. m /\ g[j] # h[j]
  OBVIOUS
<1>3. /\ g[j] = IF j = 0 THEN 0 ELSE g[j - 1] + s[j]
      /\ h[j] = IF j = 0 THEN 0 ELSE h[j - 1] + t[j]
  BY <1>2 DEF SumOf
<1>4. CASE j = 0
  BY <1>2, <1>3, <1>4
<1>5. CASE j > 0
  <2>1. j - 1 \in 0 .. k /\ j - 1 \notin T
    BY <1>1, <1>2, <1>5
  <2>2. g[j - 1] = h[j - 1] /\ s[j] = t[j]
    BY <1>2, <1>5, <2>1
  <2> QED  BY <1>2, <1>3, <1>5, <2>2
<1> QED  BY <1>2, <1>4, <1>5

LEMMA TotalSum ==
  ASSUME NEW s, Len(s) \in Nat
  PROVE  \E g : SumOf(s, Len(s), g) /\ Total(s) = g[Len(s)]
<1> DEFINE g == CHOOSE g : g = [i \in 0 .. Len(s) |-> IF i = 0 THEN 0 ELSE g[i - 1] + s[i]]
<1>1. \E h : h = [i \in 0 .. Len(s) |-> IF i = 0 THEN 0 ELSE h[i - 1] + s[i]]
  BY SumExists DEF SumOf
<1>2. SumOf(s, Len(s), g)
  BY <1>1 DEF SumOf
<1>3. Total(s) = g[Len(s)]
  BY DEF Total
<1> QED  BY <1>2, <1>3

(* What a sum is: zero for nothing, and one more summand adds itself.         *)
LEMMA TotalEmpty == Total(<<>>) = 0
<1>1. Len(<<>>) = 0
  OBVIOUS
<1>2. PICK g : SumOf(<<>>, 0, g) /\ Total(<<>>) = g[0]
  BY <1>1, TotalSum
<1> QED  BY <1>2 DEF SumOf

LEMMA TotalAppend ==
  ASSUME NEW s \in Seq(Nat), NEW x \in Nat
  PROVE  Total(Append(s, x)) = Total(s) + x
<1> DEFINE t == Append(s, x)
           n == Len(s)
<1>1. n \in Nat /\ Len(t) = n + 1 /\ t[n + 1] = x /\ \A i \in 1 .. n : s[i] = t[i]
  BY AppendFacts
<1> HIDE DEF t, n
<1>2. PICK g : SumOf(s, n, g) /\ Total(s) = g[n]
  BY <1>1, TotalSum DEF n
<1>3. PICK h : SumOf(t, n + 1, h) /\ Total(t) = h[n + 1]
  <2>1. Len(t) = n + 1 /\ Len(t) \in Nat
    BY <1>1
  <2> QED  BY <2>1, TotalSum
<1>4. g[n] = h[n]
  <2>1. n + 1 \in Nat /\ n <= n /\ n <= n + 1
    BY <1>1
  <2> QED  BY <1>1, <1>2, <1>3, <2>1, SumUnique
<1>5. h[n + 1] = h[n] + x
  <2>1. n + 1 \in 0 .. n + 1 /\ n + 1 # 0 /\ (n + 1) - 1 = n
    BY <1>1
  <2>2. h[n + 1] = h[n] + t[n + 1]
    BY <1>3, <2>1 DEF SumOf
  <2> QED  BY <1>1, <2>2
<1> QED  BY <1>2, <1>3, <1>4, <1>5 DEF t

LEMMA TotalNat ==
  ASSUME NEW s \in Seq(Nat)
  PROVE  Total(s) \in Nat
<1> SUFFICES ASSUME Total(s) \notin Nat PROVE FALSE
  OBVIOUS
<1> DEFINE T == {n \in Nat : \E q \in Seq(Nat) : Len(q) = n /\ Total(q) \notin Nat}
<1>1. PICK n \in T : \A m \in T : n <= m
  <2>1. Len(s) \in T
    OBVIOUS
  <2> QED  BY <2>1, LeastNatural
<1>2. PICK q \in Seq(Nat) : Len(q) = n /\ Total(q) \notin Nat
  OBVIOUS
<1>3. CASE n = 0
  <2>1. q = <<>>
    BY <1>2, <1>3
  <2> QED  BY <1>2, <2>1, TotalEmpty
<1>4. CASE n >= 1
  <2>1. /\ Front(q) \in Seq(Nat) /\ Len(Front(q)) = n - 1 /\ q[n] \in Nat
        /\ q = Append(Front(q), q[n]) /\ n - 1 \in Nat
    BY <1>2, <1>4, FrontFacts
  <2>2. Total(Front(q)) \in Nat
    BY <1>1, <2>1
  <2>3. Total(Append(Front(q), q[n])) = Total(Front(q)) + q[n]
    BY <2>1, TotalAppend
  <2>4. Total(q) = Total(Front(q)) + q[n]
    BY <2>1, <2>3
  <2> QED  BY <1>2, <2>1, <2>2, <2>4
<1> QED  BY <1>1, <1>3, <1>4

(***************************************************************************)
(* Flat: the entries of the lines                                          *)
(***************************************************************************)
JoinOf(s, n, g) == g = [i \in 0 .. n |-> IF i = 0 THEN <<>> ELSE g[i - 1] \o s[i]]

LEMMA JoinExists ==
  ASSUME NEW s, NEW n \in Nat
  PROVE  \E g : JoinOf(s, n, g)
<1> SUFFICES ASSUME ~\E g : JoinOf(s, n, g) PROVE FALSE
  OBVIOUS
<1> DEFINE T == {m \in Nat : ~\E g : JoinOf(s, m, g)}
<1>1. PICK m \in T : \A k \in T : m <= k
  BY LeastNatural
<1>2. CASE m = 0
  <2> DEFINE h == [i \in 0 .. 0 |-> <<>>]
  <2>1. h = [i \in 0 .. 0 |-> IF i = 0 THEN <<>> ELSE h[i - 1] \o s[i]]
    OBVIOUS
  <2> QED  BY <1>1, <1>2, <2>1 DEF JoinOf
<1>3. CASE m > 0
  <2>1. m - 1 \in Nat /\ m - 1 \notin T
    BY <1>1, <1>3
  <2>2. PICK g : JoinOf(s, m - 1, g)
    BY <2>1
  <2> DEFINE h == [i \in 0 .. m |-> IF i = m THEN g[m - 1] \o s[m] ELSE g[i]]
  <2>3. \A i \in 0 .. m - 1 : h[i] = g[i] /\ i \in 0 .. m
    BY <1>1
  <2>4. \A i \in 0 .. m : h[i] = IF i = 0 THEN <<>> ELSE h[i - 1] \o s[i]
    <3> SUFFICES ASSUME NEW i \in 0 .. m
                 PROVE  h[i] = IF i = 0 THEN <<>> ELSE h[i - 1] \o s[i]
      OBVIOUS
    <3>1. CASE i = m
      <4>1. h[m] = g[m - 1] \o s[m] /\ h[m - 1] = g[m - 1] /\ m # 0
        BY <1>1, <1>3, <2>1, <2>3
      <4> QED  BY <3>1, <4>1
    <3>2. CASE i = 0 /\ i # m
      <4>1. i \in 0 .. m - 1 /\ g[i] = <<>>
        BY <1>1, <1>3, <2>2, <3>2 DEF JoinOf
      <4> QED  BY <2>3, <3>2, <4>1
    <3>3. CASE i # 0 /\ i # m
      <4>1. i \in 0 .. m - 1 /\ i - 1 \in 0 .. m - 1 /\ g[i] = g[i - 1] \o s[i]
        BY <1>1, <1>3, <2>2, <3>3, SMTT(60) DEF JoinOf
      <4> QED  BY <2>3, <3>3, <4>1
    <3> QED  BY <3>1, <3>2, <3>3
  <2>5. h = [i \in 0 .. m |-> IF i = 0 THEN <<>> ELSE h[i - 1] \o s[i]]
    BY <2>4
  <2> QED  BY <1>1, <2>5 DEF JoinOf
<1> QED  BY <1>1, <1>2, <1>3

LEMMA JoinUnique ==
  ASSUME NEW s, NEW t, NEW n \in Nat, NEW m \in Nat, NEW g, NEW h,
         JoinOf(s, n, g), JoinOf(t, m, h), NEW k \in Nat, k <= n, k <= m,
         \A i \in 1 .. k : s[i] = t[i]
  PROVE  g[k] = h[k]
<1> SUFFICES ASSUME g[k] # h[k] PROVE FALSE
  OBVIOUS
<1> DEFINE T == {j \in 0 .. k : g[j] # h[j]}
<1>1. PICK j \in T : \A i \in T : j <= i
  <2>1. k \in T /\ T \subseteq Nat
    OBVIOUS
  <2> QED  BY <2>1, LeastNatural
<1>2. j \in Nat /\ j <= k /\ j \in 0 .. n /\ j \in 0 .. m /\ g[j] # h[j]
  OBVIOUS
<1>3. /\ g[j] = IF j = 0 THEN <<>> ELSE g[j - 1] \o s[j]
      /\ h[j] = IF j = 0 THEN <<>> ELSE h[j - 1] \o t[j]
  BY <1>2 DEF JoinOf
<1>4. CASE j = 0
  BY <1>2, <1>3, <1>4
<1>5. CASE j > 0
  <2>1. j - 1 \in 0 .. k /\ j - 1 \notin T
    BY <1>1, <1>2, <1>5
  <2>2. g[j - 1] = h[j - 1] /\ s[j] = t[j]
    BY <1>2, <1>5, <2>1
  <2> QED  BY <1>2, <1>3, <1>5, <2>2
<1> QED  BY <1>2, <1>4, <1>5

LEMMA FlatJoin ==
  ASSUME NEW s, Len(s) \in Nat
  PROVE  \E g : JoinOf(s, Len(s), g) /\ Flat(s) = g[Len(s)]
<1> DEFINE g == CHOOSE g : g = [i \in 0 .. Len(s) |-> IF i = 0 THEN <<>> ELSE g[i - 1] \o s[i]]
<1>1. \E h : h = [i \in 0 .. Len(s) |-> IF i = 0 THEN <<>> ELSE h[i - 1] \o s[i]]
  BY JoinExists DEF JoinOf
<1>2. JoinOf(s, Len(s), g)
  BY <1>1 DEF JoinOf
<1>3. Flat(s) = g[Len(s)]
  BY DEF Flat
<1> QED  BY <1>2, <1>3

LEMMA FlatEmpty == Flat(<<>>) = <<>>
<1>1. Len(<<>>) = 0
  OBVIOUS
<1>2. PICK g : JoinOf(<<>>, 0, g) /\ Flat(<<>>) = g[0]
  BY <1>1, FlatJoin
<1> QED  BY <1>2 DEF JoinOf

LEMMA FlatAppend ==
  ASSUME NEW S, NEW s \in Seq(Seq(S)), NEW x \in Seq(S)
  PROVE  Flat(Append(s, x)) = Flat(s) \o x
<1> DEFINE t == Append(s, x)
           n == Len(s)
<1>1. n \in Nat /\ Len(t) = n + 1 /\ t[n + 1] = x /\ \A i \in 1 .. n : s[i] = t[i]
  BY AppendFacts
<1> HIDE DEF t, n
<1>2. PICK g : JoinOf(s, n, g) /\ Flat(s) = g[n]
  BY <1>1, FlatJoin DEF n
<1>3. PICK h : JoinOf(t, n + 1, h) /\ Flat(t) = h[n + 1]
  <2>1. Len(t) = n + 1 /\ Len(t) \in Nat
    BY <1>1
  <2> QED  BY <2>1, FlatJoin
<1>4. g[n] = h[n]
  <2>1. n + 1 \in Nat /\ n <= n /\ n <= n + 1
    BY <1>1
  <2> QED  BY <1>1, <1>2, <1>3, <2>1, JoinUnique
<1>5. h[n + 1] = h[n] \o x
  <2>1. n + 1 \in 0 .. n + 1 /\ n + 1 # 0 /\ (n + 1) - 1 = n
    BY <1>1
  <2>2. h[n + 1] = h[n] \o t[n + 1]
    BY <1>3, <2>1 DEF JoinOf
  <2> QED  BY <1>1, <2>2
<1> QED  BY <1>2, <1>3, <1>4, <1>5 DEF t

LEMMA FlatSeq ==
  ASSUME NEW S, NEW s \in Seq(Seq(S))
  PROVE  Flat(s) \in Seq(S)
<1> SUFFICES ASSUME Flat(s) \notin Seq(S) PROVE FALSE
  OBVIOUS
<1> DEFINE T == {n \in Nat : \E q \in Seq(Seq(S)) : Len(q) = n /\ Flat(q) \notin Seq(S)}
<1>1. PICK n \in T : \A m \in T : n <= m
  <2>1. Len(s) \in T
    OBVIOUS
  <2> QED  BY <2>1, LeastNatural
<1>2. PICK q \in Seq(Seq(S)) : Len(q) = n /\ Flat(q) \notin Seq(S)
  OBVIOUS
<1>3. CASE n = 0
  <2>1. q = <<>>
    BY <1>2, <1>3
  <2> QED  BY <1>2, <2>1, FlatEmpty
<1>4. CASE n >= 1
  <2>1. /\ Front(q) \in Seq(Seq(S)) /\ Len(Front(q)) = n - 1 /\ q[n] \in Seq(S)
        /\ q = Append(Front(q), q[n]) /\ n - 1 \in Nat
    BY <1>2, <1>4, FrontFacts
  <2>2. Flat(Front(q)) \in Seq(S)
    BY <1>1, <2>1
  <2>3. Flat(Append(Front(q), q[n])) = Flat(Front(q)) \o q[n]
    BY <2>1, FlatAppend
  <2>4. Flat(q) = Flat(Front(q)) \o q[n]
    BY <2>1, <2>3
  <2> QED  BY <1>2, <2>1, <2>2, <2>4
<1> QED  BY <1>1, <1>3, <1>4

(* Lines that are dropped leave a tail of the entries.                       *)
LEMMA FlatSuffix ==
  ASSUME NEW S, NEW s \in Seq(Seq(S)), NEW k \in 0 .. Len(s)
  PROVE  Flat(s) = Flat(SubSeq(s, 1, k)) \o Flat(DropFirst(s, k))
<1> DEFINE P(q) == \A j \in 0 .. Len(q) : Flat(q) = Flat(SubSeq(q, 1, j)) \o Flat(DropFirst(q, j))
<1> SUFFICES ASSUME ~P(s) PROVE FALSE
  OBVIOUS
<1> HIDE DEF P
<1> DEFINE T == {n \in Nat : \E q \in Seq(Seq(S)) : Len(q) = n /\ ~P(q)}
<1>1. PICK n \in T : \A m \in T : n <= m
  <2>1. Len(s) \in T
    OBVIOUS
  <2> QED  BY <2>1, LeastNatural
<1>2. PICK q \in Seq(Seq(S)) : Len(q) = n /\ ~P(q)
  OBVIOUS
<1> HIDE DEF T
<1>3. PICK j \in 0 .. n : Flat(q) # Flat(SubSeq(q, 1, j)) \o Flat(DropFirst(q, j))
  BY <1>2 DEF P
<1>4. n \in Nat /\ j \in Nat /\ j <= n
  BY <1>2
<1>5. CASE j = n
  <2>1. /\ SubSeq(q, 1, j) \in Seq(Seq(S)) /\ Len(SubSeq(q, 1, j)) = Len(q)
        /\ \A i \in 1 .. Len(q) : SubSeq(q, 1, j)[i] = q[i]
        /\ DropFirst(q, j) \in Seq(Seq(S)) /\ Len(DropFirst(q, j)) = 0
    <3>0. j \in 0 .. Len(q)
      BY <1>2, <1>4, <1>5
    <3>1. Len(q) - j = 0 /\ Len(q) = j
      BY <1>2, <1>4, <1>5
    <3>2. /\ SubSeq(q, 1, j) \in Seq(Seq(S)) /\ Len(SubSeq(q, 1, j)) = j
          /\ \A i \in 1 .. j : SubSeq(q, 1, j)[i] = q[i]
          /\ DropFirst(q, j) \in Seq(Seq(S)) /\ Len(DropFirst(q, j)) = Len(q) - j
      BY <3>0, SuffixFacts, Zenon, SMTT(30)
    <3> QED  BY <3>1, <3>2
  <2>2. SubSeq(q, 1, j) = q
    BY <2>1, SequenceEquality
  <2>3. DropFirst(q, j) = <<>>
    <3> DEFINE d == DropFirst(q, j)
    <3>1. d \in Seq(Seq(S)) /\ Len(d) = 0
      BY <2>1
    <3> HIDE DEF d
    <3>2. d = <<>>
      BY <3>1
    <3> QED  BY <3>2 DEF d
  <2>4. Flat(q) \o <<>> = Flat(q)
    <3>1. Flat(q) \in Seq(S)
      BY FlatSeq
    <3> QED  BY <3>1
  <2> QED  BY <1>3, <2>2, <2>3, <2>4, FlatEmpty
<1>6. CASE j < n
  <2> DEFINE f == Front(q)
  <2>1. /\ f \in Seq(Seq(S)) /\ Len(f) = n - 1 /\ q[n] \in Seq(S)
        /\ q = Append(f, q[n]) /\ n - 1 \in Nat /\ \A i \in 1 .. n - 1 : f[i] = q[i]
    <3>1. Len(q) >= 1
      BY <1>2, <1>4, <1>6
    <3> QED  BY <1>2, <3>1, FrontFacts
  <2>2. P(f) /\ j \in 0 .. Len(f)
    <3>1. n - 1 \notin T
      BY <1>1, <1>4
    <3>2. P(f)
      BY <2>1, <3>1 DEF T
    <3>3. j \in 0 .. n - 1
      BY <1>4, <1>6
    <3> QED  BY <2>1, <3>2, <3>3
  <2> HIDE DEF f
  <2>3. Flat(f) = Flat(SubSeq(f, 1, j)) \o Flat(DropFirst(f, j))
    BY <2>2 DEF P
  <2>4. SubSeq(f, 1, j) = SubSeq(q, 1, j)
    <3>1. /\ SubSeq(f, 1, j) \in Seq(Seq(S)) /\ SubSeq(q, 1, j) \in Seq(Seq(S))
          /\ Len(SubSeq(f, 1, j)) = j /\ Len(SubSeq(q, 1, j)) = j
          /\ \A i \in 1 .. j : SubSeq(f, 1, j)[i] = f[i] /\ SubSeq(q, 1, j)[i] = q[i]
      <4>1. j \in 0 .. Len(q)
        BY <1>2
      <4>2. /\ SubSeq(f, 1, j) \in Seq(Seq(S)) /\ Len(SubSeq(f, 1, j)) = j
            /\ \A i \in 1 .. j : SubSeq(f, 1, j)[i] = f[i]
        BY <2>1, <2>2, SuffixFacts, Zenon, SMTT(30)
      <4>3. /\ SubSeq(q, 1, j) \in Seq(Seq(S)) /\ Len(SubSeq(q, 1, j)) = j
            /\ \A i \in 1 .. j : SubSeq(q, 1, j)[i] = q[i]
        BY <4>1, SuffixFacts, Zenon
      <4> QED  BY <4>2, <4>3, Zenon
    <3>2. \A i \in 1 .. j : f[i] = q[i]
      BY <1>4, <1>6, <2>1
    <3> QED  BY <3>1, <3>2, SequenceEquality
  <2>5. DropFirst(q, j) = Append(DropFirst(f, j), q[n])
    <3>1. /\ DropFirst(f, j) \in Seq(Seq(S)) /\ DropFirst(q, j) \in Seq(Seq(S))
          /\ Len(DropFirst(f, j)) = n - 1 - j /\ Len(DropFirst(q, j)) = n - j
          /\ \A i \in 1 .. n - 1 - j : DropFirst(f, j)[i] = f[j + i]
          /\ \A i \in 1 .. n - j : DropFirst(q, j)[i] = q[j + i]
      <4>1. j \in 0 .. Len(q)
        BY <1>2
      <4>2. /\ DropFirst(f, j) \in Seq(Seq(S)) /\ Len(DropFirst(f, j)) = Len(f) - j
            /\ \A i \in 1 .. Len(f) - j : DropFirst(f, j)[i] = f[j + i]
        BY <2>1, <2>2, SuffixFacts, Zenon, ZenonT(30)
      <4>3. /\ DropFirst(q, j) \in Seq(Seq(S)) /\ Len(DropFirst(q, j)) = Len(q) - j
            /\ \A i \in 1 .. Len(q) - j : DropFirst(q, j)[i] = q[j + i]
        BY <4>1, SuffixFacts, Zenon, SMTT(30)
      <4> QED  BY <1>2, <2>1, <4>2, <4>3
    <3>2. /\ Append(DropFirst(f, j), q[n]) \in Seq(Seq(S))
          /\ Len(Append(DropFirst(f, j), q[n])) = n - 1 - j + 1
          /\ \A i \in 1 .. n - 1 - j : Append(DropFirst(f, j), q[n])[i] = DropFirst(f, j)[i]
          /\ Append(DropFirst(f, j), q[n])[n - 1 - j + 1] = q[n]
      <4> DEFINE d == DropFirst(f, j)
      <4> HIDE DEF d
      <4>1. d \in Seq(Seq(S)) /\ Len(d) = n - 1 - j
        BY <3>1 DEF d
      <4>2. /\ Append(d, q[n]) \in Seq(Seq(S)) /\ Len(Append(d, q[n])) = Len(d) + 1
            /\ \A i \in 1 .. Len(d) : Append(d, q[n])[i] = d[i]
            /\ Append(d, q[n])[Len(d) + 1] = q[n]
        BY <2>1, <4>1, AppendFacts
      <4> QED  BY <4>1, <4>2 DEF d
    <3>3. \A i \in 1 .. n - j : DropFirst(q, j)[i] = Append(DropFirst(f, j), q[n])[i]
      <4> SUFFICES ASSUME NEW i \in 1 .. n - j
                   PROVE  DropFirst(q, j)[i] = Append(DropFirst(f, j), q[n])[i]
        OBVIOUS
      <4>1. CASE i = n - j
        BY <1>4, <1>6, <3>1, <3>2, <4>1
      <4>2. CASE i # n - j
        <5>1. i \in 1 .. n - 1 - j /\ j + i \in 1 .. n - 1
          BY <1>4, <4>2
        <5> QED  BY <2>1, <3>1, <3>2, <5>1
      <4> QED  BY <4>1, <4>2
    <3>4. Len(Append(DropFirst(f, j), q[n])) = n - j
      BY <1>4, <3>2
    <3> QED  BY <3>1, <3>2, <3>3, <3>4, SequenceEquality
  <2>6. Flat(q) = Flat(f) \o q[n]
    <3>1. Flat(Append(f, q[n])) = Flat(f) \o q[n]
      BY <2>1, FlatAppend
    <3> QED  BY <2>1, <3>1
  <2>7. DropFirst(f, j) \in Seq(Seq(S)) /\ SubSeq(f, 1, j) \in Seq(Seq(S))
    BY <2>1, <2>2, SuffixFacts, Zenon
  <2>8. Flat(DropFirst(q, j)) = Flat(DropFirst(f, j)) \o q[n]
    <3>1. Flat(Append(DropFirst(f, j), q[n])) = Flat(DropFirst(f, j)) \o q[n]
      BY <2>1, <2>7, FlatAppend
    <3> QED  BY <2>5, <3>1
  <2>9. /\ Flat(SubSeq(f, 1, j)) \in Seq(S) /\ Flat(DropFirst(f, j)) \in Seq(S)
    BY <2>7, FlatSeq
  <2>10. (Flat(SubSeq(f, 1, j)) \o Flat(DropFirst(f, j))) \o q[n]
           = Flat(SubSeq(f, 1, j)) \o (Flat(DropFirst(f, j)) \o q[n])
    <3> DEFINE x == Flat(SubSeq(f, 1, j))
               y == Flat(DropFirst(f, j))
    <3> HIDE DEF x, y
    <3>1. x \in Seq(S) /\ y \in Seq(S) /\ q[n] \in Seq(S)
      BY <2>1, <2>9 DEF x, y
    <3>2. \A a, b, c \in Seq(S) : (a \o b) \o c = a \o (b \o c)
      BY SMTT(30)
    <3>3. (x \o y) \o q[n] = x \o (y \o q[n])
      BY <3>1, <3>2
    <3> QED  BY <3>3 DEF x, y
  <2> QED  BY <1>3, <2>3, <2>4, <2>6, <2>8, <2>10
<1> QED  BY <1>4, <1>5, <1>6

(***************************************************************************)
(* The lines of a file                                                     *)
(***************************************************************************)
LEMMA LineFacts ==
  ASSUME log \in Seq(Nat), NEW l \in Seq(Entries)
  PROVE  SizesOf(l) \in Seq(Nat) /\ LineBytes(l) \in Nat /\ LineBytes(l) >= 1
<1>1. Len(l) \in Nat /\ DOMAIN l = 1 .. Len(l) /\ Len(log) \in Nat
  OBVIOUS
<1>2. \A i \in 1 .. Len(l) : l[i] \in 1 .. Len(log) /\ log[l[i]] \in Nat
  BY DEF Entries
<1>3. SizesOf(l) = [i \in 1 .. Len(l) |-> log[l[i]]]
  BY <1>1 DEF SizesOf
<1>4. SizesOf(l) \in Seq(Nat)
  BY <1>1, <1>2, <1>3
<1>5. Total(SizesOf(l)) \in Nat
  BY <1>4, TotalNat
<1> QED  BY <1>4, <1>5 DEF LineBytes

LineSizes(L) == [i \in DOMAIN L |-> LineBytes(L[i])]
LEMMA BytesFacts ==
  ASSUME log \in Seq(Nat), NEW L \in Seq(Seq(Entries))
  PROVE  /\ Bytes(L) \in Nat
         /\ \A l \in Seq(Entries) : Bytes(Append(L, l)) = Bytes(L) + LineBytes(l)
<1>1. ASSUME NEW M \in Seq(Seq(Entries))
      PROVE  LineSizes(M) \in Seq(Nat) /\ Len(LineSizes(M)) = Len(M)
             /\ Bytes(M) = Total(LineSizes(M))
  <2>1. Len(M) \in Nat /\ DOMAIN M = 1 .. Len(M)
    OBVIOUS
  <2>2. \A i \in 1 .. Len(M) : LineBytes(M[i]) \in Nat
    <3>1. \A i \in 1 .. Len(M) : M[i] \in Seq(Entries)
      OBVIOUS
    <3> QED  BY <3>1, LineFacts
  <2>3. LineSizes(M) = [i \in 1 .. Len(M) |-> LineBytes(M[i])]
    BY <2>1 DEF LineSizes
  <2> QED  BY <2>1, <2>2, <2>3 DEF Bytes, LineSizes
<1>2. Bytes(L) \in Nat
  BY <1>1, TotalNat
<1>3. ASSUME NEW l \in Seq(Entries)
      PROVE  Bytes(Append(L, l)) = Bytes(L) + LineBytes(l)
  <2> DEFINE M == Append(L, l)
  <2>1. /\ M \in Seq(Seq(Entries)) /\ Len(M) = Len(L) + 1 /\ DOMAIN M = 1 .. Len(L) + 1
        /\ \A i \in 1 .. Len(L) : M[i] = L[i]
        /\ M[Len(L) + 1] = l
        /\ Len(L) \in Nat /\ DOMAIN L = 1 .. Len(L)
    BY AppendFacts
  <2> HIDE DEF M
  <2>2. LineBytes(l) \in Nat
    BY LineFacts
  <2>3. /\ \A i \in 1 .. Len(L) : LineSizes(M)[i] = LineBytes(L[i])
        /\ LineSizes(M)[Len(L) + 1] = LineBytes(l)
        /\ \A i \in 1 .. Len(L) : LineSizes(L)[i] = LineBytes(L[i])
    BY <2>1 DEF LineSizes
  <2>4. LineSizes(M) = Append(LineSizes(L), LineBytes(l))
    <3>1. LineSizes(L) \in Seq(Nat) /\ Len(LineSizes(L)) = Len(L)
      BY <1>1
    <3>2. LineSizes(M) \in Seq(Nat) /\ Len(LineSizes(M)) = Len(L) + 1
      BY <1>1, <2>1
    <3> DEFINE a == LineSizes(L)
               b == LineBytes(l)
    <3> HIDE DEF a, b
    <3>3. /\ Append(a, b) \in Seq(Nat) /\ Len(Append(a, b)) = Len(L) + 1
          /\ \A i \in 1 .. Len(L) : Append(a, b)[i] = a[i]
          /\ Append(a, b)[Len(L) + 1] = b
      <4>1. a \in Seq(Nat) /\ b \in Nat /\ Len(a) = Len(L)
        BY <2>2, <3>1 DEF a, b
      <4>2. /\ Append(a, b) \in Seq(Nat) /\ Len(Append(a, b)) = Len(a) + 1
            /\ \A i \in 1 .. Len(a) : Append(a, b)[i] = a[i]
            /\ Append(a, b)[Len(a) + 1] = b
        BY <4>1, AppendFacts
      <4> QED  BY <4>1, <4>2
    <3>4. \A i \in 1 .. Len(L) + 1 : LineSizes(M)[i] = Append(a, b)[i]
      <4>1. \A i \in 1 .. Len(L) : LineSizes(M)[i] = a[i]
        BY <2>3 DEF a
      <4>2. LineSizes(M)[Len(L) + 1] = b
        BY <2>3 DEF b
      <4>3. \A i \in 1 .. Len(L) + 1 : i \in 1 .. Len(L) \/ i = Len(L) + 1
        BY <2>1
      <4> QED  BY <3>3, <4>1, <4>2, <4>3
    <3>5. LineSizes(M) = Append(a, b)
      BY <3>2, <3>3, <3>4, SequenceEquality
    <3> QED  BY <3>5 DEF a, b
  <2>5. Total(LineSizes(M)) = Total(LineSizes(L)) + LineBytes(l)
    <3>1. LineSizes(L) \in Seq(Nat)
      BY <1>1
    <3>2. Total(Append(LineSizes(L), LineBytes(l))) = Total(LineSizes(L)) + LineBytes(l)
      BY <2>2, <3>1, TotalAppend
    <3> QED  BY <2>4, <3>2
  <2>6. Bytes(M) = Bytes(L) + LineBytes(l)
    BY <1>1, <2>1, <2>5
  <2> QED  BY <2>6 DEF M
<1> QED  BY <1>2, <1>3

(* A file that is out of its bounds is not brought back by a line more.       *)
LEMMA FitsFacts ==
  ASSUME log \in Seq(Nat)
  PROVE  /\ Fits(<<>>)
         /\ \A L \in Seq(Seq(Entries)), l \in Seq(Entries) :
              ~Fits(L) => ~Fits(Append(L, l))
<1>0. MaxEntries \in Nat /\ MaxEntries >= 1 /\ MaxBytes \in Nat
  BY HistoryAssumption
<1>1. Fits(<<>>)
  <2>1. Len(<<>>) = 0
    OBVIOUS
  <2> QED  BY <1>0, <2>1 DEF Fits
<1>2. ASSUME NEW L \in Seq(Seq(Entries)), NEW l \in Seq(Entries), ~Fits(L)
      PROVE  ~Fits(Append(L, l))
  <2>1. Len(Append(L, l)) = Len(L) + 1 /\ Len(L) \in Nat
    BY AppendFacts
  <2>2. /\ Bytes(L) \in Nat /\ LineBytes(l) \in Nat
        /\ Bytes(Append(L, l)) = Bytes(L) + LineBytes(l)
    BY BytesFacts, LineFacts
  <2> QED  BY <1>0, <1>2, <2>1, <2>2 DEF Fits
<1> QED  BY <1>1, <1>2

(* An entry more in the log changes the size of no line that is there.        *)
LEMMA SizesKept ==
  ASSUME log \in Seq(Nat), NEW x \in Nat, log' = Append(log, x) \/ log' = log,
         NEW L \in Seq(Seq(Entries))
  PROVE  Bytes(L)' = Bytes(L) /\ Fits(L)' = Fits(L)
<1>1. \A i \in 1 .. Len(log) : log'[i] = log[i]
  BY AppendFacts
<1>2. ASSUME NEW l \in Seq(Entries)
      PROVE  SizesOf(l)' = SizesOf(l)
  <2>1. \A i \in DOMAIN l : l[i] \in 1 .. Len(log)
    BY DEF Entries
  <2> QED  BY <1>1, <2>1 DEF SizesOf
<1>3. \A l \in Seq(Entries) : LineBytes(l)' = LineBytes(l)
  BY <1>2 DEF LineBytes
<1>4. \A i \in DOMAIN L : L[i] \in Seq(Entries)
  OBVIOUS
<1>5. [i \in DOMAIN L |-> LineBytes(L[i])'] = [i \in DOMAIN L |-> LineBytes(L[i])]
  BY <1>3, <1>4
<1>6. Bytes(L)' = Bytes(L)
  BY <1>5 DEF Bytes
<1> QED  BY <1>6 DEF Fits

(* What compaction keeps: the longest tail that fits.                        *)
LEMMA RetainedFacts ==
  ASSUME NEW S, NEW L \in Seq(Seq(S)), log \in Seq(Nat)
  PROVE  \E n \in 0 .. Len(L) :
           /\ Retained(L) = DropFirst(L, n)
           /\ Fits(DropFirst(L, n))
           /\ \A m \in 0 .. n - 1 : ~Fits(DropFirst(L, m))
<1> DEFINE T == {n \in 0 .. Len(L) : Fits(DropFirst(L, n))}
           Good(n) == /\ Fits(DropFirst(L, n))
                      /\ \A m \in 0 .. n - 1 : ~Fits(DropFirst(L, m))
<1>0. Len(L) \in Nat
  OBVIOUS
<1>1. Len(L) \in T
  <2>1. Len(L) \in 0 .. Len(L)
    BY <1>0
  <2>2. DropFirst(L, Len(L)) \in Seq(Seq(S)) /\ Len(DropFirst(L, Len(L))) = Len(L) - Len(L)
    BY <2>1, SuffixFacts, Zenon
  <2> DEFINE d == DropFirst(L, Len(L))
  <2>3. d \in Seq(Seq(S)) /\ Len(d) = 0
    BY <1>0, <2>2
  <2> HIDE DEF d
  <2>4. d = <<>>
    BY <2>3
  <2>5. Fits(d)
    BY <2>4, FitsFacts
  <2> QED  BY <2>1, <2>5 DEF d
<1>2. PICK n \in T : \A m \in T : n <= m
  <2>1. T \subseteq Nat
    OBVIOUS
  <2> QED  BY <1>1, <2>1, LeastNatural
<1>3. n \in 0 .. Len(L) /\ Good(n)
  <2>1. \A m \in 0 .. n - 1 : m \in 0 .. Len(L) /\ m \notin T
    BY <1>0, <1>2
  <2> QED  BY <2>1
<1> HIDE DEF Good
<1>4. \E m \in 0 .. Len(L) : Good(m)
  BY <1>3
<1> DEFINE d == CHOOSE m \in 0 .. Len(L) : Good(m)
<1>5. d \in 0 .. Len(L) /\ Good(d)
  BY <1>4
<1>6. Retained(L) = DropFirst(L, d)
  BY DEF Retained, Good
<1> QED  BY <1>5, <1>6 DEF Good

(* The entry a text adds is the last one of its file.                        *)
LEMMA WithTextFacts ==
  ASSUME NEW S, NEW f, NEW e \in S,
         f \in FilesOf(S),
         f.open => f.lines # <<>>
  PROVE  /\ WithText(f, e) \in FilesOf(S)
         /\ WithText(f, e).open /\ WithText(f, e).lines # <<>>
         /\ Flat(WithText(f, e).lines) = Append(Flat(f.lines), e)
         /\ ~f.open => WithText(f, e).lines = Append(f.lines, <<e>>)
<1> USE DEF FilesOf
<1> DEFINE L == f.lines
<1>1. L \in Seq(Seq(S)) /\ Flat(L) \in Seq(S) /\ Len(L) \in Nat
  BY FlatSeq
<1>2. CASE ~f.open
  <2>1. WithText(f, e) = [f EXCEPT !.lines = Append(@, <<e>>), !.open = TRUE]
    BY <1>2 DEF WithText
  <2>2. /\ WithText(f, e).lines = Append(L, <<e>>) /\ WithText(f, e).open
        /\ WithText(f, e).blanks = f.blanks
    BY <2>1
  <2>3. <<e>> \in Seq(S) /\ Append(L, <<e>>) \in Seq(Seq(S)) /\ Append(L, <<e>>) # <<>>
    <3>1. <<e>> \in Seq(S)
      OBVIOUS
    <3>2. Append(L, <<e>>) \in Seq(Seq(S)) /\ Len(Append(L, <<e>>)) = Len(L) + 1
      BY <1>1, <3>1, AppendFacts
    <3>3. \A q : q = <<>> => Len(q) = 0
      OBVIOUS
    <3>4. Append(L, <<e>>) # <<>>
      <4> DEFINE q == Append(L, <<e>>)
      <4>1. Len(q) # 0
        BY <1>1, <3>2
      <4> HIDE DEF q
      <4>2. q # <<>>
        BY <3>3, <4>1
      <4> QED  BY <4>2 DEF q
    <3> QED  BY <3>1, <3>2, <3>4
  <2>4. Flat(Append(L, <<e>>)) = Append(Flat(L), e)
    <3>1. Flat(Append(L, <<e>>)) = Flat(L) \o <<e>>
      BY <1>1, <2>3, FlatAppend
    <3>2. \A q \in Seq(S) : q \o <<e>> = Append(q, e)
      OBVIOUS
    <3> QED  BY <1>1, <3>1, <3>2
  <2>5. WithText(f, e) \in [lines : Seq(Seq(S)), open : BOOLEAN, blanks : Nat]
    BY <2>1, <2>3
  <2> QED  BY <2>2, <2>3, <2>4, <2>5
<1>3. CASE f.open
  <2>1. Len(L) >= 1
    BY <1>1, <1>3
  <2> DEFINE x == L[Len(L)]
             M == [L EXCEPT ![Len(L)] = Append(@, e)]
  <2>2. /\ Front(L) \in Seq(Seq(S)) /\ Len(Front(L)) = Len(L) - 1 /\ x \in Seq(S)
        /\ L = Append(Front(L), x)
        /\ \A i \in 1 .. Len(L) - 1 : Front(L)[i] = L[i]
    BY <1>1, <2>1, FrontFacts
  <2>3. Append(x, e) \in Seq(S)
    BY <2>2, AppendFacts
  <2>4. M \in Seq(Seq(S)) /\ Len(M) = Len(L)
    BY <1>1, <2>1, <2>3
  <2>5. M = Append(Front(L), Append(x, e))
    <3> DEFINE F == Front(L)
               y == Append(x, e)
    <3>0. F \in Seq(Seq(S)) /\ Len(F) = Len(L) - 1 /\ y \in Seq(S)
      BY <2>2, <2>3
    <3>1. /\ \A i \in 1 .. Len(L) - 1 : M[i] = F[i]
          /\ M[Len(L)] = y
      BY <1>1, <2>1, <2>2, SMTT(30)
    <3> HIDE DEF F, y, M
    <3>2. /\ Append(F, y) \in Seq(Seq(S)) /\ Len(Append(F, y)) = Len(F) + 1
          /\ \A i \in 1 .. Len(F) : Append(F, y)[i] = F[i]
          /\ Append(F, y)[Len(F) + 1] = y
      BY <3>0, AppendFacts
    <3>3. \A i \in 1 .. Len(M) : M[i] = Append(F, y)[i]
      <4>1. \A i \in 1 .. Len(M) : i \in 1 .. Len(L) - 1 \/ i = Len(L)
        BY <1>1, <2>4
      <4>2. Len(F) + 1 = Len(L) /\ Len(F) = Len(L) - 1
        BY <1>1, <3>0
      <4> QED  BY <3>1, <3>2, <4>1, <4>2
    <3>4. Len(Append(F, y)) = Len(M)
      BY <1>1, <2>4, <3>0, <3>2
    <3>5. M = Append(F, y)
      BY <2>4, <3>2, <3>3, <3>4, SequenceEquality
    <3> QED  BY <3>5 DEF F, y
  <2>6. Flat(M) = Append(Flat(L), e)
    <3> DEFINE F == Flat(Front(L))
    <3>1. F \in Seq(S)
      BY <2>2, FlatSeq
    <3>2. Flat(Append(Front(L), Append(x, e))) = F \o Append(x, e)
      BY <2>2, <2>3, FlatAppend
    <3>3. Flat(Append(Front(L), x)) = F \o x
      BY <2>2, FlatAppend
    <3> HIDE DEF F, x
    <3>4. F \o Append(x, e) = Append(F \o x, e)
      <4>1. x \in Seq(S)
        BY <2>2
      <4> QED  BY <3>1, <4>1, ConcatAppend
    <3>5. Flat(L) = F \o x
      BY <2>2, <3>3
    <3> QED  BY <2>5, <3>2, <3>4, <3>5
  <2>7. /\ WithText(f, e) = [f EXCEPT !.lines[Len(f.lines)] = Append(@, e)]
    BY <1>3 DEF WithText
  <2>8. WithText(f, e).lines = M /\ WithText(f, e).open /\ WithText(f, e).blanks = f.blanks
    BY <1>3, <2>7
  <2>9. WithText(f, e) \in [lines : Seq(Seq(S)), open : BOOLEAN, blanks : Nat]
    BY <2>4, <2>7
  <2>10. M # <<>>
    BY <2>1, <2>4
  <2> QED  BY <1>3, <2>6, <2>8, <2>9, <2>10
<1> QED  BY <1>2, <1>3

LEMMA WithNewlineFacts ==
  ASSUME NEW S, NEW f, f \in FilesOf(S)
  PROVE  /\ WithNewline(f) \in FilesOf(S)
         /\ WithNewline(f).lines = f.lines /\ ~WithNewline(f).open
<1> USE DEF FilesOf
<1>1. WithNewline(f) = IF f.open THEN [f EXCEPT !.open = FALSE]
                                 ELSE [f EXCEPT !.blanks = @ + 1]
  BY DEF WithNewline
<1>2. CASE f.open
  BY <1>1, <1>2
<1>3. CASE ~f.open
  BY <1>1, <1>3
<1> QED  BY <1>2, <1>3

(* The order of the entries: the newest one comes last, and a tail is ordered. *)
LEMMA IncreasingAppend ==
  ASSUME NEW n \in Nat, NEW q \in Seq(1 .. n), Increasing(q)
  PROVE  Increasing(Append(q, n + 1))
<1>1. /\ Len(q) \in Nat /\ DOMAIN q = 1 .. Len(q)
      /\ DOMAIN Append(q, n + 1) = 1 .. Len(q) + 1
      /\ \A i \in 1 .. Len(q) : Append(q, n + 1)[i] = q[i] /\ q[i] \in 1 .. n
      /\ Append(q, n + 1)[Len(q) + 1] = n + 1
  OBVIOUS
<1> QED  BY <1>1 DEF Increasing

LEMMA IncreasingSuffix ==
  ASSUME NEW S, NEW a \in Seq(S), NEW b \in Seq(S), Increasing(a \o b)
  PROVE  Increasing(b)
<1>1. /\ Len(a) \in Nat /\ Len(b) \in Nat /\ DOMAIN b = 1 .. Len(b)
      /\ DOMAIN (a \o b) = 1 .. Len(a) + Len(b)
      /\ \A i \in 1 .. Len(b) : (a \o b)[Len(a) + i] = b[i]
  BY ConcatFacts
<1>2. \A i \in 1 .. Len(b) : Len(a) + i \in 1 .. Len(a) + Len(b)
  BY <1>1
<1>3. \A i, j \in 1 .. Len(b) : i < j => Len(a) + i < Len(a) + j
  BY <1>1
<1> QED  BY <1>1, <1>2, <1>3 DEF Increasing

LEMMA RetainedOrder ==
  ASSUME NEW S, NEW L \in Seq(Seq(S)), log \in Seq(Nat)
  PROVE  /\ Retained(L) \in Seq(Seq(S)) /\ Fits(Retained(L))
         /\ Increasing(Flat(L)) => Increasing(Flat(Retained(L)))
<1>1. PICK n \in 0 .. Len(L) : /\ Retained(L) = DropFirst(L, n)
                               /\ Fits(DropFirst(L, n))
  BY RetainedFacts
<1>2. DropFirst(L, n) \in Seq(Seq(S)) /\ SubSeq(L, 1, n) \in Seq(Seq(S))
  BY SuffixFacts, Zenon
<1>3. Flat(L) = Flat(SubSeq(L, 1, n)) \o Flat(DropFirst(L, n))
  BY FlatSuffix
<1>4. Flat(SubSeq(L, 1, n)) \in Seq(S) /\ Flat(DropFirst(L, n)) \in Seq(S)
  BY <1>2, FlatSeq
<1>5. Increasing(Flat(L)) => Increasing(Flat(DropFirst(L, n)))
  BY <1>3, <1>4, IncreasingSuffix
<1> QED  BY <1>1, <1>2, <1>5

(***************************************************************************)
(* Types and order                                                         *)
(***************************************************************************)
LEMMA SeqMonotone ==
  ASSUME NEW A, NEW B, A \subseteq B
  PROVE  Seq(A) \subseteq Seq(B)
<1> SUFFICES ASSUME NEW q \in Seq(A) PROVE q \in Seq(B)
  OBVIOUS
<1>1. Len(q) \in Nat /\ q = [i \in 1 .. Len(q) |-> q[i]] /\ \A i \in 1 .. Len(q) : q[i] \in A
  OBVIOUS
<1>2. \A i \in 1 .. Len(q) : q[i] \in B
  BY <1>1
<1>3. [i \in 1 .. Len(q) |-> q[i]] \in Seq(B)
  BY <1>1, <1>2
<1> QED  BY <1>1, <1>3

LEMMA SeqFunction ==
  ASSUME NEW S, NEW n \in Nat, NEW q, q \in [1 .. n -> S]
  PROVE  q \in Seq(S) /\ Len(q) = n
  OBVIOUS

LEMMA Typing ==
  ASSUME TypeInv
  PROVE  /\ log \in Seq(Sizes) /\ log \in Seq(Nat) /\ Len(log) \in Nat /\ Len(file) \in Nat
         /\ named \in Nat /\ MaxAppends \in Nat /\ MaxAborts \in Nat
         /\ \A k \in 1 .. Len(file) :
              /\ file[k] \in LogFile /\ file[k].lines \in Seq(Seq(Entries))
              /\ file[k].open \in BOOLEAN /\ file[k].blanks \in Nat
         /\ DOMAIN file = 1 .. Len(file)
         /\ Current \in LogFile /\ Current.lines \in Seq(Seq(Entries))
         /\ EmptyFile \in LogFile /\ EmptyFile.lines = <<>> /\ ~EmptyFile.open
         /\ \A p \in Procs : fd[p] # 0 => fd[p] \in 1 .. Len(file)
         /\ named # 0 => named \in 1 .. Len(file)
<1>1. Sizes \subseteq Nat /\ MaxAppends \in Nat /\ MaxAborts \in Nat
  BY HistoryAssumption
<1>2. /\ log \in Seq(Sizes) /\ file \in Seq(LogFile) /\ named \in 0 .. Len(file)
      /\ fd \in [Procs -> 0 .. Len(file)]
  BY DEF TypeInv
<1>3. log \in Seq(Nat) /\ Len(log) \in Nat /\ Len(file) \in Nat
  <2>1. Seq(Sizes) \subseteq Seq(Nat)
    BY <1>1, SeqMonotone
  <2>2. Len(log) \in Nat /\ Len(file) \in Nat
    BY <1>2
  <2> QED  BY <1>2, <2>1, <2>2
<1>4. \A k \in 1 .. Len(file) :
        /\ file[k] \in LogFile /\ file[k].lines \in Seq(Seq(Entries))
        /\ file[k].open \in BOOLEAN /\ file[k].blanks \in Nat
  <2>1. \A k \in 1 .. Len(file) : file[k] \in LogFile
    BY <1>2
  <2>2. \A f \in LogFile : f.lines \in Seq(Seq(Entries)) /\ f.open \in BOOLEAN /\ f.blanks \in Nat
    BY DEF LogFile, FilesOf
  <2> QED  BY <2>1, <2>2
<1>5. EmptyFile \in LogFile /\ EmptyFile.lines = <<>> /\ ~EmptyFile.open
  <2>1. <<>> \in Seq(Seq(Entries))
    OBVIOUS
  <2> QED  BY <2>1 DEF EmptyFile, LogFile, FilesOf
<1>6. named \in Nat /\ (named # 0 => named \in 1 .. Len(file))
  BY <1>2, <1>3
<1>7. Current \in LogFile
  BY <1>4, <1>5, <1>6 DEF Current
<1>8. Current.lines \in Seq(Seq(Entries))
  BY <1>7 DEF LogFile, FilesOf
<1>9. \A p \in Procs : fd[p] # 0 => fd[p] \in 1 .. Len(file)
  BY <1>2, <1>3
<1>10. DOMAIN file = 1 .. Len(file)
  BY <1>2
<1> QED  BY <1>1, <1>2, <1>3, <1>4, <1>5, <1>6, <1>7, <1>8, <1>9, <1>10

(* A file that is made has the next number, and the others stay.             *)
LEMMA FileAppended ==
  ASSUME TypeInv, NEW f, f \in LogFile, file' = Append(file, f), Entries' = Entries,
         f.open => f.lines # <<>>
  PROVE  /\ file' \in Seq(LogFile') /\ Len(file') = Len(file) + 1
         /\ \A k \in 1 .. Len(file) : file'[k] = file[k]
         /\ file'[Len(file) + 1] = f
         /\ \A k \in 1 .. Len(file') : file'[k].open => file'[k].lines # <<>>
<1>1. LogFile' = LogFile
  BY DEF LogFile, FilesOf
<1>2. file \in Seq(LogFile) /\ Len(file) \in Nat
  BY DEF TypeInv
<1>3. /\ file' \in Seq(LogFile) /\ Len(file') = Len(file) + 1
      /\ \A k \in 1 .. Len(file) : file'[k] = file[k]
      /\ file'[Len(file) + 1] = f
  BY <1>2, AppendFacts
<1>4. \A k \in 1 .. Len(file') : k \in 1 .. Len(file) \/ k = Len(file) + 1
  BY <1>2, <1>3
<1> QED  BY <1>1, <1>3, <1>4 DEF TypeInv

(* A file that is written to is replaced by its new content.                 *)
LEMMA FileReplaced ==
  ASSUME TypeInv, NEW k \in 1 .. Len(file), NEW f, f \in LogFile',
         file' = [file EXCEPT ![k] = f], Entries \subseteq Entries',
         f.open => f.lines # <<>>
  PROVE  /\ file' \in Seq(LogFile') /\ Len(file') = Len(file)
         /\ file'[k] = f /\ \A j \in 1 .. Len(file) : j # k => file'[j] = file[j]
         /\ \A j \in 1 .. Len(file') : file'[j].open => file'[j].lines # <<>>
<1>1. LogFile \subseteq LogFile'
  <2>1. Seq(Seq(Entries)) \subseteq Seq(Seq(Entries'))
    <3>1. Seq(Entries) \subseteq Seq(Entries')
      BY SeqMonotone
    <3> QED  BY <3>1, SeqMonotone
  <2> QED  BY <2>1 DEF LogFile, FilesOf
<1>2. file \in Seq(LogFile) /\ Len(file) \in Nat
  BY DEF TypeInv
<1>3. /\ Len(file') = Len(file) /\ DOMAIN file' = 1 .. Len(file)
      /\ file'[k] = f /\ \A j \in 1 .. Len(file) : j # k => file'[j] = file[j]
  BY <1>2
<1>4. \A j \in 1 .. Len(file) : file'[j] \in LogFile'
  BY <1>1, <1>2, <1>3
<1>5. file' \in Seq(LogFile')
  <2>1. file' \in [1 .. Len(file) -> LogFile']
    <3>1. DOMAIN file = 1 .. Len(file)
      BY <1>2
    <3>2. file' = [j \in 1 .. Len(file) |-> file'[j]]
      BY <3>1
    <3> QED  BY <1>4, <3>2
  <2> QED  BY <1>2, <2>1, SeqFunction
<1> QED  BY <1>3, <1>5 DEF TypeInv

LEMMA EntriesGrow ==
  ASSUME TypeInv, NEW size \in Sizes, log' = Append(log, size)
  PROVE  /\ Len(log') = Len(log) + 1 /\ log' \in Seq(Sizes)
         /\ Entries' = 1 .. Len(log) + 1 /\ Entries \subseteq Entries'
         /\ Len(log) + 1 \in Entries'
         /\ Seq(Seq(Entries)) \subseteq Seq(Seq(Entries'))
<1>1. log \in Seq(Sizes) /\ Len(log) \in Nat
  BY Typing
<1>2. Len(log') = Len(log) + 1 /\ log' \in Seq(Sizes)
  BY <1>1, AppendFacts
<1>3. Entries' = 1 .. Len(log) + 1 /\ Entries \subseteq Entries' /\ Len(log) + 1 \in Entries'
  BY <1>1, <1>2 DEF Entries
<1>4. Seq(Entries) \subseteq Seq(Entries')
  BY <1>3, SeqMonotone, ZenonT(30)
<1>5. Seq(Seq(Entries)) \subseteq Seq(Seq(Entries'))
  BY <1>4, SeqMonotone
<1> QED  BY <1>2, <1>3, <1>5

(* The text of an entry goes to the end of the file that is open for it.      *)
LEMMA TextWritten ==
  ASSUME TypeInv, NEW size \in Sizes, log' = Append(log, size), NEW k \in 1 .. Len(file)
  PROVE  LET f == WithText(file[k], Len(log) + 1)
         IN /\ f \in LogFile' /\ f.open /\ f.lines # <<>>
            /\ Flat(f.lines) = Append(Flat(file[k].lines), Len(log) + 1)
            /\ ~file[k].open => f.lines = Append(file[k].lines, <<Len(log) + 1>>)
<1> DEFINE S == Entries'
           g == file[k]
           e == Len(log) + 1
<1>1. e \in S /\ Seq(Seq(Entries)) \subseteq Seq(Seq(S))
  BY EntriesGrow
<1>2. g \in LogFile /\ (g.open => g.lines # <<>>)
  <2>1. file \in Seq(LogFile) /\ (file[k].open => file[k].lines # <<>>)
    BY DEF TypeInv
  <2> QED  BY <2>1
<1>3. LogFile' = FilesOf(S)
  BY DEF LogFile, FilesOf
<1> HIDE DEF S, g, e
<1>4. g \in FilesOf(S)
  BY <1>1, <1>2 DEF LogFile, FilesOf
<1>5. /\ WithText(g, e) \in FilesOf(S)
      /\ WithText(g, e).open /\ WithText(g, e).lines # <<>>
      /\ Flat(WithText(g, e).lines) = Append(Flat(g.lines), e)
      /\ ~g.open => WithText(g, e).lines = Append(g.lines, <<e>>)
  BY <1>1, <1>2, <1>4, WithTextFacts
<1> QED  BY <1>3, <1>5 DEF g, e

LEMMA InitHistoryInv == HistoryInit => HistoryInv
<1> SUFFICES ASSUME HistoryInit PROVE HistoryInv
  OBVIOUS
<1>1. /\ file = <<>> /\ named = 0 /\ log = <<>> /\ Len(log) = 0 /\ Len(file) = 0
      /\ cleared = 0 /\ aborts = 0 /\ overlapped = FALSE
      /\ at = [p \in Procs |-> "idle"] /\ fd = [p \in Procs |-> 0]
      /\ long = [p \in Procs |-> FALSE] /\ snapshot = [p \in Procs |-> <<>>]
  BY DEF HistoryInit
<1>2. TypeInv
  <2>1. <<>> \in Seq(LogFile) /\ <<>> \in Seq(Sizes) /\ <<>> \in Seq(Seq(Entries))
    OBVIOUS
  <2>2. MaxAppends \in Nat /\ MaxAborts \in Nat
    BY HistoryAssumption
  <2>3. Len(log) <= MaxAppends /\ cleared \in 0 .. Len(log) /\ aborts \in 0 .. MaxAborts
        /\ named \in 0 .. Len(file) /\ overlapped \in BOOLEAN
    <3>1. Len(log) = 0 /\ cleared = 0 /\ aborts = 0 /\ Len(file) = 0 /\ named = 0
          /\ overlapped = FALSE
      BY <1>1
    <3>2. overlapped \in BOOLEAN
      BY <3>1, Zenon
    <3>3. 0 \in 0 .. 0 /\ 0 \in 0 .. MaxAborts /\ 0 <= MaxAppends
      BY <2>2
    <3> QED  BY <3>1, <3>2, <3>3, Zenon
  <2>4. /\ fd \in [Procs -> 0 .. Len(file)] /\ long \in [Procs -> BOOLEAN]
        /\ snapshot \in [Procs -> Seq(Seq(Entries))]
        /\ at \in [Procs -> {"idle", "opened", "written", "appended", "measured", "compacting"}]
    BY <1>1, <2>1
  <2>5. /\ \A p \in Procs : fd[p] # 0 <=> at[p] \in {"opened", "written", "appended"}
        /\ \A p \in Procs : at[p] # "idle" => named # 0
    BY <1>1
  <2>6. \A k \in 1 .. Len(file) : file[k].open => file[k].lines # <<>>
    BY <1>1
  <2>7. file \in Seq(LogFile) /\ log \in Seq(Sizes)
    BY <1>1, <2>1
  <2> QED  BY <2>3, <2>4, <2>5, <2>6, <2>7 DEF TypeInv
<1>3. Flat(<<>>) = <<>> /\ Increasing(<<>>) /\ DOMAIN Flat(<<>>) = {} /\ Len(Flat(<<>>)) = 0
  <2>1. DOMAIN <<>> = {} /\ Len(<<>>) = 0
    <3>1. \A q : q = <<>> => q \in Seq({}) /\ Len(q) = 0 /\ DOMAIN q = 1 .. 0
      OBVIOUS
    <3>2. 1 .. 0 = {}
      OBVIOUS
    <3> QED  BY <3>1, <3>2
  <2> QED  BY <2>1, FlatEmpty DEF Increasing
<1>4. OrderInv
  BY <1>1, <1>3 DEF OrderInv
<1>5. Current = EmptyFile /\ Current.lines = <<>> /\ ~Current.open
  BY <1>1 DEF Current, EmptyFile
<1>6. log \in Seq(Nat)
  BY <1>1
<1>7. Fits(Current.lines)
  BY <1>5, <1>6, FitsFacts
<1>8. BoundInv
  BY <1>1, <1>5, <1>7 DEF BoundInv, SnapshotsFit, OpenIsWritten, LongIsSeen
<1>9. Oldest = 0
  BY <1>1, <1>3, <1>5 DEF Oldest
<1>10. AloneInv
  BY <1>1, <1>3, <1>5, <1>9 DEF AloneInv, OneBusy, OwnFile, OwnSnapshot, Newest, Busy
<1>11. SinglesInv
  <2>1. DOMAIN Current.lines = {}
    BY <1>3, <1>5, FlatEmpty
  <2> QED  BY <1>1, <1>9, <2>1 DEF SinglesInv, Singles, NoRoom
<1> QED  BY <1>2, <1>4, <1>8, <1>10, <1>11 DEF HistoryInv

(* Each step: types, the order in every file, and the snapshots.             *)
LEMMA OrderStep ==
  ASSUME TypeInv, OrderInv, [HistoryNext]_historyVars
  PROVE  TypeInv' /\ OrderInv'
<1> USE Typing DEF MoveTo
<1>0. /\ \A k \in 1 .. Len(file) : file[k].open => file[k].lines # <<>>
      /\ file \in Seq(LogFile)
      /\ at \in [Procs -> {"idle", "opened", "written", "appended", "measured", "compacting"}]
      /\ long \in [Procs -> BOOLEAN] /\ fd \in [Procs -> 0 .. Len(file)]
      /\ \A p \in Procs : fd[p] # 0 <=> at[p] \in {"opened", "written", "appended"}
      /\ \A p \in Procs : at[p] # "idle" => named # 0
      /\ snapshot \in [Procs -> Seq(Seq(Entries))]
      /\ Len(log) <= MaxAppends /\ cleared \in 0 .. Len(log)
      /\ overlapped \in BOOLEAN /\ aborts \in 0 .. MaxAborts
      /\ \A k \in 1 .. Len(file) : Increasing(Flat(file[k].lines))
      /\ \A p \in Procs : Increasing(Flat(snapshot[p]))
  BY DEF TypeInv, OrderInv
<1>e. <<>> \in Seq(Seq(Entries)) /\ Increasing(Flat(<<>>))
  <2>1. <<>> \in Seq(Seq(Entries))
    OBVIOUS
  <2>2. \A q : q = <<>> => DOMAIN q = 1 .. 0
    OBVIOUS
  <2> QED  BY <2>1, <2>2, FlatEmpty DEF Increasing
<1>1. ASSUME NEW p \in Procs, OpenForAppend(p) PROVE TypeInv' /\ OrderInv'
  <2>1. CASE named = 0
    <3>1. /\ file' = Append(file, EmptyFile) /\ named' = Len(file) + 1
          /\ fd' = [fd EXCEPT ![p] = named'] /\ at' = [at EXCEPT ![p] = "opened"]
          /\ overlapped' = Overlaps(p)
          /\ UNCHANGED <<long, snapshot, log, cleared, aborts>>
      BY <1>1, <2>1 DEF OpenForAppend
    <3>2. Entries' = Entries
      BY <3>1 DEF Entries
    <3>3. /\ file' \in Seq(LogFile') /\ Len(file') = Len(file) + 1
          /\ \A k \in 1 .. Len(file) : file'[k] = file[k]
          /\ file'[Len(file) + 1] = EmptyFile
          /\ \A k \in 1 .. Len(file') : file'[k].open => file'[k].lines # <<>>
      BY <3>1, <3>2, FileAppended
    <3>4. /\ fd' \in [Procs -> 0 .. Len(file')] /\ named' \in 0 .. Len(file') /\ named' # 0
          /\ overlapped' \in BOOLEAN
      BY <1>0, <3>1, <3>3 DEF Overlaps
    <3>5. \A q \in Procs : fd'[q] # 0 <=> at'[q] \in {"opened", "written", "appended"}
      BY <1>0, <3>1, <3>4
    <3>6. TypeInv'
      BY <1>0, <3>1, <3>2, <3>3, <3>4, <3>5 DEF TypeInv
    <3>7. \A k \in 1 .. Len(file') : k \in 1 .. Len(file) \/ k = Len(file) + 1
      BY <3>3
    <3>8. OrderInv'
      BY <1>0, <1>e, <3>1, <3>3, <3>7 DEF OrderInv
    <3> QED  BY <3>6, <3>8
  <2>2. CASE named # 0
    <3>1. /\ fd' = [fd EXCEPT ![p] = named] /\ at' = [at EXCEPT ![p] = "opened"]
          /\ overlapped' = Overlaps(p)
          /\ UNCHANGED <<file, named, long, snapshot, log, cleared, aborts>>
      BY <1>1, <2>2 DEF OpenForAppend
    <3>2. /\ fd' \in [Procs -> 0 .. Len(file')] /\ overlapped' \in BOOLEAN
          /\ \A q \in Procs : fd'[q] # 0 <=> at'[q] \in {"opened", "written", "appended"}
      BY <1>0, <2>2, <3>1 DEF Overlaps
    <3> QED  BY <1>0, <2>2, <3>1, <3>2 DEF TypeInv, OrderInv, LogFile, Entries
  <2> QED  BY <2>1, <2>2
<1>2. ASSUME NEW p \in Procs, WriteText(p) PROVE TypeInv' /\ OrderInv'
  <2>1. /\ at[p] = "opened" /\ Len(log) < MaxAppends
        /\ at' = [at EXCEPT ![p] = "written"]
        /\ file' = [file EXCEPT ![fd[p]] = WithText(@, Len(log) + 1)]
        /\ UNCHANGED <<named, fd, long, snapshot, cleared, overlapped, aborts>>
    BY <1>2 DEF WriteText
  <2>2. PICK size \in Sizes : log' = Append(log, size)
    BY <1>2 DEF WriteText
  <2>3. /\ Len(log') = Len(log) + 1 /\ log' \in Seq(Sizes)
        /\ Entries' = 1 .. Len(log) + 1 /\ Entries \subseteq Entries'
        /\ Len(log) + 1 \in Entries'
        /\ Seq(Seq(Entries)) \subseteq Seq(Seq(Entries'))
    BY <2>2, EntriesGrow
  <2> DEFINE k == fd[p]
             f == WithText(file[k], Len(log) + 1)
  <2>4. k \in 1 .. Len(file) /\ file' = [file EXCEPT ![k] = f]
    BY <1>0, <2>1
  <2>6. /\ f \in LogFile' /\ f.open /\ f.lines # <<>>
        /\ Flat(f.lines) = Append(Flat(file[k].lines), Len(log) + 1)
    BY <2>2, <2>4, TextWritten
  <2> HIDE DEF f
  <2>7. /\ file' \in Seq(LogFile') /\ Len(file') = Len(file)
        /\ file'[k] = f /\ \A j \in 1 .. Len(file) : j # k => file'[j] = file[j]
        /\ \A j \in 1 .. Len(file') : file'[j].open => file'[j].lines # <<>>
    BY <2>3, <2>4, <2>6, FileReplaced
  <2>8. /\ snapshot' \in [Procs -> Seq(Seq(Entries'))] /\ cleared' \in 0 .. Len(log')
        /\ Len(log') <= MaxAppends
        /\ at' \in [Procs -> {"idle", "opened", "written", "appended", "measured", "compacting"}]
        /\ \A q \in Procs : fd'[q] # 0 <=> at'[q] \in {"opened", "written", "appended"}
        /\ \A q \in Procs : at'[q] # "idle" => named' # 0
    BY <1>0, <2>1, <2>3
  <2>9. TypeInv'
    BY <1>0, <2>1, <2>3, <2>7, <2>8 DEF TypeInv
  <2>10. Increasing(Flat(f.lines))
    <3>1. Flat(file[k].lines) \in Seq(1 .. Len(log))
      BY <2>4, FlatSeq DEF Entries
    <3> DEFINE q == Flat(file[k].lines)
    <3>2. q \in Seq(1 .. Len(log)) /\ Increasing(q)
      BY <1>0, <2>4, <3>1
    <3> HIDE DEF q
    <3>3. Increasing(Append(q, Len(log) + 1))
      BY <3>2, IncreasingAppend
    <3> QED  BY <2>6, <3>3 DEF q
  <2>11. OrderInv'
    BY <1>0, <2>1, <2>7, <2>10 DEF OrderInv
  <2> QED  BY <2>9, <2>11
<1>3. ASSUME NEW p \in Procs, WriteNewline(p) PROVE TypeInv' /\ OrderInv'
  <2>1. /\ at[p] = "written" /\ at' = [at EXCEPT ![p] = "appended"]
        /\ file' = [file EXCEPT ![fd[p]] = WithNewline(@)]
        /\ UNCHANGED <<named, fd, long, snapshot, log, cleared, overlapped, aborts>>
    BY <1>3 DEF WriteNewline
  <2> DEFINE k == fd[p]
             f == WithNewline(file[k])
  <2>2. /\ k \in 1 .. Len(file) /\ file' = [file EXCEPT ![k] = f] /\ Entries' = Entries
    BY <1>0, <2>1 DEF Entries
  <2>3. f \in LogFile' /\ f.lines = file[k].lines /\ ~f.open
    BY <2>2, WithNewlineFacts DEF LogFile
  <2> HIDE DEF f
  <2>4. /\ file' \in Seq(LogFile') /\ Len(file') = Len(file)
        /\ file'[k] = f /\ \A j \in 1 .. Len(file) : j # k => file'[j] = file[j]
        /\ \A j \in 1 .. Len(file') : file'[j].open => file'[j].lines # <<>>
    BY <2>2, <2>3, FileReplaced
  <2>5. /\ at' \in [Procs -> {"idle", "opened", "written", "appended", "measured", "compacting"}]
        /\ \A q \in Procs : fd'[q] # 0 <=> at'[q] \in {"opened", "written", "appended"}
        /\ \A q \in Procs : at'[q] # "idle" => named' # 0
    BY <1>0, <2>1
  <2>6. TypeInv'
    BY <1>0, <2>1, <2>2, <2>4, <2>5 DEF TypeInv
  <2>7. OrderInv'
    BY <1>0, <2>1, <2>2, <2>3, <2>4 DEF OrderInv
  <2> QED  BY <2>6, <2>7
<1>4. ASSUME NEW p \in Procs, StatFile(p) PROVE TypeInv' /\ OrderInv'
  <2>1. /\ at[p] = "appended" /\ at' = [at EXCEPT ![p] = "measured"]
        /\ fd' = [fd EXCEPT ![p] = 0]
        /\ long' = [long EXCEPT ![p] = TooLong(file[named])]
        /\ UNCHANGED <<file, named, snapshot, log, cleared, overlapped, aborts>>
    BY <1>4 DEF StatFile
  <2>2. long' \in [Procs -> BOOLEAN]
    BY <1>0, <2>1 DEF TooLong
  <2>3. /\ at' \in [Procs -> {"idle", "opened", "written", "appended", "measured", "compacting"}]
        /\ fd' \in [Procs -> 0 .. Len(file)]
        /\ \A q \in Procs : fd'[q] # 0 <=> at'[q] \in {"opened", "written", "appended"}
        /\ \A q \in Procs : at'[q] # "idle" => named' # 0
    BY <1>0, <2>1
  <2> QED  BY <1>0, <2>1, <2>2, <2>3 DEF TypeInv, OrderInv, LogFile, Entries
<1>5. ASSUME NEW p \in Procs, ReadLines(p) PROVE TypeInv' /\ OrderInv'
  <2>1. /\ at[p] = "measured" /\ named # 0
        /\ at' = [at EXCEPT ![p] = "idle"] \/ at' = [at EXCEPT ![p] = "compacting"]
        /\ long' = [long EXCEPT ![p] = FALSE]
        /\ \/ snapshot' = snapshot
           \/ snapshot' = [snapshot EXCEPT ![p] = Retained(file[named].lines)]
        /\ UNCHANGED <<file, named, fd, log, cleared, overlapped, aborts>>
    BY <1>0, <1>5 DEF ReadLines
  <2>2. /\ Retained(file[named].lines) \in Seq(Seq(Entries))
        /\ Increasing(Flat(Retained(file[named].lines)))
    BY <1>0, <2>1, RetainedOrder
  <2>3. /\ snapshot' \in [Procs -> Seq(Seq(Entries))]
        /\ \A q \in Procs : Increasing(Flat(snapshot'[q]))
    BY <1>0, <2>1, <2>2
  <2>4. /\ at' \in [Procs -> {"idle", "opened", "written", "appended", "measured", "compacting"}]
        /\ long' \in [Procs -> BOOLEAN]
        /\ \A q \in Procs : fd'[q] # 0 <=> at'[q] \in {"opened", "written", "appended"}
        /\ \A q \in Procs : at'[q] # "idle" => named' # 0
    BY <1>0, <2>1
  <2> QED  BY <1>0, <2>1, <2>3, <2>4 DEF TypeInv, OrderInv, LogFile, Entries
<1>6. ASSUME NEW p \in Procs, RenameCompacted(p) PROVE TypeInv' /\ OrderInv'
  <2>1. /\ at[p] = "compacting" /\ at' = [at EXCEPT ![p] = "idle"]
        /\ file' = Append(file, Compacted(p)) /\ named' = Len(file) + 1
        /\ snapshot' = [snapshot EXCEPT ![p] = <<>>]
        /\ UNCHANGED <<fd, long, log, cleared, overlapped, aborts>>
    BY <1>6 DEF RenameCompacted
  <2> DEFINE f == Compacted(p)
  <2>2. f \in LogFile /\ f.lines = snapshot[p] /\ ~f.open /\ Entries' = Entries
    BY <1>0, <2>1 DEF Compacted, EmptyFile, LogFile, FilesOf, Entries
  <2> HIDE DEF f
  <2>3. /\ file' \in Seq(LogFile') /\ Len(file') = Len(file) + 1
        /\ \A k \in 1 .. Len(file) : file'[k] = file[k]
        /\ file'[Len(file) + 1] = f
        /\ \A k \in 1 .. Len(file') : file'[k].open => file'[k].lines # <<>>
    BY <2>1, <2>2, FileAppended DEF f
  <2>4. /\ at' \in [Procs -> {"idle", "opened", "written", "appended", "measured", "compacting"}]
        /\ fd' \in [Procs -> 0 .. Len(file')] /\ named' \in 0 .. Len(file') /\ named' # 0
        /\ \A q \in Procs : fd'[q] # 0 <=> at'[q] \in {"opened", "written", "appended"}
        /\ snapshot' \in [Procs -> Seq(Seq(Entries'))]
    <3>1. named' \in 0 .. Len(file') /\ named' # 0 /\ 0 .. Len(file) \subseteq 0 .. Len(file')
      BY <2>1, <2>3
    <3>2. fd' \in [Procs -> 0 .. Len(file')]
      BY <1>0, <2>1, <3>1
    <3>3. /\ at' \in [Procs -> {"idle", "opened", "written", "appended", "measured", "compacting"}]
          /\ \A q \in Procs : fd'[q] # 0 <=> at'[q] \in {"opened", "written", "appended"}
      BY <1>0, <2>1
    <3>4. snapshot' \in [Procs -> Seq(Seq(Entries'))]
      BY <1>0, <1>e, <2>1, <2>2
    <3> QED  BY <3>1, <3>2, <3>3, <3>4
  <2>5. TypeInv'
    BY <1>0, <2>1, <2>2, <2>3, <2>4 DEF TypeInv
  <2>6. \A k \in 1 .. Len(file') : k \in 1 .. Len(file) \/ k = Len(file) + 1
    BY <2>3
  <2>7. OrderInv'
    BY <1>0, <1>e, <2>1, <2>2, <2>3, <2>6 DEF OrderInv
  <2> QED  BY <2>5, <2>7
<1>7. ASSUME NEW p \in Procs, Clear(p) PROVE TypeInv' /\ OrderInv'
  <2>1. /\ named # 0 /\ file' = [file EXCEPT ![named] = EmptyFile] /\ cleared' = Len(log)
        /\ overlapped' = Overlaps(p)
        /\ UNCHANGED <<named, at, fd, long, snapshot, log, aborts>>
    BY <1>7 DEF Clear, procVars
  <2>2. Entries' = Entries /\ LogFile' = LogFile
    BY <2>1 DEF Entries, LogFile
  <2>3. /\ file' \in Seq(LogFile') /\ Len(file') = Len(file)
        /\ file'[named] = EmptyFile /\ \A j \in 1 .. Len(file) : j # named => file'[j] = file[j]
        /\ \A j \in 1 .. Len(file') : file'[j].open => file'[j].lines # <<>>
    BY <2>1, <2>2, FileReplaced
  <2>4. cleared' \in 0 .. Len(log') /\ overlapped' \in BOOLEAN
    BY <1>0, <2>1 DEF Overlaps
  <2> QED  BY <1>0, <1>e, <2>1, <2>2, <2>3, <2>4 DEF TypeInv, OrderInv
<1>8. ASSUME NEW p \in Procs, Abort(p) PROVE TypeInv' /\ OrderInv'
  <2>1. /\ aborts < MaxAborts /\ aborts' = aborts + 1
        /\ at' = [at EXCEPT ![p] = "idle"] /\ fd' = [fd EXCEPT ![p] = 0]
        /\ long' = [long EXCEPT ![p] = FALSE] /\ snapshot' = [snapshot EXCEPT ![p] = <<>>]
        /\ UNCHANGED <<file, named, log, cleared, overlapped>>
    BY <1>8 DEF Abort, CloseDescriptor
  <2>2. /\ at' \in [Procs -> {"idle", "opened", "written", "appended", "measured", "compacting"}]
        /\ fd' \in [Procs -> 0 .. Len(file)] /\ long' \in [Procs -> BOOLEAN]
        /\ \A q \in Procs : fd'[q] # 0 <=> at'[q] \in {"opened", "written", "appended"}
        /\ \A q \in Procs : at'[q] # "idle" => named' # 0
        /\ snapshot' \in [Procs -> Seq(Seq(Entries))]
        /\ aborts' \in 0 .. MaxAborts
    BY <1>0, <1>e, <2>1, SMTT(30)
  <2> QED  BY <1>0, <1>e, <2>1, <2>2, SMTT(30) DEF TypeInv, OrderInv, LogFile, Entries
<1>9. CASE UNCHANGED historyVars
  BY <1>0, <1>9 DEF historyVars, procVars, TypeInv, OrderInv, LogFile, Entries
<1> QED
  BY <1>1, <1>2, <1>3, <1>4, <1>5, <1>6, <1>7, <1>8, <1>9 DEF HistoryNext, Exhausted

(***************************************************************************)
(* The bounds of a quiet file                                              *)
(***************************************************************************)
(* Appending an entry does not change what fits among the earlier ones.       *)
LEMMA FitsKept ==
  ASSUME TypeInv, log' = log \/ \E size \in Sizes : log' = Append(log, size)
  PROVE  \A L \in Seq(Seq(Entries)) : Fits(L)' <=> Fits(L)
<1> SUFFICES ASSUME NEW L \in Seq(Seq(Entries)) PROVE Fits(L)' <=> Fits(L)
  OBVIOUS
<1>1. log \in Seq(Nat) /\ Sizes \subseteq Nat
  BY Typing, HistoryAssumption
<1>2. CASE log' = log
  BY <1>1, <1>2, SizesKept
<1>3. CASE \E size \in Sizes : log' = Append(log, size)
  BY <1>1, <1>3, SizesKept
<1> QED  BY <1>2, <1>3

(* A file that is out of its bounds is too long, unless its last line is open. *)
LEMMA TooLongFacts ==
  ASSUME TypeInv, ~Fits(Current.lines), ~Current.open, Len(Current.lines) <= MaxEntries
  PROVE  TooLong(Current)
<1>1. /\ Bytes(Current.lines) \in Nat /\ Current.blanks \in Nat /\ MaxBytes \in Nat
  <2>1. Current \in LogFile /\ Current.lines \in Seq(Seq(Entries)) /\ log \in Seq(Nat)
    BY Typing
  <2> QED  BY <2>1, BytesFacts, HistoryAssumption DEF LogFile, FilesOf
<1>2. ~(Bytes(Current.lines) <= MaxBytes)
  BY DEF Fits
<1>3. FileLength(Current) = Bytes(Current.lines) + Current.blanks
  BY <1>1 DEF FileLength
<1> QED  BY <1>1, <1>2, <1>3 DEF TooLong

LEMMA BoundStep ==
  ASSUME TypeInv, BoundInv, [HistoryNext]_historyVars
  PROVE  BoundInv'
<1> SUFFICES ASSUME aborts' = 0
             PROVE  SnapshotsFit' /\ OpenIsWritten' /\ LongIsSeen'
  BY DEF BoundInv
<1>0. /\ at \in [Procs -> {"idle", "opened", "written", "appended", "measured", "compacting"}]
      /\ long \in [Procs -> BOOLEAN] /\ fd \in [Procs -> 0 .. Len(file)]
      /\ \A p \in Procs : fd[p] # 0 <=> at[p] \in {"opened", "written", "appended"}
      /\ \A p \in Procs : at[p] # "idle" => named # 0
      /\ snapshot \in [Procs -> Seq(Seq(Entries))]
      /\ aborts \in 0 .. MaxAborts
  BY DEF TypeInv
<1>t. /\ log \in Seq(Nat) /\ Len(file) \in Nat /\ DOMAIN file = 1 .. Len(file)
      /\ named # 0 => named \in 1 .. Len(file) /\ Current = file[named]
      /\ Current.lines \in Seq(Seq(Entries))
      /\ EmptyFile.lines = <<>> /\ ~EmptyFile.open
      /\ \A p \in Procs : fd[p] # 0 => fd[p] \in 1 .. Len(file)
  BY Typing DEF Current
<1>e. <<>> \in Seq(Seq(Entries)) /\ Fits(<<>>)
  <2>1. <<>> \in Seq(Seq(Entries))
    OBVIOUS
  <2> QED  BY <1>t, <2>1, FitsFacts
<1>k. ASSUME log' = log, named' = named, named = 0 \/ file'[named] = file[named]
      PROVE  Current' = Current
  BY <1>k DEF Current
<1>b. ASSUME aborts = 0
      PROVE  /\ \A p \in Procs : at[p] = "compacting" => Fits(snapshot[p])
             /\ Current.open => \E p \in Procs : at[p] = "written" /\ fd[p] = named
             /\ ~Fits(Current.lines) => \E p \in Procs : WillCompact(p)
  BY <1>b DEF BoundInv, SnapshotsFit, OpenIsWritten, LongIsSeen
<1>1. ASSUME NEW p \in Procs, OpenForAppend(p)
      PROVE  SnapshotsFit' /\ OpenIsWritten' /\ LongIsSeen'
  <2>1. /\ at[p] = "idle" /\ fd' = [fd EXCEPT ![p] = named'] /\ at' = [at EXCEPT ![p] = "opened"]
        /\ UNCHANGED <<long, snapshot, log, aborts>>
    BY <1>1 DEF OpenForAppend, MoveTo
  <2>2. \A L \in Seq(Seq(Entries)) : Fits(L)' <=> Fits(L)
    BY <2>1, FitsKept
  <2>3. \A q \in Procs : at'[q] = "compacting" => at[q] = "compacting"
    BY <1>0, <2>1
  <2>4. SnapshotsFit'
    BY <1>0, <1>b, <2>1, <2>2, <2>3 DEF SnapshotsFit
  <2>5. CASE named = 0
    <3>1. file' = Append(file, EmptyFile) /\ named' = Len(file) + 1
      BY <1>1, <2>5 DEF OpenForAppend
    <3>2. file'[Len(file) + 1] = EmptyFile
      <4>1. file \in Seq(LogFile) /\ EmptyFile \in LogFile
        BY Typing DEF TypeInv
      <4> QED  BY <3>1, <4>1, AppendFacts
    <3>3. Current' = EmptyFile
      BY <1>t, <3>1, <3>2 DEF Current
    <3>4. Current'.lines = <<>> /\ ~Current'.open
      BY <1>t, <3>3
    <3>5. Fits(<<>>)'
      BY <1>e, <2>2
    <3> QED  BY <2>4, <3>4, <3>5 DEF OpenIsWritten, LongIsSeen
  <2>6. CASE named # 0
    <3>1. UNCHANGED <<file, named>>
      BY <1>1, <2>6 DEF OpenForAppend
    <3>2. Current' = Current
      BY <3>1 DEF Current
    <3>3. OpenIsWritten'
      BY <1>0, <1>b, <2>1, <3>1, <3>2 DEF OpenIsWritten
    <3>4. LongIsSeen'
      BY <1>0, <1>b, <1>t, <2>1, <2>2, <3>2 DEF LongIsSeen, WillCompact
    <3> QED  BY <2>4, <3>3, <3>4
  <2> QED  BY <2>5, <2>6
<1>2. ASSUME NEW p \in Procs, WriteText(p)
      PROVE  SnapshotsFit' /\ OpenIsWritten' /\ LongIsSeen'
  <2>1. /\ at[p] = "opened" /\ at' = [at EXCEPT ![p] = "written"]
        /\ file' = [file EXCEPT ![fd[p]] = WithText(@, Len(log) + 1)]
        /\ UNCHANGED <<named, fd, long, snapshot, aborts>>
        /\ \E size \in Sizes : log' = Append(log, size)
    BY <1>2 DEF WriteText, MoveTo
  <2>2. \A L \in Seq(Seq(Entries)) : Fits(L)' <=> Fits(L)
    BY <2>1, FitsKept
  <2>3. SnapshotsFit'
    BY <1>0, <1>b, <2>1, <2>2 DEF SnapshotsFit
  <2>4. LongIsSeen'
    BY <1>0, <2>1 DEF LongIsSeen, WillCompact
  <2>5. CASE fd[p] = named
    BY <1>0, <2>1, <2>3, <2>4, <2>5 DEF OpenIsWritten
  <2>6. CASE fd[p] # named
    <3>1. Current' = Current
      BY <1>t, <2>1, <2>6 DEF Current
    <3> QED  BY <1>0, <1>b, <2>1, <2>3, <2>4, <3>1 DEF OpenIsWritten
  <2> QED  BY <2>5, <2>6
<1>3. ASSUME NEW p \in Procs, WriteNewline(p)
      PROVE  SnapshotsFit' /\ OpenIsWritten' /\ LongIsSeen'
  <2>1. /\ at[p] = "written" /\ at' = [at EXCEPT ![p] = "appended"]
        /\ file' = [file EXCEPT ![fd[p]] = WithNewline(@)]
        /\ UNCHANGED <<named, fd, long, snapshot, log, aborts>>
    BY <1>3 DEF WriteNewline, MoveTo
  <2>2. \A L \in Seq(Seq(Entries)) : Fits(L)' <=> Fits(L)
    BY <2>1, FitsKept
  <2>3. SnapshotsFit'
    BY <1>0, <1>b, <2>1, <2>2 DEF SnapshotsFit
  <2>4. LongIsSeen'
    BY <1>0, <2>1 DEF LongIsSeen, WillCompact
  <2>5. CASE fd[p] = named
    <3>1. fd[p] \in 1 .. Len(file)
      BY <1>0, <1>t, <2>1
    <3>2. Current' = WithNewline(file[named])
      BY <1>t, <2>1, <2>5, <3>1 DEF Current
    <3>3. ~WithNewline(file[named]).open
      BY <2>5, <3>1, Typing, WithNewlineFacts DEF LogFile
    <3> QED  BY <2>3, <2>4, <3>2, <3>3 DEF OpenIsWritten
  <2>6. CASE fd[p] # named
    <3>1. Current' = Current
      BY <1>t, <2>1, <2>6 DEF Current
    <3> QED  BY <1>0, <1>b, <2>1, <2>3, <2>4, <2>6, <3>1 DEF OpenIsWritten
  <2> QED  BY <2>5, <2>6
<1>4. ASSUME NEW p \in Procs, StatFile(p)
      PROVE  SnapshotsFit' /\ OpenIsWritten' /\ LongIsSeen'
  <2>1. /\ at[p] = "appended" /\ at' = [at EXCEPT ![p] = "measured"]
        /\ fd' = [fd EXCEPT ![p] = 0]
        /\ long' = [long EXCEPT ![p] = TooLong(file[named])]
        /\ UNCHANGED <<file, named, snapshot, log, aborts>>
    BY <1>4 DEF StatFile, MoveTo
  <2>2. \A L \in Seq(Seq(Entries)) : Fits(L)' <=> Fits(L)
    BY <2>1, FitsKept
  <2>3. SnapshotsFit'
    BY <1>0, <1>b, <2>1, <2>2 DEF SnapshotsFit
  <2>4. Current' = Current /\ Current = file[named]
    BY <1>0, <1>t, <2>1 DEF Current
  <2>5. OpenIsWritten'
    BY <1>0, <1>b, <2>1, <2>4 DEF OpenIsWritten
  <2>6. LongIsSeen'
    <3> SUFFICES ASSUME ~Fits(Current.lines) PROVE \E q \in Procs : WillCompact(q)'
      BY <1>t, <2>2, <2>4 DEF LongIsSeen
    <3>1. CASE Current.open
      <4>1. PICK q \in Procs : at[q] = "written"
        BY <1>b, <2>1, <3>1
      <4>2. WillCompact(q)'
        BY <1>0, <2>1, <4>1 DEF WillCompact
      <4> QED  BY <4>2
    <3>2. CASE Len(Current.lines) > MaxEntries
      <4>1. WillCompact(p)'
        BY <1>0, <2>1, <2>4, <3>2 DEF WillCompact
      <4> QED  BY <4>1
    <3>3. CASE ~Current.open /\ Len(Current.lines) <= MaxEntries
      <4>1. TooLong(Current)
        BY <3>3, TooLongFacts
      <4>2. WillCompact(p)'
        BY <1>0, <2>1, <2>4, <4>1 DEF WillCompact
      <4> QED  BY <4>2
    <3> QED  BY <1>t, <3>1, <3>2, <3>3, HistoryAssumption
  <2> QED  BY <2>3, <2>5, <2>6
<1>5. ASSUME NEW p \in Procs, ReadLines(p)
      PROVE  SnapshotsFit' /\ OpenIsWritten' /\ LongIsSeen'
  <2>1. /\ at[p] = "measured" /\ long' = [long EXCEPT ![p] = FALSE]
        /\ UNCHANGED <<file, named, fd, log, aborts>>
    BY <1>5 DEF ReadLines
  <2>2. \A L \in Seq(Seq(Entries)) : Fits(L)' <=> Fits(L)
    BY <2>1, FitsKept
  <2>3. Current' = Current /\ Current = file[named]
    BY <1>0, <1>t, <2>1 DEF Current
  <2>4. CASE ~long[p] /\ Len(file[named].lines) <= MaxEntries
    <3>1. at' = [at EXCEPT ![p] = "idle"] /\ snapshot' = snapshot
      BY <1>5, <2>4 DEF ReadLines, MoveTo
    <3>2. SnapshotsFit'
      BY <1>0, <1>b, <2>1, <2>2, <3>1 DEF SnapshotsFit
    <3>3. OpenIsWritten'
      BY <1>0, <1>b, <2>1, <2>3, <3>1 DEF OpenIsWritten
    <3>4. ~WillCompact(p)
      BY <1>t, <2>1, <2>3, <2>4, HistoryAssumption DEF WillCompact
    <3>5. \A q \in Procs : WillCompact(q) => WillCompact(q)'
      BY <1>0, <2>1, <2>3, <3>1, <3>4 DEF WillCompact
    <3>6. LongIsSeen'
      BY <1>b, <1>t, <2>1, <2>2, <2>3, <3>5 DEF LongIsSeen
    <3> QED  BY <3>2, <3>3, <3>6
  <2>5. CASE ~(~long[p] /\ Len(file[named].lines) <= MaxEntries)
    <3>1. /\ at' = [at EXCEPT ![p] = "compacting"]
          /\ snapshot' = [snapshot EXCEPT ![p] = Retained(file[named].lines)]
      BY <1>5, <2>5 DEF ReadLines, MoveTo
    <3>2. /\ Retained(file[named].lines) \in Seq(Seq(Entries))
          /\ Fits(Retained(file[named].lines))
      BY <1>t, <2>3, RetainedOrder
    <3>3. SnapshotsFit'
      BY <1>0, <1>b, <2>1, <2>2, <3>1, <3>2 DEF SnapshotsFit
    <3>4. OpenIsWritten'
      BY <1>0, <1>b, <2>1, <2>3, <3>1 DEF OpenIsWritten
    <3>5. LongIsSeen'
      BY <1>0, <3>1 DEF LongIsSeen, WillCompact
    <3> QED  BY <3>3, <3>4, <3>5
  <2> QED  BY <2>4, <2>5
<1>6. ASSUME NEW p \in Procs, RenameCompacted(p)
      PROVE  SnapshotsFit' /\ OpenIsWritten' /\ LongIsSeen'
  <2>1. /\ at[p] = "compacting" /\ at' = [at EXCEPT ![p] = "idle"]
        /\ file' = Append(file, Compacted(p)) /\ named' = Len(file) + 1
        /\ snapshot' = [snapshot EXCEPT ![p] = <<>>]
        /\ UNCHANGED <<fd, long, log, aborts>>
    BY <1>6 DEF RenameCompacted, MoveTo
  <2>2. \A L \in Seq(Seq(Entries)) : Fits(L)' <=> Fits(L)
    BY <2>1, FitsKept
  <2>3. SnapshotsFit'
    BY <1>0, <1>b, <2>1, <2>2 DEF SnapshotsFit
  <2>4. Current'.lines = snapshot[p] /\ ~Current'.open
    <3>1. Compacted(p).lines = snapshot[p] /\ ~Compacted(p).open
      BY DEF Compacted, EmptyFile
    <3>2. Current' = Compacted(p)
      <4>1. file'[Len(file) + 1] = Compacted(p)
        <5>1. \A f : file \in Seq(LogFile \cup {f}) /\ f \in LogFile \cup {f}
          BY Typing, SeqMonotone DEF TypeInv
        <5> QED  BY <2>1, <5>1, AppendFacts
      <4>2. Len(file) + 1 # 0
        BY <1>t
      <4> QED  BY <2>1, <4>1, <4>2 DEF Current
    <3> QED  BY <3>1, <3>2
  <2>5. LongIsSeen'
    <3>1. Fits(snapshot[p]) /\ snapshot[p] \in Seq(Seq(Entries))
      BY <1>0, <1>b, <2>1
    <3>2. \A L : L = snapshot[p] => Fits(L)'
      BY <2>2, <3>1
    <3> QED  BY <2>4, <3>2 DEF LongIsSeen
  <2> QED  BY <2>3, <2>4, <2>5 DEF OpenIsWritten
<1>7. ASSUME NEW p \in Procs, Clear(p)
      PROVE  SnapshotsFit' /\ OpenIsWritten' /\ LongIsSeen'
  <2>1. /\ named # 0 /\ file' = [file EXCEPT ![named] = EmptyFile]
        /\ UNCHANGED <<named, at, fd, long, snapshot, log, aborts>>
    BY <1>7 DEF Clear, procVars
  <2>2. \A L \in Seq(Seq(Entries)) : Fits(L)' <=> Fits(L)
    BY <2>1, FitsKept
  <2>3. SnapshotsFit'
    BY <1>0, <1>b, <2>1, <2>2 DEF SnapshotsFit
  <2>4. Current' = EmptyFile
    BY <1>t, <2>1 DEF Current
  <2>5. Fits(<<>>)' /\ Current'.lines = <<>> /\ ~Current'.open
    BY <1>e, <1>t, <2>2, <2>4
  <2> QED  BY <2>3, <2>5 DEF OpenIsWritten, LongIsSeen
<1>8. ASSUME NEW p \in Procs, Abort(p)
      PROVE  SnapshotsFit' /\ OpenIsWritten' /\ LongIsSeen'
  <2>1. aborts' = aborts + 1
    BY <1>8 DEF Abort
  <2> QED  BY <1>0, <2>1, Typing
<1>9. CASE UNCHANGED historyVars
  <2>1. /\ UNCHANGED <<file, named, at, fd, long, snapshot, log, aborts>>
    BY <1>9 DEF historyVars, procVars
  <2>2. \A L \in Seq(Seq(Entries)) : Fits(L)' <=> Fits(L)
    BY <2>1, FitsKept
  <2>3. Current' = Current
    BY <2>1 DEF Current
  <2> QED
    BY <1>0, <1>b, <1>t, <2>1, <2>2, <2>3
    DEF SnapshotsFit, OpenIsWritten, LongIsSeen, WillCompact
<1> QED
  BY <1>1, <1>2, <1>3, <1>4, <1>5, <1>6, <1>7, <1>8, <1>9 DEF HistoryNext, Exhausted

(***************************************************************************)
(* A process alone                                                         *)
(***************************************************************************)
(* Lines of one entry each hold as many entries as there are lines.           *)
LEMMA SinglesFlat ==
  ASSUME NEW S, NEW L \in Seq(Seq(S)), Singles(L)
  PROVE  Len(Flat(L)) = Len(L) /\ \A i \in 1 .. Len(L) : Flat(L)[i] = L[i][1]
<1> DEFINE P(k) == LET F == Flat(SubSeq(L, 1, k))
                   IN Len(F) = k /\ \A i \in 1 .. k : F[i] = L[i][1]
           Bad == {k \in 0 .. Len(L) : ~P(k)}
<1>0. Len(L) \in Nat /\ DOMAIN L = 1 .. Len(L) /\ \A i \in 1 .. Len(L) : L[i] \in Seq(S)
  OBVIOUS
<1>s. \A i \in 1 .. Len(L) : Len(L[i]) = 1
  BY <1>0 DEF Singles
<1>1. Bad = {}
  <2> SUFFICES ASSUME Bad # {} PROVE FALSE
    OBVIOUS
  <2>1. PICK k \in Bad : \A m \in Bad : k <= m
    <3>1. Bad \subseteq Nat
      BY <1>0
    <3> HIDE DEF Bad
    <3> QED  BY <3>1, LeastNatural
  <2>k. k \in 0 .. Len(L) /\ ~P(k) /\ \A m \in 0 .. Len(L) : ~P(m) => k <= m
    BY <2>1
  <2>2. k # 0
    <3>1. SubSeq(L, 1, 0) = <<>>
      <4>1. SubSeq(L, 1, 0) \in Seq(Seq(S)) /\ Len(SubSeq(L, 1, 0)) = 0
        <5>1. 0 \in 0 .. Len(L)
          BY <1>0
        <5> QED  BY <5>1, SuffixFacts, Zenon
      <4> QED  BY <4>1, EmptySequence
    <3>2. Len(Flat(<<>>)) = 0
      <4>1. Len(<<>>) = 0
        OBVIOUS
      <4> QED  BY <4>1, FlatEmpty
    <3>3. P(0)
      <4> DEFINE F == Flat(SubSeq(L, 1, 0))
      <4>1. Len(F) = 0
        BY <3>1, <3>2
      <4>2. \A i \in 1 .. 0 : FALSE
        OBVIOUS
      <4> HIDE DEF F
      <4>3. Len(F) = 0 /\ \A i \in 1 .. 0 : F[i] = L[i][1]
        BY <4>1, <4>2
      <4> QED  BY <4>3 DEF F
    <3> QED  BY <2>k, <3>3
  <2> DEFINE M == SubSeq(L, 1, k - 1)
             x == L[k]
  <2>3. k \in 1 .. Len(L) /\ k - 1 \in 0 .. Len(L) /\ x \in Seq(S) /\ Len(x) = 1
    <3>1. k \in 1 .. Len(L) /\ k - 1 \in 0 .. Len(L)
      BY <1>0, <2>k, <2>2
    <3> QED  BY <1>0, <1>s, <3>1
  <2>4. P(k - 1)
    <3>1. ~(k <= k - 1)
      BY <2>3
    <3> HIDE DEF P
    <3> QED  BY <2>k, <2>3, <3>1
  <2>5. M \in Seq(Seq(S)) /\ Len(M) = k - 1 /\ \A i \in 1 .. k - 1 : M[i] = L[i]
    BY <2>3, SuffixFacts, Zenon, SMTT(60)
  <2>6. SubSeq(L, 1, k) = Append(M, x)
    <3> DEFINE q == SubSeq(L, 1, k)
               r == Append(M, x)
    <3>1. q \in Seq(Seq(S)) /\ Len(q) = k /\ \A i \in 1 .. k : q[i] = L[i]
      BY <2>3, SuffixFacts, Zenon, SMTT(30)
    <3>2. /\ r \in Seq(Seq(S)) /\ Len(r) = k
          /\ \A i \in 1 .. k - 1 : r[i] = M[i]
          /\ r[k] = L[k]
      <4> HIDE DEF M
      <4>1. /\ Append(M, x) \in Seq(Seq(S)) /\ Len(Append(M, x)) = Len(M) + 1
            /\ \A i \in 1 .. Len(M) : Append(M, x)[i] = M[i]
            /\ Append(M, x)[Len(M) + 1] = x
        BY <2>3, <2>5, AppendFacts
      <4>2. Len(M) + 1 = k
        BY <2>3, <2>5
      <4> QED  BY <2>5, <4>1, <4>2
    <3>3. \A i \in 1 .. k : i \in 1 .. k - 1 \/ i = k
      BY <2>3
    <3> HIDE DEF q, r, M
    <3>4. \A i \in 1 .. k : q[i] = r[i]
      BY <2>5, <3>1, <3>2, <3>3
    <3>5. q = r
      BY <3>1, <3>2, <3>4, SequenceEquality
    <3> QED  BY <3>5 DEF q, r
  <2>7. Flat(SubSeq(L, 1, k)) = Flat(M) \o x
    BY <2>3, <2>5, <2>6, FlatAppend
  <2>8. Flat(M) \in Seq(S) /\ Len(Flat(M)) = k - 1 /\ \A i \in 1 .. k - 1 : Flat(M)[i] = L[i][1]
    BY <2>4, <2>5, FlatSeq
  <2>9. P(k)
    <3> DEFINE a == Flat(M)
               c == a \o x
    <3>0. a \in Seq(S) /\ x \in Seq(S)
      BY <2>3, <2>8
    <3>2. Len(a) = k - 1 /\ Len(x) = 1 /\ \A i \in 1 .. k - 1 : a[i] = L[i][1]
      BY <2>3, <2>8
    <3> HIDE DEF a, M
    <3>1. /\ Len(c) = Len(a) + Len(x)
          /\ \A i \in 1 .. Len(a) : c[i] = a[i]
          /\ \A i \in 1 .. Len(x) : c[Len(a) + i] = x[i]
      <4> HIDE DEF x
      <4> QED  BY <3>0, ConcatFacts
    <3> HIDE DEF c
    <3>3. \A i \in 1 .. k : i \in 1 .. k - 1 \/ i = k
      BY <2>3
    <3>4. c[k] = L[k][1]
      <4>1. Len(a) + 1 = k /\ 1 \in 1 .. Len(x)
        BY <2>3, <3>2
      <4> QED  BY <3>1, <4>1
    <3>5. Len(c) = k
      BY <2>3, <3>1, <3>2
    <3>6. \A i \in 1 .. k : c[i] = L[i][1]
      BY <3>1, <3>2, <3>3, <3>4
    <3> QED  BY <2>7, <3>5, <3>6 DEF a, c
  <2> QED  BY <2>k, <2>9
<1>2. P(Len(L))
  BY <1>0, <1>1
<1>3. SubSeq(L, 1, Len(L)) = L
  <2>1. /\ SubSeq(L, 1, Len(L)) \in Seq(Seq(S)) /\ Len(SubSeq(L, 1, Len(L))) = Len(L)
        /\ \A i \in 1 .. Len(L) : SubSeq(L, 1, Len(L))[i] = L[i]
    <3>1. Len(L) \in 0 .. Len(L)
      BY <1>0
    <3> QED  BY <3>1, SuffixFacts, Zenon
  <2> QED  BY <2>1, SequenceEquality
<1> QED  BY <1>2, <1>3

(* The number of the oldest entry kept, before and after the tail is taken.   *)
LEMMA OldestFacts ==
  ASSUME TypeInv
  PROVE  /\ Flat(Current.lines) \in Seq(Entries) /\ Len(Flat(Current.lines)) \in Nat
         /\ DOMAIN Flat(Current.lines) = 1 .. Len(Flat(Current.lines))
         /\ Len(log) \in Nat /\ cleared \in Nat /\ Oldest \in Int /\ Oldest <= Len(log)
         /\ Oldest > cleared =>
              /\ Oldest \in Entries
              /\ <<<<Oldest>>>> \in Seq(Seq(Entries))
              /\ <<<<Oldest>>>> \o Current.lines \in Seq(Seq(Entries))
<1>1. /\ Current.lines \in Seq(Seq(Entries)) /\ Len(log) \in Nat /\ cleared \in 0 .. Len(log)
  BY Typing DEF TypeInv
<1>2. Flat(Current.lines) \in Seq(Entries)
  BY <1>1, FlatSeq
<1>3. /\ Len(Flat(Current.lines)) \in Nat
      /\ DOMAIN Flat(Current.lines) = 1 .. Len(Flat(Current.lines))
  BY <1>2
<1>4. cleared \in Nat /\ Oldest \in Int /\ Oldest <= Len(log)
  BY <1>1, <1>3 DEF Oldest
<1>5. ASSUME Oldest > cleared
      PROVE  /\ Oldest \in Entries
             /\ <<<<Oldest>>>> \in Seq(Seq(Entries))
             /\ <<<<Oldest>>>> \o Current.lines \in Seq(Seq(Entries))
  <2>1. Oldest \in Entries
    BY <1>1, <1>4, <1>5 DEF Entries
  <2>2. <<Oldest>> \in Seq(Entries)
    BY <2>1
  <2>3. <<<<Oldest>>>> \in Seq(Seq(Entries))
    BY <2>2
  <2> QED  BY <1>1, <2>1, <2>3, ConcatFacts
<1> QED  BY <1>1, <1>2, <1>3, <1>4, <1>5

(* A step that writes nothing leaves the order, the snapshots and the room.   *)
LEMMA NothingWritten ==
  ASSUME TypeInv, log' = log, cleared' = cleared, Current'.lines = Current.lines
  PROVE  /\ Newest => Newest'
         /\ NoRoom => NoRoom'
         /\ Singles(Current.lines) => Singles(Current.lines)'
         /\ \A s : IsRetained(s, Current.lines) => IsRetained(s, Current.lines)'
<1>1. /\ Current.lines \in Seq(Seq(Entries))
      /\ Oldest > cleared => <<<<Oldest>>>> \o Current.lines \in Seq(Seq(Entries))
  BY Typing, OldestFacts
<1>2. \A L \in Seq(Seq(Entries)) : Fits(L)' <=> Fits(L)
  BY FitsKept
<1>3. Oldest' = Oldest
  BY DEF Oldest
<1>4. Newest => Newest'
  BY <1>3 DEF Newest
<1>5. NoRoom => NoRoom'
  <2> SUFFICES ASSUME NoRoom, Oldest > cleared
               PROVE  ~Fits(<<<<Oldest>>>> \o Current.lines)'
    BY <1>3 DEF NoRoom
  <2> DEFINE X == <<<<Oldest>>>> \o Current.lines
  <2>1. X \in Seq(Seq(Entries)) /\ ~Fits(X)
    BY <1>1 DEF NoRoom
  <2>2. X' = X
    BY <1>3
  <2> HIDE DEF X
  <2>3. ~Fits(X)'
    BY <1>2, <2>1, <2>2
  <2> QED  BY <2>3 DEF X
<1>6. Singles(Current.lines) => Singles(Current.lines)'
  BY DEF Singles
<1>7. ASSUME NEW s, NEW L \in Seq(Seq(Entries)), IsRetained(s, L)
      PROVE  IsRetained(s, L)'
  <2>1. PICK n \in 0 .. Len(L) :
          /\ s = DropFirst(L, n)
          /\ \A m \in 0 .. n - 1 : ~Fits(DropFirst(L, m))
    BY <1>7 DEF IsRetained
  <2>2. \A m \in 0 .. n - 1 : DropFirst(L, m) \in Seq(Seq(Entries))
    <3>1. Len(L) \in Nat
      OBVIOUS
    <3>2. \A m \in 0 .. n - 1 : m \in 0 .. Len(L)
      BY <3>1
    <3> QED  BY <3>2, SuffixFacts, Zenon
  <2>3. \A m \in 0 .. n - 1 : ~Fits(DropFirst(L, m))'
    BY <1>2, <2>1, <2>2
  <2> QED  BY <2>1, <2>3 DEF IsRetained
<1> QED  BY <1>1, <1>4, <1>5, <1>6, <1>7

(* The text of an entry that is written alone follows the newest one, ...      *)
LEMMA TextFollows ==
  ASSUME TypeInv, Newest, log' \in Seq(Nat), Len(log') = Len(log) + 1, cleared' = cleared,
         Flat(Current'.lines) = Append(Flat(Current.lines), Len(log) + 1)
  PROVE  Newest' /\ Oldest' = Oldest
<1> DEFINE q == Flat(Current.lines)
           e == Len(log) + 1
<1>1. /\ q \in Seq(Entries) /\ Len(q) \in Nat /\ DOMAIN q = 1 .. Len(q)
      /\ Len(log) \in Nat /\ cleared \in Nat /\ Oldest = Len(log) - Len(q) /\ Oldest \in Int
  BY OldestFacts DEF Oldest
<1>2. Oldest >= cleared /\ \A i \in DOMAIN q : q[i] = Oldest + i
  BY DEF Newest
<1>3. q \in Seq(Nat) /\ e \in Nat
  BY <1>1, SeqMonotone DEF Entries
<1> HIDE DEF q
<1>4. /\ Len(Append(q, e)) = Len(q) + 1 /\ DOMAIN Append(q, e) = 1 .. Len(q) + 1
      /\ \A i \in 1 .. Len(q) : Append(q, e)[i] = q[i]
      /\ Append(q, e)[Len(q) + 1] = e
  BY <1>3, AppendFacts
<1>5. Oldest' = Oldest
  <2>1. Oldest' = Len(log') - Len(Append(q, e))
    BY DEF Oldest, q
  <2> QED  BY <1>1, <1>4, <2>1
<1>6. \A i \in DOMAIN Append(q, e) : Append(q, e)[i] = Oldest + i
  <2>1. \A i \in DOMAIN Append(q, e) : i \in 1 .. Len(q) \/ i = Len(q) + 1
    BY <1>1, <1>4, SMTT(30)
  <2> QED  BY <1>1, <1>2, <1>4, <2>1
<1> QED  BY <1>2, <1>5, <1>6 DEF Newest, q

(* ... and a tail of the lines holds the newest entries still.                 *)
LEMMA TailFollows ==
  ASSUME TypeInv, Newest, log' = log, cleared' = cleared,
         NEW n \in 0 .. Len(Current.lines), Current'.lines = DropFirst(Current.lines, n)
  PROVE  Newest' /\ Oldest' = Oldest + Len(Flat(SubSeq(Current.lines, 1, n)))
<1> DEFINE L == Current.lines
           a == Flat(SubSeq(L, 1, n))
           b == Flat(DropFirst(L, n))
           q == Flat(L)
<1>1. /\ q \in Seq(Entries) /\ Len(q) \in Nat /\ DOMAIN q = 1 .. Len(q)
      /\ Len(log) \in Nat /\ cleared \in Nat /\ Oldest = Len(log) - Len(q) /\ Oldest \in Int
  BY OldestFacts DEF Oldest
<1>2. Oldest >= cleared /\ \A i \in DOMAIN q : q[i] = Oldest + i
  BY DEF Newest
<1>3. L \in Seq(Seq(Entries))
  BY Typing
<1>4. a \in Seq(Entries) /\ b \in Seq(Entries) /\ q = a \o b
  <2>1. SubSeq(L, 1, n) \in Seq(Seq(Entries)) /\ DropFirst(L, n) \in Seq(Seq(Entries))
    BY <1>3, SuffixFacts, Zenon
  <2> QED  BY <1>3, <2>1, FlatSeq, FlatSuffix
<1>5. Oldest' = Len(log) - Len(b) /\ Flat(Current'.lines) = b
  BY DEF Oldest
<1> HIDE DEF L, a, b, q
<1>6. /\ Len(q) = Len(a) + Len(b) /\ Len(a) \in Nat /\ Len(b) \in Nat
      /\ \A i \in 1 .. Len(b) : q[Len(a) + i] = b[i]
      /\ DOMAIN b = 1 .. Len(b)
  BY <1>4, ConcatFacts
<1>7. Oldest' = Oldest + Len(a)
  BY <1>1, <1>5, <1>6
<1>8. \A i \in DOMAIN b : b[i] = Oldest' + i
  <2> SUFFICES ASSUME NEW i \in 1 .. Len(b) PROVE b[i] = Oldest' + i
    BY <1>6
  <2>1. Len(a) + i \in DOMAIN q /\ i \in Nat
    BY <1>1, <1>6
  <2>2. b[i] = Oldest + (Len(a) + i)
    BY <1>2, <1>6, <2>1
  <2> QED  BY <1>1, <1>6, <1>7, <2>1, <2>2
<1>9. Oldest' >= cleared'
  BY <1>1, <1>2, <1>6, <1>7
<1> QED  BY <1>5, <1>7, <1>8, <1>9 DEF Newest, L, a

LEMMA FitsFactsNext ==
  (log \in Seq(Nat))' =>
    (\A L \in Seq(Seq(Entries)), l \in Seq(Entries) : ~Fits(L) => ~Fits(Append(L, l)))'
<1>1. log \in Seq(Nat) =>
        \A L \in Seq(Seq(Entries)), l \in Seq(Entries) : ~Fits(L) => ~Fits(Append(L, l))
  BY FitsFacts
<1> QED  BY <1>1, PTL

(* A tail that compaction keeps has lines of one entry each, if all had, ...   *)
LEMMA TailSingles ==
  ASSUME NEW S, NEW L \in Seq(Seq(S)), NEW n \in 0 .. Len(L), Singles(L)
  PROVE  /\ Singles(DropFirst(L, n))
         /\ Len(Flat(SubSeq(L, 1, n))) = n
<1>1. /\ DropFirst(L, n) \in Seq(Seq(S)) /\ Len(DropFirst(L, n)) = Len(L) - n
      /\ \A i \in 1 .. Len(L) - n : DropFirst(L, n)[i] = L[n + i]
      /\ SubSeq(L, 1, n) \in Seq(Seq(S)) /\ Len(SubSeq(L, 1, n)) = n
      /\ \A i \in 1 .. n : SubSeq(L, 1, n)[i] = L[i]
  BY SuffixFacts, Zenon, SMTT(30)
<1>2. Len(L) \in Nat /\ \A i \in 1 .. Len(L) : Len(L[i]) = 1
  BY DEF Singles
<1>3. Singles(DropFirst(L, n))
  <2>1. DOMAIN DropFirst(L, n) = 1 .. Len(L) - n
    BY <1>1
  <2> SUFFICES ASSUME NEW i \in 1 .. Len(L) - n PROVE Len(DropFirst(L, n)[i]) = 1
    BY <2>1 DEF Singles
  <2>2. n + i \in 1 .. Len(L) /\ DropFirst(L, n)[i] = L[n + i]
    <3>1. Len(L) \in Nat
      BY <1>2
    <3> QED  BY <1>1, <3>1
  <2> QED  BY <1>2, <2>2
<1>4. Singles(SubSeq(L, 1, n))
  <2>1. DOMAIN SubSeq(L, 1, n) = 1 .. n
    BY <1>1
  <2> SUFFICES ASSUME NEW i \in 1 .. n PROVE Len(SubSeq(L, 1, n)[i]) = 1
    BY <2>1 DEF Singles
  <2>2. i \in 1 .. Len(L) /\ SubSeq(L, 1, n)[i] = L[i]
    BY <1>1, <1>2
  <2> QED  BY <1>2, <2>2
<1> QED  BY <1>1, <1>3, <1>4, SinglesFlat

LEMMA ConsFacts ==
  ASSUME NEW S, NEW x \in S, NEW q \in Seq(S)
  PROVE  /\ <<x>> \o q \in Seq(S) /\ Len(<<x>> \o q) = 1 + Len(q)
         /\ (<<x>> \o q)[1] = x /\ \A i \in 1 .. Len(q) : (<<x>> \o q)[1 + i] = q[i]
<1>1. \A o \in Seq(S) : /\ o \o q \in Seq(S) /\ Len(o \o q) = Len(o) + Len(q)
                        /\ \A i \in 1 .. Len(o) : (o \o q)[i] = o[i]
                        /\ \A i \in 1 .. Len(q) : (o \o q)[Len(o) + i] = q[i]
  BY ConcatFacts
<1>2. <<x>> \in Seq(S) /\ Len(<<x>>) = 1 /\ <<x>>[1] = x
  OBVIOUS
<1> QED  BY <1>1, <1>2

(* ... and the entry dropped last would not have fitted with it.               *)
LEMMA TailLeavesNoRoom ==
  ASSUME TypeInv, Newest, log' = log, cleared' = cleared, Singles(Current.lines), NoRoom,
         NEW n \in 0 .. Len(Current.lines), Current'.lines = DropFirst(Current.lines, n),
         \A m \in 0 .. n - 1 : ~Fits(DropFirst(Current.lines, m)),
         Oldest' = Oldest + Len(Flat(SubSeq(Current.lines, 1, n)))
  PROVE  NoRoom'
<1> DEFINE L == Current.lines
<1>1. L \in Seq(Seq(Entries)) /\ Len(L) \in Nat
  BY Typing
<1>2. Oldest' = Oldest + n /\ Oldest \in Int
  BY <1>1, TailSingles, OldestFacts
<1>3. CASE n = 0
  <2>1. Current'.lines = L /\ Oldest' = Oldest
    <3>1. DropFirst(L, 0) = L
      <4>1. 0 \in 0 .. Len(L)
        BY <1>1
      <4> QED  BY <1>1, <4>1, SuffixFacts, Zenon
    <3> QED  BY <1>2, <1>3, <3>1
  <2> QED  BY <2>1, NothingWritten
<1>4. CASE n # 0
  <2> SUFFICES ASSUME NEW Y, Y = <<<<Oldest'>>>> \o Current'.lines PROVE ~Fits(Y)'
    BY DEF NoRoom
  <2>1. n \in 1 .. Len(L) /\ n \in 0 .. Len(L) /\ n - 1 \in 0 .. Len(L) /\ n - 1 \in 0 .. n - 1
    BY <1>1, <1>4
  <2>2. L[n] = <<Oldest'>>
    <3>1. /\ Len(Flat(L)) = Len(L) /\ Flat(L)[n] = L[n][1] /\ Flat(L) \in Seq(Entries)
      BY <1>1, <2>1, SinglesFlat, FlatSeq
    <3>2. n \in DOMAIN Flat(L)
      BY <1>1, <2>1, <3>1
    <3>3. L[n][1] = Oldest'
      BY <1>2, <3>1, <3>2 DEF Newest
    <3>4. Len(L[n]) = 1 /\ L[n] \in Seq(Entries)
      BY <1>1, <2>1 DEF Singles
    <3>5. \A q \in Seq(Entries) : Len(q) = 1 => q = <<q[1]>>
      OBVIOUS
    <3> QED  BY <3>3, <3>4, <3>5
  <2> DEFINE D == DropFirst(L, n)
             M == DropFirst(L, n - 1)
  <2>3. /\ D \in Seq(Seq(Entries)) /\ Len(D) = Len(L) - n
        /\ \A i \in 1 .. Len(L) - n : D[i] = L[n + i]
        /\ M \in Seq(Seq(Entries)) /\ Len(M) = Len(L) - (n - 1)
        /\ \A i \in 1 .. Len(L) - (n - 1) : M[i] = L[(n - 1) + i]
    <3> HIDE DEF L
    <3>1. /\ DropFirst(L, n) \in Seq(Seq(Entries)) /\ Len(DropFirst(L, n)) = Len(L) - n
          /\ \A i \in 1 .. Len(L) - n : DropFirst(L, n)[i] = L[n + i]
      BY <1>1, <2>1, SuffixFacts, Zenon, SMTT(30)
    <3> DEFINE m == n - 1
    <3>2. m \in 0 .. Len(L)
      BY <2>1
    <3> HIDE DEF m
    <3>3. /\ DropFirst(L, m) \in Seq(Seq(Entries)) /\ Len(DropFirst(L, m)) = Len(L) - m
          /\ \A i \in 1 .. Len(L) - m : DropFirst(L, m)[i] = L[m + i]
      BY <1>1, <3>2, SuffixFacts, Zenon, SMTT(30)
    <3> QED  BY <3>1, <3>3 DEF m
  <2>4. ~Fits(M)
    BY <2>1
  <2> DEFINE x == L[n]
  <2>5. Y = <<x>> \o D
    BY <2>2
  <2>6. x \in Seq(Entries)
    BY <1>1, <2>1
  <2> HIDE DEF D, M, x
  <2>7. /\ Y \in Seq(Seq(Entries)) /\ Len(Y) = 1 + Len(D)
        /\ Y[1] = x /\ \A i \in 1 .. Len(D) : Y[1 + i] = D[i]
    <3>1. \A q \in Seq(Seq(Entries)) :
            /\ <<x>> \o q \in Seq(Seq(Entries)) /\ Len(<<x>> \o q) = 1 + Len(q)
            /\ (<<x>> \o q)[1] = x /\ \A i \in 1 .. Len(q) : (<<x>> \o q)[1 + i] = q[i]
      BY <2>6, ConsFacts
    <3>2. D \in Seq(Seq(Entries))
      BY <2>3
    <3> QED  BY <2>5, <3>1, <3>2
  <2>8. Len(Y) = Len(M)
    BY <1>1, <2>1, <2>3, <2>7
  <2>9. ASSUME NEW i \in 1 .. Len(Y) PROVE Y[i] = M[i]
    <3>1. CASE i = 1
      <4>1. M[1] = x
        BY <1>1, <2>1, <2>3 DEF x
      <4> QED  BY <2>7, <3>1, <4>1
    <3>2. CASE i # 1
      <4>1. i - 1 \in 1 .. Len(D) /\ i = 1 + (i - 1) /\ i \in 1 .. Len(L) - (n - 1)
            /\ n + (i - 1) = (n - 1) + i /\ i - 1 \in 1 .. Len(L) - n
        <5>1. n \in Nat /\ Len(L) \in Nat /\ n <= Len(L)
          BY <1>1, <2>1
        <5>2. Len(D) = Len(L) - n
          BY <2>3
        <5>3. Len(Y) = 1 + Len(D)
          BY <2>7
        <5>4. i \in 1 .. 1 + Len(D) /\ i # 1
          BY <3>2, <5>3
        <5> HIDE DEF L
        <5> QED  BY <5>1, <5>2, <5>4
      <4> QED  BY <2>3, <2>7, <4>1, ZenonT(30)
    <3> QED  BY <3>1, <3>2
  <2>10. Y = M
    BY <2>3, <2>7, <2>8, <2>9, SequenceEquality
  <2>11. \A Z \in Seq(Seq(Entries)) : Fits(Z)' <=> Fits(Z)
    BY FitsKept
  <2> QED  BY <2>4, <2>7, <2>10, <2>11
<1> QED  BY <1>3, <1>4

(* The steps of a process that has the file to itself.                        *)
LEMMA AloneStep ==
  ASSUME TypeInv, BoundInv, ~overlapped, AloneInv, SinglesInv, [HistoryNext]_historyVars, ~overlapped'
  PROVE  AloneInv' /\ SinglesInv'
<1>0. /\ at \in [Procs -> {"idle", "opened", "written", "appended", "measured", "compacting"}]
      /\ fd \in [Procs -> 0 .. Len(file)]
      /\ \A p \in Procs : fd[p] # 0 <=> at[p] \in {"opened", "written", "appended"}
      /\ \A p \in Procs : at[p] # "idle" => named # 0
      /\ snapshot \in [Procs -> Seq(Seq(Entries))]
      /\ aborts \in 0 .. MaxAborts
  BY DEF TypeInv
<1>t. /\ log \in Seq(Nat) /\ Len(file) \in Nat /\ DOMAIN file = 1 .. Len(file)
      /\ named # 0 => named \in 1 .. Len(file) /\ Current = file[named]
      /\ Current.lines \in Seq(Seq(Entries))
      /\ EmptyFile.lines = <<>> /\ ~EmptyFile.open
  BY Typing DEF Current
<1>a. /\ \A p, q \in Procs : Busy(p) /\ Busy(q) => p = q
      /\ \A p \in Procs : fd[p] \in {0, named}
      /\ \A p \in Procs : at[p] = "compacting" => IsRetained(snapshot[p], Current.lines)
      /\ Newest
      /\ aborts = 0 => Singles(Current.lines) /\ NoRoom
  BY DEF AloneInv, OneBusy, OwnFile, OwnSnapshot, SinglesInv
<1>1. ASSUME NEW p \in Procs, OpenForAppend(p) PROVE AloneInv' /\ SinglesInv'
  <2>1. /\ at[p] = "idle" /\ fd' = [fd EXCEPT ![p] = named'] /\ at' = [at EXCEPT ![p] = "opened"]
        /\ overlapped' = Overlaps(p)
        /\ UNCHANGED <<snapshot, log, cleared, aborts>>
    BY <1>1 DEF OpenForAppend, MoveTo
  <2>2. \A q \in Procs : at[q] = "idle" /\ fd[q] = 0
    <3>1. \A q \in Procs : at[q] = "idle"
      BY <2>1 DEF Overlaps, Busy
    <3> QED  BY <1>0, <3>1
  <2>3. Current'.lines = Current.lines
    <3>1. CASE named = 0
      <4>1. file' = Append(file, EmptyFile) /\ named' = Len(file) + 1
        BY <1>1, <3>1 DEF OpenForAppend
      <4>2. file'[Len(file) + 1] = EmptyFile /\ Len(file) + 1 # 0
        <5>1. file \in Seq(LogFile) /\ EmptyFile \in LogFile
          BY Typing DEF TypeInv
        <5> QED  BY <1>t, <4>1, <5>1, AppendFacts
      <4> QED  BY <3>1, <4>1, <4>2 DEF Current
    <3>2. CASE named # 0
      <4>1. UNCHANGED <<file, named>>
        BY <1>1, <3>2 DEF OpenForAppend
      <4> QED  BY <4>1 DEF Current
    <3> QED  BY <3>1, <3>2
  <2>4. /\ Newest'
        /\ aborts' = 0 => Singles(Current.lines)' /\ NoRoom'
    BY <1>a, <2>1, <2>3, NothingWritten
  <2>5. OneBusy' /\ OwnFile' /\ OwnSnapshot'
    BY <1>0, <2>1, <2>2 DEF OneBusy, OwnFile, OwnSnapshot, Busy
  <2> QED  BY <2>4, <2>5 DEF AloneInv, SinglesInv
<1>2. ASSUME NEW p \in Procs, WriteText(p) PROVE AloneInv' /\ SinglesInv'
  <2>1. /\ at[p] = "opened" /\ at' = [at EXCEPT ![p] = "written"]
        /\ file' = [file EXCEPT ![fd[p]] = WithText(@, Len(log) + 1)]
        /\ UNCHANGED <<named, fd, snapshot, cleared, aborts>>
    BY <1>2 DEF WriteText, MoveTo
  <2>2. PICK size \in Sizes : log' = Append(log, size)
    BY <1>2 DEF WriteText
  <2> DEFINE e == Len(log) + 1
             f == WithText(file[named], e)
  <2>3. fd[p] = named /\ named \in 1 .. Len(file) /\ Current = file[named]
    BY <1>0, <1>a, <1>t, <2>1
  <2>4. Current' = f
    BY <1>t, <2>1, <2>3 DEF Current
  <2>5. /\ Flat(f.lines) = Append(Flat(Current.lines), e)
        /\ ~Current.open => f.lines = Append(Current.lines, <<e>>)
    BY <2>2, <2>3, TextWritten
  <2>6. log' \in Seq(Nat) /\ Len(log') = Len(log) + 1
    BY <1>t, <2>2, AppendFacts, HistoryAssumption
  <2> HIDE DEF f
  <2>7. Newest' /\ Oldest' = Oldest
    BY <1>a, <2>1, <2>4, <2>5, <2>6, TextFollows
  <2>8. OneBusy' /\ OwnFile'
    BY <1>0, <1>a, <2>1 DEF OneBusy, OwnFile, Busy
  <2>9. OwnSnapshot'
    <3>1. \A q \in Procs : at'[q] # "compacting"
      BY <1>0, <1>a, <2>1 DEF Busy
    <3> QED  BY <3>1 DEF OwnSnapshot
  <2>10. ASSUME aborts' = 0 PROVE Singles(Current.lines)' /\ NoRoom'
    <3>1. ~Current.open
      <4>1. \A q \in Procs : at[q] # "written"
        BY <1>a, <2>1 DEF Busy
      <4> QED  BY <2>1, <2>10, <4>1 DEF BoundInv, OpenIsWritten
    <3> DEFINE L == Current.lines
               x == <<e>>
    <3>2. Current'.lines = Append(L, x)
      BY <2>4, <2>5, <3>1
    <3>3. x \in Seq(Entries') /\ Len(x) = 1 /\ Seq(Seq(Entries)) \subseteq Seq(Seq(Entries'))
      <4>1. e \in Entries' /\ Seq(Seq(Entries)) \subseteq Seq(Seq(Entries'))
        BY <2>2, EntriesGrow
      <4> HIDE DEF e
      <4> QED  BY <4>1
    <3>4. L \in Seq(Seq(Entries)) /\ L \in Seq(Seq(Entries')) /\ Singles(L) /\ NoRoom
      BY <1>a, <1>t, <2>1, <2>10, <3>3
    <3> HIDE DEF L, x
    <3>5. Singles(Append(L, x))
      <4>1. /\ DOMAIN Append(L, x) = 1 .. Len(L) + 1 /\ DOMAIN L = 1 .. Len(L) /\ Len(L) \in Nat
            /\ \A i \in 1 .. Len(L) : Append(L, x)[i] = L[i]
            /\ Append(L, x)[Len(L) + 1] = x
        BY <3>3, <3>4, AppendFacts
      <4>2. \A i \in DOMAIN Append(L, x) : i \in 1 .. Len(L) \/ i = Len(L) + 1
        BY <4>1
      <4> QED  BY <3>3, <3>4, <4>1, <4>2 DEF Singles
    <3>6. ASSUME Oldest > cleared, NEW Y, Y = <<<<Oldest>>>> \o Append(L, x)
          PROVE  ~Fits(Y)'
      <4> DEFINE o == <<<<Oldest>>>>
                 X == o \o L
      <4>1. X \in Seq(Seq(Entries)) /\ o \in Seq(Seq(Entries))
        BY <3>6, OldestFacts DEF L
      <4>2. ~Fits(X)
        BY <3>4, <3>6 DEF NoRoom, L
      <4>3. Y = Append(X, x) /\ X \in Seq(Seq(Entries'))
        <5>1. o \in Seq(Seq(Entries')) /\ Y = o \o Append(L, x)
          BY <3>3, <3>6, <4>1
        <5> HIDE DEF o
        <5>2. o \o Append(L, x) = Append(o \o L, x) /\ o \o L \in Seq(Seq(Entries'))
          BY <3>3, <3>4, <5>1, ConcatAppend, ConcatFacts, SMTT(30)
        <5> QED  BY <5>1, <5>2
      <4> HIDE DEF X
      <4>4. PICK Z : Z = X
        OBVIOUS
      <4>5. ~Fits(Z)'
        <5>1. \A M \in Seq(Seq(Entries)) : Fits(M)' <=> Fits(M)
          BY <2>2, FitsKept
        <5>2. Z \in Seq(Seq(Entries)) /\ ~Fits(Z)
          BY <4>1, <4>2, <4>4
        <5> QED  BY <5>1, <5>2
      <4>6. Z \in Seq(Seq(Entries')) /\ Y = Append(Z, x)
        BY <4>3, <4>4
      <4>7. PICK z : z = x
        OBVIOUS
      <4>8. ~Fits(Append(Z, z))'
        BY <2>6, <3>3, <4>5, <4>6, <4>7, FitsFactsNext
      <4>9. Y = Append(Z, z)
        BY <4>6, <4>7
      <4> QED  BY <4>8, <4>9
    <3>7. NoRoom'
      <4> SUFFICES ASSUME Oldest' > cleared' PROVE ~Fits(<<<<Oldest>>>> \o Current.lines)'
        BY DEF NoRoom
      <4>1. \A Y : Y = <<<<Oldest>>>> \o Append(L, x) => ~Fits(Y)'
        BY <2>1, <2>7, <3>6
      <4>2. <<<<Oldest'>>>> \o Current'.lines = <<<<Oldest>>>> \o Append(L, x)
        BY <2>7, <3>2
      <4> QED  BY <4>1, <4>2
    <3> QED  BY <3>2, <3>5, <3>7
  <2> QED  BY <2>7, <2>8, <2>9, <2>10 DEF AloneInv, SinglesInv
<1>3. ASSUME NEW p \in Procs, WriteNewline(p) PROVE AloneInv' /\ SinglesInv'
  <2>1. /\ at[p] = "written" /\ at' = [at EXCEPT ![p] = "appended"]
        /\ file' = [file EXCEPT ![fd[p]] = WithNewline(@)]
        /\ UNCHANGED <<named, fd, snapshot, log, cleared, aborts>>
    BY <1>3 DEF WriteNewline, MoveTo
  <2>2. Current'.lines = Current.lines
    <3>1. fd[p] = named /\ named \in 1 .. Len(file) /\ Current = file[named]
      BY <1>0, <1>a, <1>t, <2>1
    <3>2. Current' = WithNewline(file[named])
      BY <1>t, <2>1, <3>1 DEF Current
    <3>3. WithNewline(file[named]).lines = file[named].lines
      BY <3>1, Typing, WithNewlineFacts DEF LogFile
    <3> QED  BY <3>1, <3>2, <3>3
  <2>3. /\ Newest'
        /\ aborts' = 0 => Singles(Current.lines)' /\ NoRoom'
    BY <1>a, <2>1, <2>2, NothingWritten
  <2>4. OneBusy' /\ OwnFile' /\ OwnSnapshot'
    BY <1>0, <1>a, <2>1 DEF OneBusy, OwnFile, OwnSnapshot, Busy
  <2> QED  BY <2>3, <2>4 DEF AloneInv, SinglesInv
<1>4. ASSUME NEW p \in Procs, StatFile(p) PROVE AloneInv' /\ SinglesInv'
  <2>1. /\ at[p] = "appended" /\ at' = [at EXCEPT ![p] = "measured"]
        /\ fd' = [fd EXCEPT ![p] = 0]
        /\ UNCHANGED <<file, named, snapshot, log, cleared, aborts>>
    BY <1>4 DEF StatFile, MoveTo
  <2>2. Current'.lines = Current.lines
    BY <2>1 DEF Current
  <2>3. /\ Newest'
        /\ aborts' = 0 => Singles(Current.lines)' /\ NoRoom'
    BY <1>a, <2>1, <2>2, NothingWritten
  <2>4. OneBusy' /\ OwnFile' /\ OwnSnapshot'
    BY <1>0, <1>a, <2>1 DEF OneBusy, OwnFile, OwnSnapshot, Busy
  <2> QED  BY <2>3, <2>4 DEF AloneInv, SinglesInv
<1>5. ASSUME NEW p \in Procs, ReadLines(p) PROVE AloneInv' /\ SinglesInv'
  <2>1. /\ at[p] = "measured"
        /\ \/ at' = [at EXCEPT ![p] = "idle"] /\ snapshot' = snapshot
           \/ /\ at' = [at EXCEPT ![p] = "compacting"]
              /\ snapshot' = [snapshot EXCEPT ![p] = Retained(file[named].lines)]
        /\ UNCHANGED <<file, named, fd, log, cleared, aborts>>
    BY <1>5 DEF ReadLines, MoveTo
  <2>2. Current'.lines = Current.lines /\ Current = file[named]
    BY <1>0, <1>t, <2>1 DEF Current
  <2>3. /\ Newest'
        /\ aborts' = 0 => Singles(Current.lines)' /\ NoRoom'
        /\ \A s : IsRetained(s, Current.lines) => IsRetained(s, Current.lines)'
    BY <1>a, <2>1, <2>2, NothingWritten
  <2>4. OneBusy' /\ OwnFile'
    BY <1>0, <1>a, <2>1 DEF OneBusy, OwnFile, Busy
  <2>5. IsRetained(Retained(Current.lines), Current.lines)
    <3>1. \E n \in 0 .. Len(Current.lines) :
            /\ Retained(Current.lines) = DropFirst(Current.lines, n)
            /\ \A m \in 0 .. n - 1 : ~Fits(DropFirst(Current.lines, m))
      BY <1>t, RetainedFacts
    <3> QED  BY <3>1 DEF IsRetained
  <2>6. OwnSnapshot'
    <3> SUFFICES ASSUME NEW q \in Procs, at'[q] = "compacting"
                 PROVE  IsRetained(snapshot[q], Current.lines)'
      BY DEF OwnSnapshot
    <3>1. IsRetained(snapshot'[q], Current.lines)
      BY <1>0, <1>a, <2>1, <2>2, <2>5
    <3> QED  BY <2>3, <3>1
  <2> QED  BY <2>3, <2>4, <2>6 DEF AloneInv, SinglesInv
<1>6. ASSUME NEW p \in Procs, RenameCompacted(p) PROVE AloneInv' /\ SinglesInv'
  <2>1. /\ at[p] = "compacting" /\ at' = [at EXCEPT ![p] = "idle"]
        /\ file' = Append(file, Compacted(p)) /\ named' = Len(file) + 1
        /\ snapshot' = [snapshot EXCEPT ![p] = <<>>]
        /\ UNCHANGED <<fd, log, cleared, aborts>>
    BY <1>6 DEF RenameCompacted, MoveTo
  <2>2. Current'.lines = snapshot[p]
    <3>1. Compacted(p).lines = snapshot[p]
      BY DEF Compacted, EmptyFile
    <3>2. file'[Len(file) + 1] = Compacted(p)
      <4>1. \A f : file \in Seq(LogFile \cup {f}) /\ f \in LogFile \cup {f}
        BY Typing, SeqMonotone DEF TypeInv
      <4> QED  BY <2>1, <4>1, AppendFacts
    <3>3. Len(file) + 1 # 0
      BY <1>t
    <3> QED  BY <2>1, <3>1, <3>2, <3>3 DEF Current
  <2>3. \A q \in Procs : q # p => at[q] = "idle"
    BY <1>a, <2>1 DEF Busy
  <2>4. OneBusy' /\ OwnFile' /\ OwnSnapshot'
    <3>1. \A q \in Procs : at'[q] = "idle"
      BY <1>0, <2>1, <2>3
    <3>2. \A q \in Procs : fd'[q] = 0
      BY <1>0, <2>1, <2>3
    <3> QED  BY <3>1, <3>2 DEF OneBusy, OwnFile, OwnSnapshot, Busy
  <2>5. PICK n \in 0 .. Len(Current.lines) :
          /\ snapshot[p] = DropFirst(Current.lines, n)
          /\ \A m \in 0 .. n - 1 : ~Fits(DropFirst(Current.lines, m))
    BY <1>a, <2>1 DEF IsRetained
  <2>6. Newest' /\ Oldest' = Oldest + Len(Flat(SubSeq(Current.lines, 1, n)))
    BY <1>a, <2>1, <2>2, <2>5, TailFollows
  <2>7. ASSUME aborts' = 0 PROVE Singles(Current.lines)' /\ NoRoom'
    <3>1. Singles(Current.lines) /\ NoRoom
      BY <1>a, <2>1, <2>7
    <3>2. Singles(Current.lines)'
      BY <1>t, <2>2, <2>5, <3>1, TailSingles DEF Singles
    <3>3. NoRoom'
      BY <1>a, <2>1, <2>2, <2>5, <2>6, <3>1, TailLeavesNoRoom
    <3> QED  BY <3>2, <3>3
  <2> QED  BY <2>4, <2>6, <2>7 DEF AloneInv, SinglesInv
<1>7. ASSUME NEW p \in Procs, Clear(p) PROVE AloneInv' /\ SinglesInv'
  <2>1. /\ at[p] = "idle" /\ named # 0 /\ file' = [file EXCEPT ![named] = EmptyFile]
        /\ cleared' = Len(log) /\ overlapped' = Overlaps(p)
        /\ UNCHANGED <<named, at, fd, snapshot, log, aborts>>
    BY <1>7 DEF Clear, procVars
  <2>2. \A q \in Procs : at[q] = "idle"
    BY <2>1 DEF Overlaps, Busy
  <2>3. Current'.lines = <<>>
    BY <1>t, <2>1 DEF Current
  <2>4. Oldest' = cleared' /\ DOMAIN Flat(Current'.lines) = {} /\ DOMAIN Current'.lines = {}
    <3>1. \A q : q = <<>> => DOMAIN q = {} /\ Len(q) = 0
      <4>1. \A q : q = <<>> => q \in Seq({}) /\ Len(q) = 0 /\ DOMAIN q = 1 .. 0
        OBVIOUS
      <4>2. 1 .. 0 = {}
        OBVIOUS
      <4> QED  BY <4>1, <4>2
    <3>2. Flat(Current'.lines) = <<>>
      BY <2>3, FlatEmpty
    <3>3. Len(log) \in Nat
      BY <1>t
    <3> QED  BY <2>1, <2>3, <3>1, <3>2, <3>3 DEF Oldest
  <2>5. Newest' /\ Singles(Current.lines)' /\ NoRoom'
    <3>1. cleared' \in Nat
      BY <1>t, <2>1
    <3> QED  BY <2>4, <3>1 DEF Newest, Singles, NoRoom
  <2>6. OneBusy' /\ OwnFile' /\ OwnSnapshot'
    BY <1>a, <2>1, <2>2 DEF OneBusy, OwnFile, OwnSnapshot, Busy
  <2> QED  BY <2>5, <2>6 DEF AloneInv, SinglesInv
<1>8. ASSUME NEW p \in Procs, Abort(p) PROVE AloneInv' /\ SinglesInv'
  <2>1. /\ aborts' = aborts + 1 /\ at' = [at EXCEPT ![p] = "idle"]
        /\ fd' = [fd EXCEPT ![p] = 0] /\ snapshot' = [snapshot EXCEPT ![p] = <<>>]
        /\ UNCHANGED <<file, named, log, cleared>>
    BY <1>8 DEF Abort, MoveTo, CloseDescriptor
  <2>2. Current'.lines = Current.lines /\ aborts' # 0
    BY <1>0, <2>1, Typing DEF Current
  <2>3. /\ Newest'
        /\ \A s : IsRetained(s, Current.lines) => IsRetained(s, Current.lines)'
    BY <1>a, <2>1, <2>2, NothingWritten
  <2>4. OneBusy' /\ OwnFile'
    BY <1>0, <1>a, <2>1 DEF OneBusy, OwnFile, Busy
  <2>5. OwnSnapshot'
    <3> SUFFICES ASSUME NEW q \in Procs, at'[q] = "compacting"
                 PROVE  IsRetained(snapshot[q], Current.lines)'
      BY DEF OwnSnapshot
    <3>1. IsRetained(snapshot'[q], Current.lines)
      BY <1>0, <1>a, <2>1
    <3> QED  BY <2>3, <3>1
  <2> QED  BY <2>2, <2>3, <2>4, <2>5 DEF AloneInv, SinglesInv
<1>9. CASE UNCHANGED historyVars
  <2>1. UNCHANGED <<file, named, at, fd, snapshot, log, cleared, aborts>>
    BY <1>9 DEF historyVars, procVars
  <2>2. Current'.lines = Current.lines
    BY <2>1 DEF Current
  <2>3. /\ Newest'
        /\ aborts' = 0 => Singles(Current.lines)' /\ NoRoom'
        /\ \A s : IsRetained(s, Current.lines) => IsRetained(s, Current.lines)'
    BY <1>a, <2>1, <2>2, NothingWritten
  <2>4. OwnSnapshot'
    <3> SUFFICES ASSUME NEW q \in Procs, at'[q] = "compacting"
                 PROVE  IsRetained(snapshot[q], Current.lines)'
      BY DEF OwnSnapshot
    <3>1. IsRetained(snapshot'[q], Current.lines)
      BY <1>a, <2>1
    <3> QED  BY <2>3, <3>1
  <2>5. OneBusy' /\ OwnFile'
    BY <1>a, <2>1 DEF OneBusy, OwnFile, Busy
  <2> QED  BY <2>3, <2>4, <2>5 DEF AloneInv, SinglesInv
<1> QED
  BY <1>1, <1>2, <1>3, <1>4, <1>5, <1>6, <1>7, <1>8, <1>9 DEF HistoryNext, Exhausted

(***************************************************************************)
(* The results                                                             *)
(***************************************************************************)
LEMMA HistoryInvariant == HistorySpec => []HistoryInv
<1>1. HistoryInit => HistoryInv
  BY InitHistoryInv
<1>2. HistoryInv /\ [HistoryNext]_historyVars => HistoryInv'
  <2> SUFFICES ASSUME HistoryInv, [HistoryNext]_historyVars PROVE HistoryInv'
    OBVIOUS
  <2>1. TypeInv /\ OrderInv /\ BoundInv /\ (~overlapped => AloneInv /\ SinglesInv)
    BY DEF HistoryInv
  <2>2. TypeInv' /\ OrderInv'
    BY <2>1, OrderStep
  <2>3. BoundInv'
    BY <2>1, BoundStep
  <2>4. ASSUME ~overlapped' PROVE AloneInv' /\ SinglesInv'
    <3>1. ~overlapped
      BY <2>4 DEF HistoryNext, historyVars, procVars, OpenForAppend, WriteText, WriteNewline, StatFile,
                  ReadLines, RenameCompacted, Clear, Abort, Exhausted, Overlaps
    <3> QED  BY <2>1, <2>4, <3>1, AloneStep
  <2> QED  BY <2>2, <2>3, <2>4 DEF HistoryInv
<1> QED  BY <1>1, <1>2, PTL DEF HistorySpec

(* Descriptors, positions and files keep their types, and a descriptor is open *)
(* exactly while its process appends (record_history).                        *)
THEOREM HistoryTypeCorrect == HistorySpec => []HistoryTypeOK
<1>1. HistoryInv => HistoryTypeOK
  <2> SUFFICES ASSUME HistoryInv PROVE HistoryTypeOK
    OBVIOUS
  <2>1. TypeInv /\ Len(log) \in Nat
    BY Typing DEF HistoryInv
  <2>2. Entries \subseteq Nat
    BY <2>1 DEF Entries
  <2>3. Seq(Seq(Entries)) \subseteq Seq(Seq(Nat))
    <3>1. Seq(Entries) \subseteq Seq(Nat)
      BY <2>2, SeqMonotone
    <3> QED  BY <3>1, SeqMonotone
  <2>4. Seq(LogFile) \subseteq Seq(File)
    <3>1. LogFile \subseteq File
      BY <2>3 DEF LogFile, FilesOf, File
    <3> QED  BY <3>1, SeqMonotone
  <2>5. file \in Seq(File) /\ snapshot \in [Procs -> Seq(Seq(Nat))]
    <3>1. file \in Seq(LogFile) /\ snapshot \in [Procs -> Seq(Seq(Entries))]
      BY <2>1 DEF TypeInv
    <3> QED  BY <2>3, <2>4, <3>1
  <2> QED  BY <2>1, <2>5 DEF TypeInv, HistoryTypeOK
<1> QED  BY <1>1, HistoryInvariant, PTL

(* However the processes' appends, compactions and clears interleave, and      *)
(* wherever they are cut short, the file holds each entry at most once, the     *)
(* oldest first (history_filtered reverses it).                                *)
THEOREM HistoryOldestFirst == HistorySpec => []OldestFirst
<1>1. HistoryInv => OldestFirst
  <2> SUFFICES ASSUME HistoryInv PROVE Increasing(Flat(Current.lines))
    BY DEF OldestFirst, Increasing
  <2>1. TypeInv /\ OrderInv
    BY DEF HistoryInv
  <2>2. CASE named = 0
    <3>1. Current.lines = <<>>
      BY <2>2 DEF Current, EmptyFile
    <3>2. \A q : q = <<>> => DOMAIN q = 1 .. 0
      OBVIOUS
    <3>3. \A i \in 1 .. 0 : FALSE
      OBVIOUS
    <3> QED  BY <3>1, <3>2, <3>3, FlatEmpty DEF Increasing
  <2>3. CASE named # 0
    <3>1. named \in 1 .. Len(file) /\ Current = file[named]
      BY <2>1, <2>3, Typing DEF Current
    <3> QED  BY <2>1, <3>1 DEF OrderInv
  <2> QED  BY <2>2, <2>3
<1> QED  BY <1>1, HistoryInvariant, PTL

(* Unless an operation was cut short, the file is within its bounds whenever    *)
(* no process is inside one (compact_history).                                 *)
THEOREM HistoryQuietFileIsBounded == HistorySpec => []QuietFileIsBounded
<1>1. HistoryInv => QuietFileIsBounded
  <2> SUFFICES ASSUME HistoryInv, AllIdle, aborts = 0 PROVE Fits(Current.lines)
    BY DEF QuietFileIsBounded
  <2>1. \A p \in Procs : ~WillCompact(p)
    BY DEF AllIdle, WillCompact
  <2> QED  BY <2>1 DEF HistoryInv, BoundInv, LongIsSeen
<1> QED  BY <1>1, HistoryInvariant, PTL

(* A process that has the file to itself loses nothing: the newest entries      *)
(* since the last clear are there, without a gap, and one more would not have   *)
(* fitted (record_history, compact_history).                                   *)
THEOREM HistoryExactWhenAlone == HistorySpec => []ExactWhenAlone
<1>1. HistoryInv => ExactWhenAlone
  <2> DEFINE entries == Flat(Current.lines)
  <2> SUFFICES ASSUME HistoryInv, ~overlapped
               PROVE  /\ Oldest >= cleared
                      /\ entries = [i \in 1 .. Len(entries) |-> Oldest + i]
                      /\ aborts = 0 /\ Oldest > cleared =>
                           ~Fits(<<<<Oldest>>>> \o Current.lines)
    BY DEF ExactWhenAlone, Oldest
  <2>1. TypeInv /\ AloneInv /\ SinglesInv
    BY DEF HistoryInv
  <2>2. /\ Oldest >= cleared
        /\ \A i \in DOMAIN entries : entries[i] = Oldest + i
    BY <2>1 DEF AloneInv, Newest
  <2>3. entries \in Seq(Entries) /\ DOMAIN entries = 1 .. Len(entries)
    BY <2>1, OldestFacts
  <2>4. entries = [i \in 1 .. Len(entries) |-> Oldest + i]
    <3> HIDE DEF entries
    <3>1. entries = [i \in DOMAIN entries |-> entries[i]]
      BY <2>3
    <3> QED  BY <2>2, <2>3, <3>1
  <2> QED  BY <2>1, <2>2, <2>4 DEF SinglesInv, NoRoom
<1> QED  BY <1>1, HistoryInvariant, PTL
=============================================================================
