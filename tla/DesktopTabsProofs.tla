-------------------------- MODULE DesktopTabsProofs --------------------------
(***************************************************************************)
(* Proofs about the tabs of the desktop app and the drafts of its recovery  *)
(* snapshot, for any number of collections, documents, tabs and edits and   *)
(* any interleaving of the user, the poll and restarts: types (TabsTyped),  *)
(* where tabs, requests and drafts stand for each other (TabsPlaced), what  *)
(* the snapshot owes a restart (DraftsBacked), and that what looks saved is  *)
(* saved (Clean).                                                           *)
(*                                                                          *)
(* Each helper of the app (sync, save, show, select, close, restore) has a  *)
(* lemma that says what it does to a whole world, so that the lemma of an   *)
(* action follows the calls that the handler makes.                         *)
(***************************************************************************)
EXTENDS DesktopTabs, FiniteSetTheorems, WellFoundedInduction, TLAPS

LEMMA LeastNumber ==
  ASSUME NEW T, T \subseteq Nat, T # {}
  PROVE  \E x \in T : \A y \in T : x <= y
<1>1. PICK x \in T : \A y \in T : ~ (<<y, x>> \in OpToRel(<, Nat))
  BY WFMin, NatLessThanWellFounded, Zenon
<1>2. \A y \in T : ~ (y < x)
  BY <1>1 DEF OpToRel
<1> QED  BY <1>2

(* The least element of a set of numbers, and the larger of two.              *)
LEMMA MinFacts ==
  ASSUME NEW T, T \subseteq Nat, T # {}
  PROVE  Min(T) \in T /\ \A y \in T : Min(T) <= y
BY LeastNumber DEF Min

LEMMA MinOfTwo ==
  ASSUME NEW x \in Nat, NEW y \in Nat
  PROVE  Min({x, y}) \in {x, y} /\ Min({x, y}) <= x /\ Min({x, y}) <= y
BY MinFacts

LEMMA MaxOfTwo ==
  ASSUME NEW x \in Nat, NEW y \in Nat
  PROVE  Max({x, y}) = IF x >= y THEN x ELSE y
<1>1. \A m \in {x, y} : (\A z \in {x, y} : m >= z) <=> m = (IF x >= y THEN x ELSE y)
  OBVIOUS
<1>2. \E m \in {x, y} : \A z \in {x, y} : m >= z
  OBVIOUS
<1> QED  BY <1>1, <1>2 DEF Max

LEMMA FirstFacts ==
  ASSUME NEW n \in Nat, NEW ks, \A x \in ks : x \in 1 .. n
  PROVE  /\ ks = {} => First(ks) = 0
         /\ ks # {} => First(ks) \in ks
         /\ First(ks) \in 0 .. n
         /\ First(ks) # 0 => First(ks) \in ks
<1>1. ks # {} => Min(ks) \in ks
  BY MinFacts
<1> QED  BY <1>1 DEF First

(* Counting the elements of a set of positions from the left.                 *)
Upto(ks, i) == Cardinality({j \in ks : j <= i})

LEMMA UptoFacts ==
  ASSUME NEW n \in Nat, NEW ks, \A x \in ks : x \in 1 .. n
  PROVE  /\ IsFiniteSet(ks) /\ Cardinality(ks) \in Nat
         /\ \A i \in 0 .. n : Upto(ks, i) \in 0 .. Cardinality(ks)
         /\ Upto(ks, 0) = 0 /\ Upto(ks, n) = Cardinality(ks)
         /\ \A i \in 1 .. n : Upto(ks, i) = IF i \in ks THEN Upto(ks, i - 1) + 1
                                             ELSE Upto(ks, i - 1)
<1>1. IsFiniteSet(ks) /\ Cardinality(ks) \in Nat
  <2>1. IsFiniteSet(1 .. n) /\ ks \in SUBSET (1 .. n)
    BY FS_Interval
  <2>2. IsFiniteSet(ks)
    BY <2>1, FS_Subset, Zenon
  <2> QED  BY <2>2, FS_CardinalityType
<1>2. ASSUME NEW i \in 0 .. n
      PROVE  IsFiniteSet({j \in ks : j <= i}) /\ Upto(ks, i) \in 0 .. Cardinality(ks)
  <2>1. {j \in ks : j <= i} \in SUBSET ks
    OBVIOUS
  <2>2. /\ IsFiniteSet({j \in ks : j <= i})
        /\ Cardinality({j \in ks : j <= i}) <= Cardinality(ks)
    BY <1>1, <2>1, FS_Subset, Zenon
  <2>3. Cardinality({j \in ks : j <= i}) \in Nat
    BY <2>2, FS_CardinalityType
  <2> QED  BY <1>1, <2>2, <2>3 DEF Upto
<1>3. Upto(ks, 0) = 0
  <2>1. {j \in ks : j <= 0} = {}
    OBVIOUS
  <2> QED  BY <2>1, FS_EmptySet DEF Upto
<1>4. Upto(ks, n) = Cardinality(ks)
  <2>1. {j \in ks : j <= n} = ks
    OBVIOUS
  <2> QED  BY <2>1 DEF Upto
<1>5. ASSUME NEW i \in 1 .. n
      PROVE  Upto(ks, i) = IF i \in ks THEN Upto(ks, i - 1) + 1 ELSE Upto(ks, i - 1)
  <2>0. i - 1 \in 0 .. n
    OBVIOUS
  <2>1. CASE i \in ks
    <3>0. \A j \in ks : j \in Nat /\ (j <= i <=> j <= i - 1 \/ j = i)
      OBVIOUS
    <3>1. {j \in ks : j <= i} = {j \in ks : j <= i - 1} \cup {i}
      BY <2>1, <3>0, Zenon
    <3>4. i \notin {j \in ks : j <= i - 1}
      OBVIOUS
    <3>2. IsFiniteSet({j \in ks : j <= i - 1})
      BY <1>2, <2>0
    <3>3. Cardinality({j \in ks : j <= i - 1} \cup {i}) = Cardinality({j \in ks : j <= i - 1}) + 1
      BY <3>4, <3>2, FS_AddElement
    <3> QED  BY <2>1, <3>1, <3>3 DEF Upto
  <2>2. CASE i \notin ks
    <3>1. {j \in ks : j <= i} = {j \in ks : j <= i - 1}
      BY <2>2
    <3> QED  BY <2>2, <3>1 DEF Upto
  <2> QED  BY <2>1, <2>2
<1> QED  BY <1>1, <1>2, <1>3, <1>4, <1>5

LEMMA UptoDistinct ==
  ASSUME NEW n \in Nat, NEW ks, \A x \in ks : x \in 1 .. n, NEW i \in ks, NEW j \in ks, i < j
  PROVE  Upto(ks, i) < Upto(ks, j)
<1>1. {k \in ks : k <= i} \in SUBSET {k \in ks : k <= j} /\ {k \in ks : k <= j} \in SUBSET ks
  OBVIOUS
<1>2. IsFiniteSet({k \in ks : k <= j})
  BY <1>1, UptoFacts, FS_Subset
<1>3. /\ Cardinality({k \in ks : k <= i}) <= Cardinality({k \in ks : k <= j})
      /\ Cardinality({k \in ks : k <= i}) = Cardinality({k \in ks : k <= j})
           => {k \in ks : k <= j} = {k \in ks : k <= i}
  BY <1>1, <1>2, FS_Subset, Zenon
<1>4. j \in {k \in ks : k <= j} /\ j \notin {k \in ks : k <= i}
  OBVIOUS
<1>5. Upto(ks, i) \in Nat /\ Upto(ks, j) \in Nat
  BY UptoFacts
<1> QED  BY <1>3, <1>4, <1>5 DEF Upto

(* The k-th element: there is one for every k up to their number, and every     *)
(* element is the k-th for one k.                                             *)
LEMMA NthFacts ==
  ASSUME NEW n \in Nat, NEW ks, \A x \in ks : x \in 1 .. n
  PROVE  /\ \A k \in 1 .. Cardinality(ks) : Nth(ks, k) \in ks /\ Upto(ks, Nth(ks, k)) = k
         /\ \A i \in ks : Upto(ks, i) \in 1 .. Cardinality(ks) /\ Nth(ks, Upto(ks, i)) = i
<1>0. ASSUME NEW k \in 1 .. Cardinality(ks)
      PROVE  \E i \in ks : Upto(ks, i) = k
  <2> DEFINE T == {i \in 0 .. n : Upto(ks, i) >= k}
  <2>1. T \subseteq Nat /\ n \in T
    BY UptoFacts
  <2>2. PICK i \in T : \A j \in T : i <= j
    BY <2>1, LeastNumber
  <2>3. i # 0
    BY <2>2, UptoFacts
  <2>4. i \in 1 .. n /\ i - 1 \in 0 .. n /\ i - 1 \notin T
    BY <2>2, <2>3
  <2>5. /\ Upto(ks, i) \in Nat /\ Upto(ks, i - 1) \in Nat
        /\ Upto(ks, i) = IF i \in ks THEN Upto(ks, i - 1) + 1 ELSE Upto(ks, i - 1)
    BY <2>4, UptoFacts
  <2>6. Upto(ks, i) >= k /\ Upto(ks, i - 1) < k
    BY <2>2, <2>4, <2>5
  <2> QED  BY <2>5, <2>6
<1>1. ASSUME NEW k \in 1 .. Cardinality(ks)
      PROVE  Nth(ks, k) \in ks /\ Upto(ks, Nth(ks, k)) = k
  BY <1>0 DEF Nth, Upto
<1>2. ASSUME NEW i \in ks
      PROVE  Upto(ks, i) \in 1 .. Cardinality(ks) /\ Nth(ks, Upto(ks, i)) = i
  <2>1. /\ i \in 1 .. n /\ i - 1 \in 0 .. n /\ Upto(ks, i - 1) \in Nat
        /\ Upto(ks, i) = Upto(ks, i - 1) + 1 /\ Upto(ks, i) \in 0 .. Cardinality(ks)
        /\ Cardinality(ks) \in Nat
    BY UptoFacts
  <2>2. Upto(ks, i) \in 1 .. Cardinality(ks)
    BY <2>1
  <2>3. Nth(ks, Upto(ks, i)) \in ks /\ Upto(ks, Nth(ks, Upto(ks, i))) = Upto(ks, i)
    BY <1>1, <2>2
  <2> DEFINE j == Nth(ks, Upto(ks, i))
  <2>4. ~(j < i) /\ ~(i < j)
    <3>1. j \in ks /\ Upto(ks, j) = Upto(ks, i) /\ Upto(ks, i) \in Nat
      BY <2>1, <2>3
    <3> HIDE DEF j
    <3>2. j < i => Upto(ks, j) < Upto(ks, i)
      BY <3>1, UptoDistinct
    <3>3. i < j => Upto(ks, i) < Upto(ks, j)
      BY <3>1, UptoDistinct
    <3> QED  BY <3>1, <3>2, <3>3
  <2>5. j \in Nat /\ i \in Nat
    BY <2>3
  <2> QED  BY <2>2, <2>4, <2>5
<1> QED  BY <1>1, <1>2

LEMMA PickedFacts ==
  ASSUME NEW s, NEW n \in Nat, NEW ks, \A x \in ks : x \in 1 .. n
  PROVE  /\ DOMAIN Picked(s, ks) = 1 .. Cardinality(ks) /\ Cardinality(ks) \in Nat
         /\ Picked(s, ks) = <<>> <=> ks = {}
         /\ \A k \in 1 .. Cardinality(ks) : Nth(ks, k) \in ks /\ Picked(s, ks)[k] = s[Nth(ks, k)]
         /\ \A i \in ks : \E k \in 1 .. Cardinality(ks) : Nth(ks, k) = i /\ Picked(s, ks)[k] = s[i]
         /\ \A k, l \in 1 .. Cardinality(ks) : k # l => Nth(ks, k) # Nth(ks, l)
<1>1. Cardinality(ks) \in Nat /\ IsFiniteSet(ks)
  BY UptoFacts
<1>2. /\ DOMAIN Picked(s, ks) = 1 .. Cardinality(ks)
      /\ \A k \in 1 .. Cardinality(ks) : Picked(s, ks)[k] = s[Nth(ks, k)]
  BY DEF Picked
<1>3. \A k \in 1 .. Cardinality(ks) : Nth(ks, k) \in ks /\ Upto(ks, Nth(ks, k)) = k
  BY NthFacts
<1>4. \A i \in ks : Upto(ks, i) \in 1 .. Cardinality(ks) /\ Nth(ks, Upto(ks, i)) = i
  BY NthFacts
<1>5. Picked(s, ks) = <<>> <=> ks = {}
  <2>1. ks = {} => Cardinality(ks) = 0
    BY FS_EmptySet
  <2>2. Cardinality(ks) = 0 => Picked(s, ks) = <<>>
    BY DEF Picked
  <2>3. ks # {} => 1 .. Cardinality(ks) # {}
    BY <1>4
  <2>4. Picked(s, ks) = <<>> => 1 .. Cardinality(ks) = {}
    BY <1>2
  <2> QED  BY <2>1, <2>2, <2>3, <2>4
<1>6. \A k, l \in 1 .. Cardinality(ks) : k # l => Nth(ks, k) # Nth(ks, l)
  BY <1>3
<1>7. \A i \in ks : \E k \in 1 .. Cardinality(ks) : Nth(ks, k) = i /\ Picked(s, ks)[k] = s[i]
  BY <1>2, <1>4
<1> QED  BY <1>1, <1>2, <1>3, <1>5, <1>6, <1>7

LEMMA PickedIsSequence ==
  ASSUME NEW S, NEW s, NEW n \in Nat, NEW ks, \A x \in ks : x \in 1 .. n, \A i \in ks : s[i] \in S
  PROVE  /\ Picked(s, ks) \in Seq(S) /\ Len(Picked(s, ks)) = Cardinality(ks)
         /\ Len(Picked(s, ks)) \in Nat /\ Len(Picked(s, ks)) <= n
<1>1. Cardinality(ks) \in Nat /\ Cardinality(ks) <= n
  <2>1. /\ IsFiniteSet(1 .. n)
        /\ Cardinality(1 .. n) = n
    BY FS_Interval
  <2> QED  BY <2>1, FS_Subset, UptoFacts
<1>2. \A k \in 1 .. Cardinality(ks) : Nth(ks, k) \in ks
  BY PickedFacts
<1>3. Picked(s, ks) \in [1 .. Cardinality(ks) -> S]
  BY <1>2 DEF Picked
<1> QED  BY <1>1, <1>3

LEMMA PickedLength ==
  ASSUME NEW s, NEW n \in Nat, NEW ks, \A x \in ks : x \in 1 .. n
  PROVE  Len(Picked(s, ks)) = Cardinality(ks)
<1> DEFINE S == {s[i] : i \in ks}
<1>1. \A i \in ks : s[i] \in S
  OBVIOUS
<1> HIDE DEF S
<1>2. Picked(s, ks) \in Seq(S) /\ Len(Picked(s, ks)) = Cardinality(ks)
  BY <1>1, PickedIsSequence
<1> QED  BY <1>2

(* The types of TypeOK, with the edits made so far as a bound and, inside a    *)
(* helper, no bound on the number of tabs.                                    *)
DocE(E) == [id : Ids, edit : 0 .. E]
TabE(E) == [coll : Collections, path : Path \cup {NoPath}, doc : DocE(E),
            dirty : BOOLEAN, recovered : BOOLEAN]
DraftE(E) == [coll : Collections, doc : DocE(E), file : Path \cup {NoPath}]
EntryE(E) == [path : Path, doc : DocE(E)]
AppE(E) ==
  [open_tabs : Seq(TabE(E)), active_tab : Nat \ {0}, selected_collection : Collections,
   requests : Seq(EntryE(E)), selected_request : 0 .. MaxFiles,
   request_path : Path \cup {NoPath}, request : DocE(E) \cup {NoDoc}, valid : BOOLEAN,
   dirty : BOOLEAN, recovery_restored : BOOLEAN,
   recovery_last_saved : {"none", "recent", "due"}, tabs_settings_dirty : BOOLEAN,
   pending : {0} \cup Ids, response : {0} \cup Ids]
DiskE(E) ==
  [files : [Path -> DocE(E) \cup {NoDoc}],
   recovery : [drafts : Seq(DraftE(E)), active : 0 .. MaxTabs],
   tabs : [paths : Seq(Path), active : Path \cup {NoPath}]]

(* While there are tabs one is active, and its request is there to be drawn.    *)
TypedApp(a, E) ==
  /\ a \in AppE(E)
  /\ a.open_tabs # <<>> => a.active_tab \in 1 .. Len(a.open_tabs)
  /\ a.open_tabs = <<>> => a.active_tab = 1
  /\ a.open_tabs # <<>> => a.request \in DocE(E)
  /\ a.dirty => a.request \in DocE(E)
  /\ Len(a.requests) <= MaxFiles
Typed(w, E) ==
  /\ w \in [app : AppE(E), disk : DiskE(E)] /\ TypedApp(w.app, E)
  /\ w.disk.recovery.drafts # <<>> => w.disk.recovery.active >= 1

(* What sync_active_tab and a snapshot leave alone.                           *)
SameEditor(a, b) ==
  /\ b.active_tab = a.active_tab /\ b.selected_collection = a.selected_collection
  /\ b.requests = a.requests /\ b.selected_request = a.selected_request
  /\ b.request_path = a.request_path /\ b.request = a.request
  /\ b.valid = a.valid /\ b.dirty = a.dirty
  /\ b.recovery_restored = a.recovery_restored
  /\ b.pending = a.pending /\ b.response = a.response

LEMMA NoDocFacts ==
  ASSUME NEW E \in Nat
  PROVE  NoDoc \notin DocE(E) /\ NoDoc.id = 0 /\ NoDoc.edit = 0
BY DesktopAssumption DEF NoDoc, DocE, Ids

LEMMA PathFacts ==
  /\ NoPath \notin Path
  /\ \A p \in Path : p[1] \in Collections
  /\ \A c \in Collections : \A n \in 1 .. MaxFiles : <<c, n>> \in Path /\ <<c, n>>[1] = c
  /\ 1 \in Collections
BY DesktopAssumption DEF NoPath, Path, Collections

LEMMA CurrentTabFacts ==
  ASSUME NEW E \in Nat, NEW a, TypedApp(a, E), a.request \in DocE(E)
  PROVE  /\ CurrentTab(a) \in TabE(E)
         /\ CurrentTab(a).coll = a.selected_collection /\ CurrentTab(a).path = a.request_path
         /\ CurrentTab(a).doc = a.request /\ CurrentTab(a).dirty = a.dirty
         /\ CurrentTab(a).recovered = a.recovery_restored
BY DEF TypedApp, AppE, CurrentTab, TabE

LEMMA SyncFacts ==
  ASSUME NEW E \in Nat, NEW a, TypedApp(a, E)
  PROVE  LET b == SyncActiveTab(a)
         IN /\ TypedApp(b, E) /\ SameEditor(a, b)
            /\ b.recovery_last_saved = a.recovery_last_saved
            /\ b.tabs_settings_dirty = a.tabs_settings_dirty
            /\ Len(b.open_tabs) = Len(a.open_tabs)
            /\ b.open_tabs = <<>> <=> a.open_tabs = <<>>
            /\ a.open_tabs = <<>> \/ ~a.valid => b = a
            /\ \A i \in 1 .. Len(a.open_tabs) :
                 i # a.active_tab => b.open_tabs[i] = a.open_tabs[i]
            /\ a.open_tabs # <<>> /\ a.valid =>
                 LET t == b.open_tabs[a.active_tab]
                 IN /\ t.path = a.request_path /\ t.doc = a.request /\ t.dirty = a.dirty
                    /\ t.recovered = a.recovery_restored
                    /\ t.coll = IF Positions(a.requests, a.request_path) # {}
                                THEN a.selected_collection
                                ELSE a.open_tabs[a.active_tab].coll
<1> DEFINE b == SyncActiveTab(a)
<1> USE DEF SameEditor
<1>1. CASE a.open_tabs = <<>> \/ ~a.valid
  <2>1. b = a
    BY <1>1 DEF SyncActiveTab
  <2> QED  BY <1>1, <2>1 DEF TypedApp, AppE
<1>2. CASE a.open_tabs # <<>> /\ a.valid
  <2> DEFINE n == Len(a.open_tabs)
             c == IF Positions(a.requests, a.request_path) # {} THEN a.selected_collection
                  ELSE a.open_tabs[a.active_tab].coll
             t == [CurrentTab(a) EXCEPT !.coll = c]
             tabs == [a.open_tabs EXCEPT ![a.active_tab] = t]
  <2>1. a.open_tabs \in Seq(TabE(E)) /\ a.active_tab \in 1 .. n /\ n \in Nat /\ a \in AppE(E)
        /\ a.request \in DocE(E)
    BY <1>2 DEF TypedApp, AppE
  <2>2. c \in Collections
    <3>1. a.open_tabs[a.active_tab] \in TabE(E)
      BY <2>1
    <3> QED  BY <2>1, <3>1 DEF AppE, TabE
  <2>3. /\ t \in TabE(E) /\ t.coll = c /\ t.path = a.request_path /\ t.doc = a.request
        /\ t.dirty = a.dirty /\ t.recovered = a.recovery_restored
    BY <2>1, <2>2 DEF AppE, CurrentTab, TabE
  <2>4. b = [a EXCEPT !.open_tabs = tabs]
    BY <1>2 DEF SyncActiveTab, CurrentTab
  <2> HIDE DEF t, b, c
  <2>5. /\ tabs \in Seq(TabE(E)) /\ Len(tabs) = n /\ tabs[a.active_tab] = t
        /\ \A i \in 1 .. n : i # a.active_tab => tabs[i] = a.open_tabs[i]
    BY <2>1, <2>3
  <2> HIDE DEF tabs
  <2>6. b \in AppE(E) /\ b.open_tabs = tabs /\ SameEditor(a, b)
        /\ b.recovery_last_saved = a.recovery_last_saved
        /\ b.tabs_settings_dirty = a.tabs_settings_dirty
    BY <2>1, <2>4, <2>5 DEF AppE
  <2>7. tabs # <<>>
    BY <2>1, <2>5
  <2>8. TypedApp(b, E)
    BY <2>1, <2>5, <2>6, <2>7 DEF TypedApp
  <2>9. t.coll = IF Positions(a.requests, a.request_path) # {} THEN a.selected_collection
                  ELSE a.open_tabs[a.active_tab].coll
    BY <2>3 DEF c
  <2> QED  BY <1>2, <2>1, <2>3, <2>5, <2>6, <2>7, <2>8, <2>9 DEF b
<1> QED  BY <1>1, <1>2

LEMMA DraftOfFacts ==
  ASSUME NEW E \in Nat, NEW t \in TabE(E)
  PROVE  /\ DraftOf(t) \in DraftE(E)
         /\ DraftOf(t).coll = t.coll /\ DraftOf(t).doc = t.doc /\ DraftOf(t).file = t.path
BY DEF DraftOf, TabE, DraftE

(* A snapshot has a draft for every dirty tab and no other.                    *)
LEMMA DraftsFacts ==
  ASSUME NEW E \in Nat, NEW a, TypedApp(a, E)
  PROVE  /\ Drafts(a) \in Seq(DraftE(E))
         /\ a.open_tabs # <<>> => (Drafts(a) = <<>> <=> DirtyTabs(a) = {})
         /\ a.open_tabs # <<>> =>
              \A k \in DOMAIN Drafts(a) : \E i \in DirtyTabs(a) :
                Drafts(a)[k] = DraftOf(a.open_tabs[i])
         /\ a.open_tabs # <<>> =>
              \A i \in DirtyTabs(a) : \E k \in DOMAIN Drafts(a) :
                Drafts(a)[k] = DraftOf(a.open_tabs[i])
         /\ a.open_tabs = <<>> /\ ~a.dirty => Drafts(a) = <<>>
         /\ a.open_tabs = <<>> /\ a.dirty =>
              Drafts(a) = <<DraftOf(CurrentTab(a))>> /\ CurrentTab(a) \in TabE(E)
<1> DEFINE n == Len(a.open_tabs)
           s == [i \in DOMAIN a.open_tabs |-> DraftOf(a.open_tabs[i])]
<1>1. a.open_tabs \in Seq(TabE(E)) /\ n \in Nat /\ DOMAIN a.open_tabs = 1 .. n
  BY DEF TypedApp, AppE
<1>2. CASE a.open_tabs = <<>> /\ a.dirty
  <2>1. CurrentTab(a) \in TabE(E)
    BY <1>2, CurrentTabFacts DEF TypedApp
  <2>2. Drafts(a) = <<DraftOf(CurrentTab(a))>>
    BY <1>2 DEF Drafts
  <2> QED  BY <1>2, <2>1, <2>2, DraftOfFacts
<1>3. CASE ~(a.open_tabs = <<>> /\ a.dirty)
  <2>1. Drafts(a) = Picked(s, DirtyTabs(a))
    BY <1>3 DEF Drafts
  <2>2. \A i \in DirtyTabs(a) : i \in 1 .. n
    BY <1>1 DEF DirtyTabs
  <2>3. \A i \in 1 .. n : s[i] = DraftOf(a.open_tabs[i]) /\ s[i] \in DraftE(E)
    BY <1>1, DraftOfFacts
  <2> HIDE DEF s, n
  <2>4. Drafts(a) \in Seq(DraftE(E))
    BY <1>1, <2>1, <2>2, <2>3, PickedIsSequence
  <2>5. /\ DOMAIN Drafts(a) = 1 .. Cardinality(DirtyTabs(a))
        /\ Drafts(a) = <<>> <=> DirtyTabs(a) = {}
        /\ \A k \in 1 .. Cardinality(DirtyTabs(a)) :
             Nth(DirtyTabs(a), k) \in DirtyTabs(a) /\ Drafts(a)[k] = s[Nth(DirtyTabs(a), k)]
        /\ \A i \in DirtyTabs(a) : \E k \in 1 .. Cardinality(DirtyTabs(a)) :
             Drafts(a)[k] = s[i]
    <3> DEFINE ks == DirtyTabs(a)
    <3>1. \A i \in ks : i \in 1 .. n
      BY <2>2
    <3> HIDE DEF ks
    <3>2. /\ DOMAIN Picked(s, ks) = 1 .. Cardinality(ks)
          /\ Picked(s, ks) = <<>> <=> ks = {}
          /\ \A k \in 1 .. Cardinality(ks) : Nth(ks, k) \in ks /\ Picked(s, ks)[k] = s[Nth(ks, k)]
          /\ \A i \in ks : \E k \in 1 .. Cardinality(ks) : Nth(ks, k) = i /\ Picked(s, ks)[k] = s[i]
      BY <1>1, <3>1, PickedFacts
    <3>3. Drafts(a) = Picked(s, ks)
      BY <2>1 DEF ks
    <3> QED  BY <3>2, <3>3 DEF ks
  <2>6. a.open_tabs = <<>> => DirtyTabs(a) = {}
    BY DEF DirtyTabs
  <2>7. \A k \in DOMAIN Drafts(a) : \E i \in DirtyTabs(a) :
           Drafts(a)[k] = DraftOf(a.open_tabs[i])
    BY <2>2, <2>3, <2>5
  <2>8. \A i \in DirtyTabs(a) : \E k \in DOMAIN Drafts(a) :
           Drafts(a)[k] = DraftOf(a.open_tabs[i])
    BY <2>2, <2>3, <2>5
  <2> QED  BY <1>3, <2>4, <2>5, <2>6, <2>7, <2>8
<1> QED  BY <1>2, <1>3

LEMMA IntervalFacts ==
  ASSUME NEW m \in Nat
  PROVE  IsFiniteSet(1 .. m) /\ Cardinality(1 .. m) = m
BY FS_Interval

LEMMA ActiveDraftFacts ==
  ASSUME NEW E \in Nat, NEW a, TypedApp(a, E), Len(a.open_tabs) <= MaxTabs
  PROVE  ActiveDraft(a) \in 1 .. MaxTabs
<1>1. CASE a.open_tabs # <<>> /\ a.open_tabs[a.active_tab].dirty
  <2> DEFINE ks == {i \in 1 .. a.active_tab : a.open_tabs[i].dirty}
  <2>1. /\ a.active_tab \in 1 .. MaxTabs /\ a.active_tab \in Nat
        /\ MaxTabs \in Nat
    BY <1>1, DesktopAssumption DEF TypedApp, AppE
  <2>2. a.active_tab \in ks
    BY <1>1, <2>1
  <2>3. ks \in SUBSET (1 .. a.active_tab)
    OBVIOUS
  <2>7. IsFiniteSet(1 .. a.active_tab) /\ Cardinality(1 .. a.active_tab) = a.active_tab
    BY <2>1, IntervalFacts
  <2> HIDE DEF ks
  <2>4. IsFiniteSet(ks) /\ Cardinality(ks) <= a.active_tab
    BY <2>3, <2>7, FS_Subset, Zenon
  <2>5. Cardinality(ks) \in Nat /\ Cardinality(ks) # 0
    BY <2>2, <2>4, FS_CardinalityType, FS_EmptySet
  <2>6. ActiveDraft(a) = Cardinality(ks)
    BY <1>1 DEF ActiveDraft, ks
  <2> QED  BY <2>1, <2>4, <2>5, <2>6
<1>2. CASE ~(a.open_tabs # <<>> /\ a.open_tabs[a.active_tab].dirty)
  BY <1>2, DesktopAssumption DEF ActiveDraft
<1> QED  BY <1>1, <1>2

(* persist_recovery syncs the tabs, and replaces the snapshot if any is dirty.  *)
PersistFrom(w, v) ==
  /\ SameEditor(w.app, v.app) /\ v.app.tabs_settings_dirty = w.app.tabs_settings_dirty
  /\ v.disk.files = w.disk.files /\ v.disk.tabs = w.disk.tabs
  /\ \/ v = w
     \/ /\ w.app.valid /\ v.app.open_tabs = SyncActiveTab(w.app).open_tabs
        /\ \/ /\ v.disk = w.disk /\ v.app = SyncActiveTab(w.app)
              /\ Drafts(SyncActiveTab(w.app)) = <<>>
           \/ /\ v.disk.recovery.drafts = Drafts(SyncActiveTab(w.app))
              /\ v.disk.recovery.drafts # <<>>
              /\ v.app.recovery_last_saved = "recent"

LEMMA PersistFacts ==
  ASSUME NEW E \in Nat, NEW w, Typed(w, E), Len(w.app.open_tabs) <= MaxTabs
  PROVE  LET v == PersistRecovery(w)
         IN /\ Typed(v, E) /\ PersistFrom(w, v)
            /\ w.app.valid => v.app.open_tabs = SyncActiveTab(w.app).open_tabs
            /\ w.app.valid /\ v.app.recovery_last_saved # "recent"
                 => Drafts(SyncActiveTab(w.app)) = <<>>
            /\ ~w.app.valid => v = w
<1> DEFINE b == SyncActiveTab(w.app)
           v == PersistRecovery(w)
<1>0. w \in [app : AppE(E), disk : DiskE(E)] /\ TypedApp(w.app, E)
  BY DEF Typed
<1>1. /\ TypedApp(b, E) /\ SameEditor(w.app, b)
      /\ b.recovery_last_saved = w.app.recovery_last_saved
      /\ b.tabs_settings_dirty = w.app.tabs_settings_dirty
      /\ Len(b.open_tabs) = Len(w.app.open_tabs)
  BY <1>0, SyncFacts
<1>2. Drafts(b) \in Seq(DraftE(E)) /\ ActiveDraft(b) \in 1 .. MaxTabs
  BY <1>1, DraftsFacts, ActiveDraftFacts
<1>3. b \in AppE(E) /\ w.disk \in DiskE(E)
  BY <1>0, <1>1 DEF TypedApp
<1> HIDE DEF b
<1>4. CASE ~w.app.valid
  <2>1. v = w
    BY <1>4 DEF PersistRecovery
  <2> QED  BY <1>4, <2>1 DEF PersistFrom, SameEditor
<1>5. CASE w.app.valid /\ Drafts(b) = <<>>
  <2>1. v = [w EXCEPT !.app = b]
    BY <1>5 DEF PersistRecovery, b
  <2>2. v.app = b /\ v.disk = w.disk /\ v \in [app : AppE(E), disk : DiskE(E)]
    BY <1>0, <1>3, <2>1
  <2>3. Typed(v, E)
    BY <1>1, <2>2 DEF Typed
  <2>4. v.app.open_tabs = SyncActiveTab(w.app).open_tabs /\ v.app = SyncActiveTab(w.app)
        /\ Drafts(SyncActiveTab(w.app)) = <<>>
    BY <1>5, <2>2 DEF b
  <2>5. PersistFrom(w, v)
    BY <1>1, <1>5, <2>2, <2>4 DEF PersistFrom
  <2> QED  BY <1>5, <2>3, <2>4, <2>5
<1>6. CASE w.app.valid /\ Drafts(b) # <<>>
  <2> DEFINE r == [drafts |-> Drafts(b), active |-> ActiveDraft(b)]
             d == [w.disk EXCEPT !.recovery = r]
             c == [b EXCEPT !.recovery_last_saved = "recent"]
  <2>1. v = [app |-> c, disk |-> d]
    BY <1>6 DEF PersistRecovery, b
  <2>2. r \in [drafts : Seq(DraftE(E)), active : 0 .. MaxTabs] /\ r.drafts = Drafts(b)
        /\ r.active >= 1
    BY <1>2
  <2> HIDE DEF r
  <2>3. /\ d \in DiskE(E) /\ d.files = w.disk.files /\ d.tabs = w.disk.tabs /\ d.recovery = r
    BY <1>3, <2>2 DEF DiskE
  <2>4. /\ c \in AppE(E) /\ SameEditor(b, c) /\ c.recovery_last_saved = "recent"
        /\ c.tabs_settings_dirty = b.tabs_settings_dirty /\ c.open_tabs = b.open_tabs
    BY <1>3 DEF AppE, SameEditor
  <2> HIDE DEF d, c
  <2>5. v.app = c /\ v.disk = d /\ v \in [app : AppE(E), disk : DiskE(E)]
    BY <2>1, <2>3, <2>4
  <2>6. TypedApp(c, E)
    BY <1>1, <2>4 DEF TypedApp, SameEditor
  <2>7. Typed(v, E)
    BY <2>2, <2>3, <2>5, <2>6 DEF Typed
  <2>8. SameEditor(w.app, c)
    BY <1>1, <2>4 DEF SameEditor
  <2>9. v.app.open_tabs = SyncActiveTab(w.app).open_tabs
    BY <2>4, <2>5 DEF b
  <2>10. PersistFrom(w, v)
    <3>1. v.disk.recovery.drafts = Drafts(SyncActiveTab(w.app))
      BY <2>2, <2>3, <2>5 DEF b
    <3> QED  BY <1>1, <1>6, <2>3, <2>4, <2>5, <2>8, <2>9, <3>1 DEF PersistFrom, b
  <2> QED  BY <1>6, <2>4, <2>5, <2>7, <2>9, <2>10
<1> QED  BY <1>4, <1>5, <1>6

LEMMA PositionsFacts ==
  ASSUME NEW E \in Nat, NEW entries \in Seq(EntryE(E)), Len(entries) <= MaxFiles, NEW p
  PROVE  /\ First(Positions(entries, p)) \in 0 .. MaxFiles
         /\ First(Positions(entries, p)) # 0 =>
              /\ First(Positions(entries, p)) \in 1 .. Len(entries)
              /\ entries[First(Positions(entries, p))].path = p
         /\ \A k \in 1 .. Len(entries) : entries[k].path = p =>
              First(Positions(entries, p)) # 0 /\ Positions(entries, p) # {}
         /\ Positions(entries, p) # {} => \E k \in 1 .. Len(entries) : entries[k].path = p
<1>1. /\ \A k \in Positions(entries, p) : k \in 1 .. Len(entries) /\ entries[k].path = p
      /\ \A k \in 1 .. Len(entries) : entries[k].path = p => k \in Positions(entries, p)
  BY DEF Positions
<1>2. Len(entries) \in Nat /\ MaxFiles \in Nat
  BY DesktopAssumption
<1> DEFINE ks == Positions(entries, p)
<1> HIDE DEF ks
<1>3. \A k \in ks : k \in 1 .. Len(entries)
  BY <1>1 DEF ks
<1>4. /\ First(ks) \in 0 .. Len(entries)
      /\ First(ks) # 0 => First(ks) \in ks
      /\ ks # {} => First(ks) \in ks
  BY <1>2, <1>3, FirstFacts
<1>5. First(ks) # 0 => First(ks) \in 1 .. Len(entries) /\ entries[First(ks)].path = p
  BY <1>1, <1>4 DEF ks
<1>6. \A k \in ks : First(ks) # 0
  BY <1>3, <1>4
<1>7. First(ks) \in 0 .. MaxFiles
  BY <1>2, <1>4
<1>8. /\ \A k \in 1 .. Len(entries) : entries[k].path = p => First(ks) # 0 /\ ks # {}
      /\ ks # {} => \E k \in 1 .. Len(entries) : entries[k].path = p
  BY <1>1, <1>6 DEF ks
<1> QED  BY <1>5, <1>7, <1>8 DEF ks

(* The listing of a collection has each of its files once.                     *)
LEMMA ListingFacts ==
  ASSUME NEW E \in Nat, NEW files \in [Path -> DocE(E) \cup {NoDoc}], NEW c \in Collections
  PROVE  LET entries == Listing(files, c)
         IN /\ entries \in Seq(EntryE(E)) /\ Len(entries) <= MaxFiles
            /\ \A k \in 1 .. Len(entries) :
                 /\ entries[k].path \in Path /\ entries[k].path[1] = c
                 /\ files[entries[k].path] = entries[k].doc /\ entries[k].doc # NoDoc
            /\ \A p \in Path : p[1] = c /\ files[p] # NoDoc =>
                 \E k \in 1 .. Len(entries) : entries[k].path = p
<1> DEFINE s == [n \in 1 .. MaxFiles |-> [path |-> <<c, n>>, doc |-> files[<<c, n>>]]]
           ks == {n \in 1 .. MaxFiles : files[<<c, n>>] # NoDoc}
<1>1. MaxFiles \in Nat /\ \A n \in ks : n \in 1 .. MaxFiles
  BY DesktopAssumption
<1>2. ASSUME NEW n \in ks
      PROVE  /\ s[n] \in EntryE(E) /\ s[n].path = <<c, n>> /\ s[n].doc = files[<<c, n>>]
             /\ <<c, n>> \in Path /\ <<c, n>>[1] = c /\ files[<<c, n>>] # NoDoc
  <2>1. <<c, n>> \in Path /\ <<c, n>>[1] = c /\ n \in 1 .. MaxFiles
    BY PathFacts
  <2>2. files[<<c, n>>] \in DocE(E) /\ files[<<c, n>>] # NoDoc
    BY <2>1
  <2>3. s[n] = [path |-> <<c, n>>, doc |-> files[<<c, n>>]]
    BY <2>1
  <2> QED  BY <2>1, <2>2, <2>3 DEF EntryE
<1>3. \A p \in Path : p[1] = c /\ files[p] # NoDoc =>
        \E n \in ks : p = <<c, n>>
  BY DEF Path
<1>4. Listing(files, c) = Picked(s, ks)
  BY DEF Listing
<1> HIDE DEF s, ks
<1>5. /\ Picked(s, ks) \in Seq(EntryE(E)) /\ Len(Picked(s, ks)) = Cardinality(ks)
      /\ Len(Picked(s, ks)) <= MaxFiles
  <2>1. \A n \in ks : s[n] \in EntryE(E)
    BY <1>2
  <2> QED  BY <1>1, <2>1, PickedIsSequence, SMTT(30)
<1>6. /\ \A k \in 1 .. Cardinality(ks) : Nth(ks, k) \in ks /\ Picked(s, ks)[k] = s[Nth(ks, k)]
      /\ \A i \in ks : \E k \in 1 .. Cardinality(ks) : Nth(ks, k) = i /\ Picked(s, ks)[k] = s[i]
  BY <1>1, PickedFacts
<1>7. \A k \in 1 .. Cardinality(ks) :
        /\ Picked(s, ks)[k].path \in Path /\ Picked(s, ks)[k].path[1] = c
        /\ files[Picked(s, ks)[k].path] = Picked(s, ks)[k].doc /\ Picked(s, ks)[k].doc # NoDoc
  <2> SUFFICES ASSUME NEW k \in 1 .. Cardinality(ks)
      PROVE  /\ Picked(s, ks)[k].path \in Path /\ Picked(s, ks)[k].path[1] = c
             /\ files[Picked(s, ks)[k].path] = Picked(s, ks)[k].doc
             /\ Picked(s, ks)[k].doc # NoDoc
    OBVIOUS
  <2>1. PICK n \in ks : Picked(s, ks)[k] = s[n]
    BY <1>6
  <2> QED  BY <1>2, <2>1
<1>8. \A p \in Path : p[1] = c /\ files[p] # NoDoc =>
        \E k \in 1 .. Cardinality(ks) : Picked(s, ks)[k].path = p
  BY <1>2, <1>3, <1>6
<1> QED  BY <1>4, <1>5, <1>7, <1>8

(* What load_requests_for_tab and install_tab make of tab i: it is in the       *)
(* editor, its collection is the selected one, and no answer is awaited.       *)
Shows(a, files, i, b) ==
  LET tab == a.open_tabs[i]
  IN /\ b.open_tabs = a.open_tabs /\ b.active_tab = i /\ b.selected_collection = tab.coll
     /\ b.requests = IF tab.coll \in unreadable THEN a.requests ELSE Listing(files, tab.coll)
     /\ b.request_path = tab.path /\ b.request = tab.doc /\ b.valid = TRUE
     /\ b.dirty = tab.dirty /\ b.recovery_restored = tab.recovered
     /\ b.pending = 0 /\ b.response = 0
     /\ b.recovery_last_saved = a.recovery_last_saved

LEMMA ShowTabFacts ==
  ASSUME NEW E \in Nat, NEW a \in AppE(E), Len(a.requests) <= MaxFiles,
         NEW files \in [Path -> DocE(E) \cup {NoDoc}], NEW i \in 1 .. Len(a.open_tabs)
  PROVE  TypedApp(ShowTab(a, files, i), E) /\ Shows(a, files, i, ShowTab(a, files, i))
<1> DEFINE tab == a.open_tabs[i]
           l == LoadRequestsForTab(a, files, i)
           r == IF tab.coll \in unreadable THEN a.requests ELSE Listing(files, tab.coll)
           b == ShowTab(a, files, i)
<1>0. a.open_tabs \in Seq(TabE(E)) /\ a.requests \in Seq(EntryE(E))
  BY DEF AppE
<1>1. tab \in TabE(E)
  BY <1>0
<1>2. /\ tab.coll \in Collections /\ tab.path \in Path \cup {NoPath} /\ tab.doc \in DocE(E)
      /\ tab.dirty \in BOOLEAN /\ tab.recovered \in BOOLEAN
  BY <1>1 DEF TabE
<1> HIDE DEF tab
<1>3. r \in Seq(EntryE(E)) /\ Len(r) <= MaxFiles
  BY <1>0, <1>2, ListingFacts
<1>4. l = [a EXCEPT !.requests = r]
  <2>1. l = IF tab.coll \in unreadable THEN a ELSE [a EXCEPT !.requests = Listing(files, tab.coll)]
    BY DEF LoadRequestsForTab, tab
  <2>2. a = [a EXCEPT !.requests = a.requests]
    BY DEF AppE
  <2> QED  BY <2>1, <2>2
<1> HIDE DEF r
<1>5. /\ l \in AppE(E) /\ l.requests = r /\ l.open_tabs = a.open_tabs
      /\ l.recovery_last_saved = a.recovery_last_saved
      /\ l.tabs_settings_dirty = a.tabs_settings_dirty
  BY <1>3, <1>4 DEF AppE
<1> DEFINE k == First(Positions(l.requests, tab.path))
<1>6. k \in 0 .. MaxFiles
  BY <1>3, <1>5, PositionsFacts
<1>7. b = [l EXCEPT !.pending = 0, !.response = 0,
             !.active_tab = i, !.selected_collection = tab.coll, !.selected_request = k,
             !.request_path = tab.path, !.request = tab.doc, !.valid = TRUE,
             !.dirty = tab.dirty, !.recovery_restored = tab.recovered]
  BY <1>5 DEF ShowTab, InstallTab, ClearResponse, tab, AppE
<1> HIDE DEF l, k, b
<1>8. i \in Nat \ {0} /\ i \in 1 .. Len(a.open_tabs)
  BY <1>0
<1>9. /\ b \in AppE(E)
      /\ b.open_tabs = a.open_tabs /\ b.active_tab = i /\ b.selected_collection = tab.coll
      /\ b.requests = r /\ b.request_path = tab.path /\ b.request = tab.doc /\ b.valid = TRUE
      /\ b.dirty = tab.dirty /\ b.recovery_restored = tab.recovered
      /\ b.pending = 0 /\ b.response = 0
      /\ b.recovery_last_saved = a.recovery_last_saved
      /\ b.tabs_settings_dirty = a.tabs_settings_dirty
  BY <1>2, <1>5, <1>6, <1>7, <1>8 DEF AppE
<1>10. a.open_tabs # <<>>
  BY <1>0, <1>8
<1>11. TypedApp(b, E)
  BY <1>2, <1>3, <1>8, <1>9, <1>10 DEF TypedApp
<1>12. Shows(a, files, i, b)
  BY <1>9 DEF Shows, tab, r
<1> QED  BY <1>11, <1>12 DEF b

LEMMA NewDocFacts ==
  ASSUME Ids \ UsedIds # {}, NEW E \in Nat
  PROVE  NewDoc \in DocE(E) /\ NewDoc.edit = 0 /\ NewDoc.id \in Ids \ UsedIds
<1>1. Ids \ UsedIds \subseteq Nat
  BY DEF Ids
<1>2. Min(Ids \ UsedIds) \in Ids \ UsedIds
  BY <1>1, MinFacts
<1> QED  BY <1>2 DEF NewDoc, DocE

LEMMA AppendTabFacts ==
  ASSUME NEW S, NEW s \in Seq(S), NEW t \in S
  PROVE  /\ Append(s, t) \in Seq(S) /\ Len(Append(s, t)) = Len(s) + 1 /\ Len(s) \in Nat
         /\ Append(s, t) # <<>> /\ Append(s, t)[Len(s) + 1] = t
         /\ \A i \in 1 .. Len(s) : Append(s, t)[i] = s[i]
         /\ \A i \in 1 .. Len(Append(s, t)) : i \in 1 .. Len(s) \/ i = Len(s) + 1
<1> DEFINE n == Len(s)
           q == Append(s, t)
<1>1. q \in Seq(S) /\ Len(q) = n + 1 /\ n \in Nat /\ q[n + 1] = t
  OBVIOUS
<1>2. \A i \in 1 .. n : q[i] = s[i]
  OBVIOUS
<1> HIDE DEF n, q
<1>3. q # <<>>
  BY <1>1
<1>4. \A i \in 1 .. n + 1 : i \in 1 .. n \/ i = n + 1
  BY <1>1
<1> QED  BY <1>1, <1>2, <1>3, <1>4 DEF n, q

(* The draft of reset_new_request, and the tab it is opened in.                *)
ResetFrom(a, b) ==
  /\ b.open_tabs = a.open_tabs /\ b.active_tab = a.active_tab
  /\ b.selected_collection = a.selected_collection /\ b.requests = a.requests
  /\ b.request_path = NoPath /\ b.request = NewDoc /\ b.valid = TRUE /\ b.dirty = TRUE
  /\ b.recovery_restored = FALSE /\ b.pending = 0 /\ b.response = 0
  /\ b.recovery_last_saved = a.recovery_last_saved
  /\ b.tabs_settings_dirty = a.tabs_settings_dirty

LEMMA ResetFacts ==
  ASSUME NEW E \in Nat, NEW a, a \in AppE(E), NewDoc \in DocE(E)
  PROVE  /\ ResetNewRequest(a) \in AppE(E) /\ ResetFrom(a, ResetNewRequest(a))
         /\ TypedApp(a, E) => TypedApp(ResetNewRequest(a), E)
<1> DEFINE b == ResetNewRequest(a)
<1>1. b = [a EXCEPT !.pending = 0, !.response = 0,
             !.selected_request = 0, !.request_path = NoPath, !.request = NewDoc,
             !.valid = TRUE, !.dirty = TRUE, !.recovery_restored = FALSE]
  BY DEF ResetNewRequest, ClearResponse, AppE
<1>2. 0 \in 0 .. MaxFiles
  BY DesktopAssumption
<1> HIDE DEF b
<1>5. b \in AppE(E)
  BY <1>1, <1>2 DEF AppE
<1>6. ResetFrom(a, b)
  BY <1>1 DEF AppE, ResetFrom
<1>3. b \in AppE(E) /\ ResetFrom(a, b)
  BY <1>5, <1>6
<1>4. TypedApp(a, E) => TypedApp(b, E)
  BY <1>3 DEF TypedApp, ResetFrom
<1> QED  BY <1>3, <1>4 DEF b

(* A new tab in front: a draft, or a file of the selected collection.           *)
OpensTab(a, b, tab) ==
  /\ b.open_tabs = Append(a.open_tabs, tab) /\ b.active_tab = Len(a.open_tabs) + 1
  /\ b.selected_collection = a.selected_collection /\ b.requests = a.requests
  /\ b.request_path = tab.path /\ b.request = tab.doc /\ b.valid = TRUE /\ b.dirty = tab.dirty
  /\ b.recovery_restored = tab.recovered /\ b.pending = 0 /\ b.response = 0
  /\ b.recovery_last_saved = a.recovery_last_saved /\ b.tabs_settings_dirty = TRUE
DraftTab(c) == [coll |-> c, path |-> NoPath, doc |-> NewDoc, dirty |-> TRUE,
                recovered |-> FALSE]
FileTab(c, entry) == [coll |-> c, path |-> entry.path, doc |-> entry.doc, dirty |-> FALSE,
                      recovered |-> FALSE]

LEMMA PersistIfDirtyFacts ==
  ASSUME NEW E \in Nat, NEW w, Typed(w, E), Len(w.app.open_tabs) <= MaxTabs
  PROVE  LET v == PersistIfDirty(w)
         IN /\ Typed(v, E) /\ PersistFrom(w, v)
            /\ Len(v.app.open_tabs) = Len(w.app.open_tabs)
            /\ v = w \/ (w.app.valid /\ w.app.dirty)
<1> DEFINE v == PersistRecovery(w)
<1>1. /\ Typed(v, E) /\ PersistFrom(w, v)
      /\ w.app.valid => v.app.open_tabs = SyncActiveTab(w.app).open_tabs
      /\ ~w.app.valid => v = w
  BY PersistFacts
<1>2. TypedApp(w.app, E)
  BY DEF Typed
<1>3. Len(SyncActiveTab(w.app).open_tabs) = Len(w.app.open_tabs)
  BY <1>2, SyncFacts
<1>4. Len(v.app.open_tabs) = Len(w.app.open_tabs)
  BY <1>1, <1>3
<1>5. PersistFrom(w, w)
  BY DEF PersistFrom, SameEditor
<1> HIDE DEF v
<1>6. PersistIfDirty(w) = IF w.app.dirty THEN v ELSE w
  BY DEF PersistIfDirty, v
<1> QED  BY <1>1, <1>4, <1>5, <1>6

LEMMA OpenDraftFacts ==
  ASSUME NEW E \in Nat, NEW w, Typed(w, E), Len(w.app.open_tabs) <= MaxTabs,
         NewDoc \in DocE(E)
  PROVE  LET v == PersistIfDirty(w)
             x == OpenDraft(w)
         IN /\ Typed(x, E) /\ x.disk = v.disk
            /\ OpensTab(SyncActiveTab(v.app), x.app, DraftTab(w.app.selected_collection))
            /\ Len(x.app.open_tabs) = Len(w.app.open_tabs) + 1
<1> DEFINE v == PersistIfDirty(w)
           s == SyncActiveTab(v.app)
           b == ResetNewRequest(s)
           t == CurrentTab(b)
           n == Len(b.open_tabs)
           c == [b EXCEPT !.open_tabs = Append(b.open_tabs, t), !.active_tab = n + 1,
                          !.tabs_settings_dirty = TRUE]
           x == OpenDraft(w)
<1>1. Typed(v, E) /\ PersistFrom(w, v) /\ Len(v.app.open_tabs) = Len(w.app.open_tabs)
  BY PersistIfDirtyFacts
<1>2. TypedApp(v.app, E) /\ v.disk \in DiskE(E) /\ v.app.selected_collection = w.app.selected_collection
  BY <1>1 DEF Typed, PersistFrom, SameEditor
<1>3. /\ TypedApp(s, E) /\ SameEditor(v.app, s) /\ Len(s.open_tabs) = Len(v.app.open_tabs)
      /\ s.recovery_last_saved = v.app.recovery_last_saved
      /\ s.tabs_settings_dirty = v.app.tabs_settings_dirty
  BY <1>2, SyncFacts
<1>9. x = [v EXCEPT !.app = c]
  BY DEF OpenDraft
<1> HIDE DEF s, v, x
<1>4. s \in AppE(E) /\ b \in AppE(E) /\ ResetFrom(s, b) /\ TypedApp(b, E)
  BY <1>3, ResetFacts DEF TypedApp
<1> HIDE DEF b
<1>5. /\ t = DraftTab(w.app.selected_collection) /\ t \in TabE(E)
      /\ t.path = NoPath /\ t.doc = NewDoc /\ t.dirty = TRUE /\ t.recovered = FALSE
  <2>1. b.request \in DocE(E)
    BY <1>4 DEF ResetFrom
  <2>2. t \in TabE(E)
    BY <1>4, <2>1, CurrentTabFacts
  <2>3. b.selected_collection = w.app.selected_collection
    BY <1>2, <1>3, <1>4 DEF ResetFrom, SameEditor
  <2>4. t = DraftTab(w.app.selected_collection)
    BY <1>4, <2>3 DEF CurrentTab, DraftTab, ResetFrom
  <2> QED  BY <2>2, <2>4 DEF DraftTab
<1> HIDE DEF t
<1>6. /\ b.open_tabs \in Seq(TabE(E)) /\ n \in Nat /\ n = Len(w.app.open_tabs)
      /\ b.open_tabs = s.open_tabs
  BY <1>1, <1>3, <1>4 DEF AppE, ResetFrom
<1>7. /\ Append(b.open_tabs, t) \in Seq(TabE(E)) /\ Len(Append(b.open_tabs, t)) = n + 1
      /\ Append(b.open_tabs, t) # <<>>
  <2>1. b.open_tabs \in Seq(TabE(E)) /\ t \in TabE(E)
    BY <1>5, <1>6
  <2>2. /\ Append(b.open_tabs, t) \in Seq(TabE(E)) /\ Append(b.open_tabs, t) # <<>>
        /\ Len(Append(b.open_tabs, t)) = Len(b.open_tabs) + 1
    BY <2>1, AppendTabFacts
  <2> QED  BY <1>6, <2>2
<1> HIDE DEF n
<1>8. /\ c \in AppE(E) /\ c.open_tabs = Append(b.open_tabs, t) /\ c.active_tab = n + 1
      /\ c.tabs_settings_dirty = TRUE
      /\ c.selected_collection = b.selected_collection /\ c.requests = b.requests
      /\ c.request_path = b.request_path /\ c.request = b.request /\ c.valid = b.valid
      /\ c.dirty = b.dirty /\ c.recovery_restored = b.recovery_restored
      /\ c.pending = b.pending /\ c.response = b.response
      /\ c.recovery_last_saved = b.recovery_last_saved
  <2>1. n + 1 \in Nat \ {0}
    BY <1>6
  <2> QED  BY <1>4, <1>7, <2>1, ZenonT(30) DEF AppE
<1> HIDE DEF c
<1>10. OpensTab(s, c, t)
  BY <1>4, <1>5, <1>6, <1>8 DEF OpensTab, ResetFrom, n
<1>11. TypedApp(c, E)
  <2>1. n + 1 \in 1 .. n + 1
    BY <1>6
  <2>2. c.request \in DocE(E) /\ Len(c.requests) <= MaxFiles
    BY <1>4, <1>8 DEF ResetFrom, TypedApp
  <2> QED  BY <1>7, <1>8, <2>1, <2>2 DEF TypedApp
<1>12. x.app = c /\ x.disk = v.disk /\ x \in [app : AppE(E), disk : DiskE(E)]
       /\ (v.disk.recovery.drafts # <<>> => v.disk.recovery.active >= 1)
  BY <1>1, <1>8, <1>9 DEF Typed
<1>13. Typed(x, E)
  BY <1>11, <1>12 DEF Typed
<1> QED  BY <1>5, <1>6, <1>7, <1>8, <1>10, <1>12, <1>13 DEF x, v, s

Opened(a, k) ==
  [a EXCEPT !.tabs_settings_dirty = TRUE,
            !.open_tabs = Append(a.open_tabs, FileTab(a.selected_collection, a.requests[k]))]

LEMMA OpenedFacts ==
  ASSUME NEW E \in Nat, NEW a \in AppE(E), NEW k \in 1 .. Len(a.requests)
  PROVE  LET b == Opened(a, k)
             tab == FileTab(a.selected_collection, a.requests[k])
         IN /\ b \in AppE(E) /\ tab \in TabE(E)
            /\ b.open_tabs = Append(a.open_tabs, tab) /\ b.requests = a.requests
            /\ b.recovery_last_saved = a.recovery_last_saved /\ b.tabs_settings_dirty = TRUE
            /\ tab.coll = a.selected_collection /\ tab.path = a.requests[k].path
            /\ tab.path \in Path
            /\ tab.doc = a.requests[k].doc /\ tab.dirty = FALSE /\ tab.recovered = FALSE
<1> DEFINE entry == a.requests[k]
           tab == FileTab(a.selected_collection, entry)
           tabs == Append(a.open_tabs, tab)
           b == Opened(a, k)
<1>1. a.requests \in Seq(EntryE(E)) /\ a.open_tabs \in Seq(TabE(E)) /\ a.selected_collection \in Collections
  BY DEF AppE
<1>2. entry \in EntryE(E)
  BY <1>1
<1>3. entry.path \in Path /\ entry.doc \in DocE(E)
  BY <1>2 DEF EntryE
<1> HIDE DEF entry
<1>4. /\ tab \in TabE(E) /\ tab.coll = a.selected_collection /\ tab.path = entry.path
      /\ tab.doc = entry.doc /\ tab.dirty = FALSE /\ tab.recovered = FALSE
  BY <1>1, <1>3 DEF FileTab, TabE
<1> HIDE DEF tab
<1>5. tabs \in Seq(TabE(E))
  BY <1>1, <1>4
<1>6. b = [a EXCEPT !.tabs_settings_dirty = TRUE, !.open_tabs = tabs]
  BY DEF Opened, tab, entry
<1> HIDE DEF tabs, b
<1>7. /\ b \in AppE(E) /\ b.open_tabs = tabs /\ b.requests = a.requests
      /\ b.recovery_last_saved = a.recovery_last_saved /\ b.tabs_settings_dirty = TRUE
  BY <1>5, <1>6 DEF AppE
<1> QED  BY <1>3, <1>4, <1>7 DEF b, tabs, tab, entry

(* After the sync, select_request shows the tab of the file or a new one.       *)
SelectedFrom(s, files, k, b) ==
  \/ \E i \in 1 .. Len(s.open_tabs) :
       s.open_tabs[i].path = s.requests[k].path /\ Shows(s, files, i, b)
  \/ /\ \A j \in 1 .. Len(s.open_tabs) : s.open_tabs[j].path # s.requests[k].path
     /\ Shows(Opened(s, k), files, Len(s.open_tabs) + 1, b)

SelectRest(v, s, k) ==
  LET entry == s.requests[k]
      i == First({j \in DOMAIN s.open_tabs : s.open_tabs[j].path = entry.path})
      opened == Opened(s, k)
      shown == IF i # 0 THEN ShowTab(s, v.disk.files, i)
               ELSE ShowTab(opened, v.disk.files, Len(opened.open_tabs))
  IN IF SyncFails(v.app) THEN v
     ELSE [v EXCEPT !.app = [shown EXCEPT !.selected_request = k]]

LEMMA SelectRestFacts ==
  ASSUME NEW E \in Nat, NEW v, Typed(v, E), NEW s, TypedApp(s, E),
         NEW k \in 1 .. Len(s.requests), ~SyncFails(v.app)
  PROVE  LET x == SelectRest(v, s, k)
         IN /\ Typed(x, E) /\ x.disk = v.disk /\ SelectedFrom(s, v.disk.files, k, x.app)
            /\ Len(x.app.open_tabs) \in {Len(s.open_tabs), Len(s.open_tabs) + 1}
            /\ x.app.open_tabs # <<>>
<1> DEFINE path == s.requests[k].path
           files == v.disk.files
           n == Len(s.open_tabs)
           js == {j \in DOMAIN s.open_tabs : s.open_tabs[j].path = path}
           i == First(js)
           opened == Opened(s, k)
           shown == IF i # 0 THEN ShowTab(s, files, i)
                    ELSE ShowTab(opened, files, Len(opened.open_tabs))
           c == [shown EXCEPT !.selected_request = k]
           x == SelectRest(v, s, k)
<1>1. /\ s \in AppE(E) /\ s.open_tabs \in Seq(TabE(E)) /\ s.requests \in Seq(EntryE(E))
      /\ Len(s.requests) <= MaxFiles /\ n \in Nat /\ Len(s.requests) \in Nat
  BY DEF TypedApp, AppE
<1>2. /\ \A j \in js : j \in 1 .. n /\ s.open_tabs[j].path = path
      /\ \A j \in 1 .. n : s.open_tabs[j].path = path => j \in js
  BY <1>1
<1>3. /\ js = {} => i = 0
      /\ i # 0 => i \in js
      /\ js # {} => i \in js
  <2> HIDE DEF js
  <2>1. \A j \in js : j \in 1 .. n
    BY <1>2
  <2> QED  BY <1>1, <2>1, FirstFacts
<1>4. files \in [Path -> DocE(E) \cup {NoDoc}] /\ v \in [app : AppE(E), disk : DiskE(E)]
  BY DEF Typed, DiskE
<1>5. x = [v EXCEPT !.app = c]
  BY DEF SelectRest
<1> HIDE DEF js, i, opened, files, path
<1>6. TypedApp(shown, E) /\ SelectedFrom(s, files, k, shown)
      /\ Len(shown.open_tabs) \in {n, n + 1}
  <2>1. CASE i # 0
    <3>1. i \in 1 .. n /\ s.open_tabs[i].path = path
      BY <1>2, <1>3, <2>1
    <3>2. TypedApp(ShowTab(s, files, i), E) /\ Shows(s, files, i, ShowTab(s, files, i))
      BY <1>1, <1>4, <3>1, ShowTabFacts
    <3>3. SelectedFrom(s, files, k, ShowTab(s, files, i))
      BY <3>1, <3>2 DEF SelectedFrom, path
    <3>4. Len(ShowTab(s, files, i).open_tabs) = n
      BY <3>2 DEF Shows
    <3> QED  BY <2>1, <3>2, <3>3, <3>4
  <2>2. CASE i = 0
    <3>0. /\ opened \in AppE(E) /\ opened.requests = s.requests
          /\ opened.open_tabs = Append(s.open_tabs, FileTab(s.selected_collection, s.requests[k]))
          /\ FileTab(s.selected_collection, s.requests[k]) \in TabE(E)
      <4>1. s \in AppE(E) /\ k \in 1 .. Len(s.requests)
        BY <1>1
      <4> QED  BY <4>1, OpenedFacts, ZenonT(30) DEF opened
    <3>1. Len(opened.open_tabs) = n + 1
      BY <1>1, <3>0, AppendTabFacts
    <3>2. n + 1 \in 1 .. Len(opened.open_tabs) /\ Len(opened.requests) <= MaxFiles
      BY <1>1, <3>0, <3>1
    <3>3. /\ TypedApp(ShowTab(opened, files, n + 1), E)
          /\ Shows(opened, files, n + 1, ShowTab(opened, files, n + 1))
      BY <1>4, <3>0, <3>2, ShowTabFacts
    <3>4. \A j \in 1 .. n : s.open_tabs[j].path # path
      <4>1. ASSUME js # {} PROVE FALSE
        <5>1. i \in 1 .. n
          BY <1>2, <1>3, <4>1
        <5> QED  BY <1>1, <2>2, <5>1
      <4> QED  BY <1>2, <4>1
    <3>5. SelectedFrom(s, files, k, ShowTab(opened, files, n + 1))
      BY <3>3, <3>4 DEF SelectedFrom, path, opened
    <3>6. Len(ShowTab(opened, files, n + 1).open_tabs) = n + 1
      BY <3>1, <3>3 DEF Shows
    <3> QED  BY <2>2, <3>1, <3>3, <3>5, <3>6
  <2> QED  BY <2>1, <2>2
<1> HIDE DEF shown
<1>7. shown \in AppE(E) /\ k \in 0 .. MaxFiles
  BY <1>1, <1>6, DesktopAssumption DEF TypedApp
<1>8. /\ c \in AppE(E) /\ SameEditor([shown EXCEPT !.selected_request = k], c)
      /\ c.open_tabs = shown.open_tabs /\ c.active_tab = shown.active_tab
      /\ c.selected_collection = shown.selected_collection /\ c.requests = shown.requests
      /\ c.request_path = shown.request_path /\ c.request = shown.request
      /\ c.valid = shown.valid /\ c.dirty = shown.dirty
      /\ c.recovery_restored = shown.recovery_restored
      /\ c.pending = shown.pending /\ c.response = shown.response
      /\ c.recovery_last_saved = shown.recovery_last_saved
      /\ c.tabs_settings_dirty = shown.tabs_settings_dirty
  BY <1>7 DEF AppE, SameEditor
<1> HIDE DEF c
<1>9. TypedApp(c, E) /\ SelectedFrom(s, files, k, c)
  <2>1. TypedApp(c, E)
    BY <1>6, <1>8 DEF TypedApp
  <2>2. \A a, j : Shows(a, files, j, shown) => Shows(a, files, j, c)
    BY <1>8 DEF Shows
  <2> QED  BY <1>6, <2>1, <2>2 DEF SelectedFrom
<1>10. x.app = c /\ x.disk = v.disk /\ x \in [app : AppE(E), disk : DiskE(E)]
  BY <1>4, <1>5, <1>8
<1>11. Typed(x, E)
  BY <1>9, <1>10 DEF Typed
<1>12. c.open_tabs # <<>>
  <2>1. shown.open_tabs # <<>>
    <3>1. \/ \E j \in 1 .. n : Shows(s, files, j, shown)
          \/ Shows(Opened(s, k), files, n + 1, shown)
      BY <1>6 DEF SelectedFrom
    <3>2. CASE \E j \in 1 .. n : Shows(s, files, j, shown)
      <4>1. shown.open_tabs = s.open_tabs /\ \E j \in 1 .. n : TRUE
        BY <3>2 DEF Shows
      <4> QED  BY <1>1, <4>1
    <3>3. CASE Shows(Opened(s, k), files, n + 1, shown)
      <4> DEFINE tab == FileTab(s.selected_collection, s.requests[k])
      <4>1. /\ Opened(s, k).open_tabs = Append(s.open_tabs, tab) /\ tab \in TabE(E)
        BY <1>1, OpenedFacts, ZenonT(30)
      <4> HIDE DEF tab
      <4>2. Append(s.open_tabs, tab) # <<>>
        BY <1>1, <4>1, AppendTabFacts
      <4>3. shown.open_tabs = Append(s.open_tabs, tab)
        BY <3>3, <4>1 DEF Shows
      <4> QED  BY <4>2, <4>3
    <3> QED  BY <3>1, <3>2, <3>3
  <2> QED  BY <1>8, <2>1
<1> QED  BY <1>6, <1>8, <1>9, <1>10, <1>11, <1>12 DEF files, x

LEMMA SelectEntryFacts ==
  ASSUME NEW E \in Nat, NEW w, Typed(w, E), Len(w.app.open_tabs) <= MaxTabs,
         NEW k \in 1 .. Len(w.app.requests)
  PROVE  LET v == PersistIfDirty(w)
             x == SelectEntry(w, k)
         IN /\ Typed(x, E) /\ x.disk = v.disk
            /\ SyncFails(w.app) => x = w
            /\ ~SyncFails(w.app) => SelectedFrom(SyncActiveTab(v.app), v.disk.files, k, x.app)
            /\ Len(x.app.open_tabs) \in {Len(w.app.open_tabs), Len(w.app.open_tabs) + 1}
            /\ x.app.open_tabs # <<>>
<1> DEFINE v == PersistIfDirty(w)
           s == SyncActiveTab(v.app)
           x == SelectEntry(w, k)
<1>1. /\ Typed(v, E) /\ PersistFrom(w, v) /\ Len(v.app.open_tabs) = Len(w.app.open_tabs)
      /\ v = w \/ (w.app.valid /\ w.app.dirty)
  BY PersistIfDirtyFacts
<1>2. TypedApp(v.app, E) /\ v.app.requests = w.app.requests /\ v.app.valid = w.app.valid
  BY <1>1 DEF Typed, PersistFrom, SameEditor
<1>3. TypedApp(s, E) /\ s.requests = w.app.requests /\ Len(s.open_tabs) = Len(w.app.open_tabs)
  BY <1>1, <1>2, SyncFacts DEF SameEditor
<1>4. x = SelectRest(v, s, k)
  BY DEF SelectEntry, SelectRest, Opened, FileTab
<1>5. SyncFails(v.app) <=> SyncFails(w.app)
  <2>1. w.app.open_tabs \in Seq(TabE(E)) /\ v.app.open_tabs \in Seq(TabE(E))
    BY <1>2 DEF Typed, TypedApp, AppE
  <2>2. v.app.open_tabs = <<>> <=> w.app.open_tabs = <<>>
    BY <1>1, <2>1
  <2> QED  BY <1>2, <2>2 DEF SyncFails
<1> HIDE DEF s, v, x
<1>6. CASE SyncFails(w.app)
  <2>1. x = v
    BY <1>4, <1>5, <1>6 DEF SelectRest
  <2>2. v = w /\ w.app.open_tabs # <<>>
    BY <1>1, <1>6 DEF SyncFails
  <2> QED  BY <1>1, <1>6, <2>1, <2>2 DEF x, v
<1>7. CASE ~SyncFails(w.app)
  <2>1. k \in 1 .. Len(s.requests) /\ ~SyncFails(v.app)
    BY <1>3, <1>5, <1>7
  <2>2. /\ Typed(SelectRest(v, s, k), E) /\ SelectRest(v, s, k).disk = v.disk
        /\ SelectedFrom(s, v.disk.files, k, SelectRest(v, s, k).app)
        /\ Len(SelectRest(v, s, k).app.open_tabs) \in {Len(s.open_tabs), Len(s.open_tabs) + 1}
        /\ SelectRest(v, s, k).app.open_tabs # <<>>
    BY <1>1, <1>3, <2>1, SelectRestFacts
  <2> QED  BY <1>3, <1>4, <1>7, <2>2 DEF x, v, s
<1> QED  BY <1>6, <1>7

(* A refresh lists the collection, and then opens a draft or selects a file.    *)
Listing1(w) == [w EXCEPT !.app.requests = Listing(w.disk.files, w.app.selected_collection)]

LEMMA ListedFacts ==
  ASSUME NEW E \in Nat, NEW w, Typed(w, E)
  PROVE  LET v == Listing1(w)
         IN /\ Typed(v, E) /\ v.disk = w.disk
            /\ v.app.requests = Listing(w.disk.files, w.app.selected_collection)
            /\ v.app.requests \in Seq(EntryE(E))
            /\ v.app.open_tabs = w.app.open_tabs /\ v.app.active_tab = w.app.active_tab
            /\ v.app.selected_collection = w.app.selected_collection
            /\ v.app.selected_request = w.app.selected_request
            /\ v.app.request_path = w.app.request_path /\ v.app.request = w.app.request
            /\ v.app.valid = w.app.valid /\ v.app.dirty = w.app.dirty
            /\ v.app.recovery_restored = w.app.recovery_restored
            /\ v.app.pending = w.app.pending /\ v.app.response = w.app.response
            /\ v.app.recovery_last_saved = w.app.recovery_last_saved
            /\ v.app.tabs_settings_dirty = w.app.tabs_settings_dirty
<1> DEFINE entries == Listing(w.disk.files, w.app.selected_collection)
           c == [w.app EXCEPT !.requests = entries]
           v == Listing1(w)
<1>1. /\ w \in [app : AppE(E), disk : DiskE(E)] /\ w.app \in AppE(E)
      /\ w.disk.files \in [Path -> DocE(E) \cup {NoDoc}]
      /\ w.app.selected_collection \in Collections
  BY DEF Typed, DiskE, AppE
<1>2. entries \in Seq(EntryE(E)) /\ Len(entries) <= MaxFiles
  BY <1>1, ListingFacts
<1>3. v = [w EXCEPT !.app = c]
  BY <1>1 DEF Listing1
<1> HIDE DEF entries
<1>4. /\ c \in AppE(E) /\ c.requests = entries
      /\ c.open_tabs = w.app.open_tabs /\ c.active_tab = w.app.active_tab
      /\ c.selected_collection = w.app.selected_collection
      /\ c.selected_request = w.app.selected_request
      /\ c.request_path = w.app.request_path /\ c.request = w.app.request
      /\ c.valid = w.app.valid /\ c.dirty = w.app.dirty
      /\ c.recovery_restored = w.app.recovery_restored
      /\ c.pending = w.app.pending /\ c.response = w.app.response
      /\ c.recovery_last_saved = w.app.recovery_last_saved
      /\ c.tabs_settings_dirty = w.app.tabs_settings_dirty
  BY <1>1, <1>2 DEF AppE
<1> HIDE DEF c, v
<1>5. TypedApp(c, E)
  BY <1>2, <1>4 DEF Typed, TypedApp
<1>6. v.app = c /\ v.disk = w.disk /\ v \in [app : AppE(E), disk : DiskE(E)]
  BY <1>1, <1>3, <1>4
<1>7. Typed(v, E)
  BY <1>5, <1>6 DEF Typed
<1> QED  BY <1>2, <1>4, <1>6, <1>7 DEF v, entries

LEMMA RefreshIs ==
  ASSUME NEW E \in Nat, NEW w, Typed(w, E), NEW preferred
  PROVE  LET v == Listing1(w)
             x == RefreshRequests(w, preferred)
         IN /\ v.app.requests = <<>> => x = OpenDraft(v)
            /\ v.app.requests # <<>> =>
                 \E k \in 1 .. Len(v.app.requests) :
                   /\ x = SelectEntry(v, k)
                   /\ Positions(v.app.requests, preferred) # {} =>
                        v.app.requests[k].path = preferred
<1> DEFINE v == Listing1(w)
           x == RefreshRequests(w, preferred)
           entries == v.app.requests
           k == First(Positions(entries, preferred))
           selected == v.app.selected_request
<1>1. /\ Typed(v, E) /\ entries = Listing(w.disk.files, w.app.selected_collection)
      /\ entries \in Seq(EntryE(E)) /\ Len(entries) <= MaxFiles
      /\ selected = w.app.selected_request /\ selected \in 0 .. MaxFiles
  BY ListedFacts DEF Typed, TypedApp, AppE
<1>2. x = IF entries = <<>> THEN OpenDraft(v)
          ELSE IF k # 0 THEN SelectEntry(v, k)
          ELSE IF selected \in DOMAIN entries THEN SelectEntry(v, selected)
          ELSE SelectEntry(v, 1)
  BY <1>1 DEF RefreshRequests, Listing1
<1>3. /\ k # 0 => k \in 1 .. Len(entries) /\ entries[k].path = preferred
      /\ Positions(entries, preferred) # {} => k # 0
  BY <1>1, PositionsFacts
<1>5. entries # <<>> => 1 \in 1 .. Len(entries)
  BY <1>1
<1>6. DOMAIN entries = 1 .. Len(entries)
  BY <1>1
<1> HIDE DEF v, k, x, entries, selected
<1>7. entries # <<>> =>
        \E j \in 1 .. Len(entries) :
          x = SelectEntry(v, j) /\ (Positions(entries, preferred) # {} => entries[j].path = preferred)
  BY <1>2, <1>3, <1>5, <1>6
<1> QED  BY <1>2, <1>7 DEF v, x, entries

(* save_tabs_settings writes the paths of the tabs that have one.               *)
LEMMA SaveTabsFacts ==
  ASSUME NEW E \in Nat, NEW w, Typed(w, E)
  PROVE  LET v == SaveTabsSettings(w)
             b == SyncActiveTab(w.app)
         IN /\ Typed(v, E) /\ SameEditor(w.app, v.app)
            /\ v.app.recovery_last_saved = w.app.recovery_last_saved
            /\ v.app.open_tabs \in {w.app.open_tabs, b.open_tabs}
            /\ v.disk.files = w.disk.files /\ v.disk.recovery = w.disk.recovery
            /\ \/ v.disk.tabs = w.disk.tabs
               \/ \E ks : /\ \A i \in ks : i \in 1 .. Len(b.open_tabs) /\ b.open_tabs[i].path # NoPath
                          /\ v.disk.tabs.paths = Picked([i \in DOMAIN b.open_tabs |-> b.open_tabs[i].path], ks)
<1> DEFINE b == SyncActiveTab(w.app)
           n == Len(b.open_tabs)
           saved == {i \in DOMAIN b.open_tabs : b.open_tabs[i].path # NoPath}
           s == [i \in DOMAIN b.open_tabs |-> b.open_tabs[i].path]
           v == SaveTabsSettings(w)
           t == [paths |-> Picked(s, saved),
                 active |-> IF saved = {} THEN NoPath ELSE b.open_tabs[b.active_tab].path]
           c == [b EXCEPT !.tabs_settings_dirty = FALSE]
           d == [w.disk EXCEPT !.tabs = t]
<1>1. /\ w \in [app : AppE(E), disk : DiskE(E)] /\ TypedApp(w.app, E) /\ w.disk \in DiskE(E)
  BY DEF Typed
<1>2. /\ TypedApp(b, E) /\ SameEditor(w.app, b)
      /\ b.recovery_last_saved = w.app.recovery_last_saved
  BY <1>1, SyncFacts
<1>3. /\ b.open_tabs \in Seq(TabE(E)) /\ n \in Nat /\ DOMAIN b.open_tabs = 1 .. n /\ b \in AppE(E)
  BY <1>2 DEF TypedApp, AppE
<1>4. CASE ~w.app.tabs_settings_dirty \/ SyncFails(w.app)
  <2>1. v = w
    BY <1>4 DEF SaveTabsSettings
  <2> QED  BY <2>1 DEF SameEditor
<1>5. CASE ~(~w.app.tabs_settings_dirty \/ SyncFails(w.app))
  <2>1. v = [app |-> c, disk |-> d]
    BY <1>5 DEF SaveTabsSettings
  <2>2. \A i \in saved : i \in 1 .. n /\ b.open_tabs[i].path # NoPath /\ s[i] \in Path
                         /\ b.open_tabs[i].path \in Path
    <3> SUFFICES ASSUME NEW i \in saved
        PROVE  i \in 1 .. n /\ b.open_tabs[i].path # NoPath /\ s[i] \in Path
               /\ b.open_tabs[i].path \in Path
      OBVIOUS
    <3>1. i \in 1 .. n /\ b.open_tabs[i].path # NoPath
      BY <1>3
    <3>2. b.open_tabs[i] \in TabE(E)
      BY <1>3, <3>1
    <3>3. b.open_tabs[i].path \in Path \cup {NoPath}
      BY <3>2 DEF TabE
    <3>4. s[i] = b.open_tabs[i].path
      BY <1>3, <3>1
    <3> QED  BY <3>1, <3>3, <3>4
  <2>3. saved # {} => b.open_tabs[b.active_tab].path \in Path \cup {NoPath}
    <3>1. ASSUME saved # {} PROVE b.open_tabs[b.active_tab] \in TabE(E)
      <4>1. b.open_tabs # <<>>
        BY <1>3, <3>1
      <4> QED  BY <1>2, <1>3, <4>1 DEF TypedApp
    <3> QED  BY <3>1 DEF TabE
  <2> HIDE DEF s, saved, b
  <2>4. Picked(s, saved) \in Seq(Path)
    <3>1. /\ \A i \in saved : i \in 1 .. n
          /\ \A i \in saved : s[i] \in Path
      BY <2>2
    <3> HIDE DEF n
    <3> QED  BY <1>3, <3>1, PickedIsSequence
  <2>5. t \in [paths : Seq(Path), active : Path \cup {NoPath}] /\ t.paths = Picked(s, saved)
    BY <2>3, <2>4
  <2> HIDE DEF t
  <2>6. /\ d \in DiskE(E) /\ d.files = w.disk.files /\ d.recovery = w.disk.recovery /\ d.tabs = t
    BY <1>1, <2>5 DEF DiskE
  <2>7. /\ c \in AppE(E) /\ SameEditor(b, c) /\ c.recovery_last_saved = b.recovery_last_saved
        /\ c.open_tabs = b.open_tabs
    BY <1>3 DEF AppE, SameEditor
  <2> HIDE DEF c, d, v
  <2>8. v.app = c /\ v.disk = d /\ v \in [app : AppE(E), disk : DiskE(E)]
    BY <2>1, <2>6, <2>7
  <2>9. TypedApp(c, E)
    BY <1>2, <2>7 DEF TypedApp, SameEditor
  <2>10. Typed(v, E)
    BY <2>6, <2>8, <2>9 DEF Typed
  <2>11. SameEditor(w.app, c)
    BY <1>2, <2>7 DEF SameEditor
  <2>12. \E ks : /\ \A i \in ks : i \in 1 .. Len(b.open_tabs) /\ b.open_tabs[i].path # NoPath
                 /\ v.disk.tabs.paths = Picked([i \in DOMAIN b.open_tabs |-> b.open_tabs[i].path], ks)
    BY <2>2, <2>5, <2>6, <2>8 DEF s
  <2> QED  BY <1>2, <2>6, <2>7, <2>8, <2>10, <2>11, <2>12 DEF v, b
<1> QED  BY <1>4, <1>5

LEMMA SyncTyped ==
  ASSUME NEW E \in Nat, NEW w, Typed(w, E)
  PROVE  LET v == [w EXCEPT !.app = SyncActiveTab(@)]
         IN Typed(v, E) /\ v.app = SyncActiveTab(w.app) /\ v.disk = w.disk
<1> DEFINE b == SyncActiveTab(w.app)
           v == [w EXCEPT !.app = SyncActiveTab(@)]
<1>1. TypedApp(b, E) /\ w \in [app : AppE(E), disk : DiskE(E)] /\ b \in AppE(E)
  BY SyncFacts DEF Typed, TypedApp
<1>2. v = [w EXCEPT !.app = b]
  BY <1>1
<1> HIDE DEF b, v
<1>3. v.app = b /\ v.disk = w.disk /\ v \in [app : AppE(E), disk : DiskE(E)]
  BY <1>1, <1>2
<1>4. Typed(v, E)
  BY <1>1, <1>3 DEF Typed
<1> QED  BY <1>3, <1>4 DEF b, v

LEMMA EndOfFrameTyped ==
  ASSUME NEW E \in Nat, NEW w, Typed(w, E), Len(w.app.open_tabs) <= MaxTabs
  PROVE  /\ Typed(EndOfFrame(w), E) /\ SameEditor(w.app, EndOfFrame(w).app)
         /\ Len(EndOfFrame(w).app.open_tabs) = Len(w.app.open_tabs)
<1> DEFINE u == [w EXCEPT !.app = SyncActiveTab(@)]
           v == SaveTabsSettings(u)
           x == EndOfFrame(w)
<1>1. Typed(u, E) /\ u.app = SyncActiveTab(w.app)
  BY SyncTyped
<1>2. SameEditor(w.app, u.app) /\ Len(u.app.open_tabs) = Len(w.app.open_tabs)
  BY <1>1, SyncFacts DEF Typed
<1>8. x = IF RecoveryDue(v) THEN PersistRecovery(v) ELSE v
  BY DEF EndOfFrame
<1> HIDE DEF u
<1>3. /\ Typed(v, E) /\ SameEditor(u.app, v.app)
      /\ v.app.open_tabs \in {u.app.open_tabs, SyncActiveTab(u.app).open_tabs}
  BY <1>1, SaveTabsFacts
<1>4. Len(SyncActiveTab(u.app).open_tabs) = Len(u.app.open_tabs)
  BY <1>1, SyncFacts DEF Typed
<1>5. Len(v.app.open_tabs) = Len(w.app.open_tabs)
  BY <1>2, <1>3, <1>4
<1> HIDE DEF v, x
<1>6. /\ Typed(PersistRecovery(v), E) /\ SameEditor(v.app, PersistRecovery(v).app)
      /\ PersistRecovery(v).app.open_tabs \in {v.app.open_tabs, SyncActiveTab(v.app).open_tabs}
  BY <1>3, <1>5, PersistFacts DEF PersistFrom
<1>7. Len(SyncActiveTab(v.app).open_tabs) = Len(v.app.open_tabs)
  BY <1>3, SyncFacts DEF Typed
<1> QED  BY <1>2, <1>3, <1>5, <1>6, <1>7, <1>8 DEF SameEditor, x

-----------------------------------------------------------------------------
(* What each command leaves for the rest of its frame.                         *)
EditWorld(v) ==
  [world EXCEPT !.app = [app EXCEPT !.request.edit = edits + 1, !.valid = v, !.dirty = TRUE]]
SwitchWorld(i) ==
  LET v == PersistIfDirty(world)
  IN IF SyncFails(v.app) THEN v
     ELSE SettingsChanged([v EXCEPT !.app = ShowTab(SyncActiveTab(@), disk.files, i)])
CloseWorld(i) ==
  LET rest == RemoveAt(app.open_tabs, i)
      left == [app EXCEPT !.open_tabs = rest]
      empty == ResetNewRequest([left EXCEPT !.active_tab = 1])
      next == IF i < app.active_tab THEN app.active_tab - 1
              ELSE Min({app.active_tab, Len(rest)})
  IN IF rest = <<>>
     THEN SettingsChanged([world EXCEPT
            !.app = [empty EXCEPT !.open_tabs = <<CurrentTab(empty)>>]])
     ELSE SettingsChanged([world EXCEPT !.app = ShowTab(left, disk.files, next)])
CloseOthersWorld ==
  SettingsChanged([world EXCEPT
    !.app.open_tabs = <<app.open_tabs[app.active_tab]>>, !.app.active_tab = 1])
MoveWorld(target) ==
  LET moved == [app.open_tabs EXCEPT ![target] = app.open_tabs[app.active_tab],
                                     ![app.active_tab] = app.open_tabs[target]]
  IN SettingsChanged([world EXCEPT
       !.app = [app EXCEPT !.open_tabs = moved, !.active_tab = target]])
ImportWorld == [world EXCEPT !.app = ResetNewRequest(@)]
SelectedWorld(c) == [world EXCEPT !.app.selected_collection = c]
CollectionWorld(c) ==
  IF RefreshFails(SelectedWorld(c)) THEN SelectedWorld(c)
  ELSE RefreshRequests(SelectedWorld(c), NoPath)
Found(id) == {p \in Path : disk.files[p].id = id}
HistoryCollection(id) == Min({p[1] : p \in Found(id)})
HistoryListing(id) == Listing(disk.files, HistoryCollection(id))
ListedWorld(id) ==
  [world EXCEPT !.app.selected_collection = HistoryCollection(id),
                !.app.requests = HistoryListing(id)]
HistoryWorld(id) ==
  SelectEntry(ListedWorld(id),
              Min({k \in DOMAIN HistoryListing(id) : HistoryListing(id)[k].doc.id = id}))
SavedWorld(p) ==
  LET moved == [q \in Path |-> IF q = p THEN app.request
                               ELSE IF q = app.request_path THEN NoDoc ELSE disk.files[q]]
      a == SyncActiveTab([Saved(app) EXCEPT !.request_path = p, !.dirty = FALSE,
                                            !.recovery_restored = FALSE])
  IN SettingsChanged([app |-> a,
       disk |-> [disk EXCEPT !.files = moved, !.recovery = NoSnapshot]])
SaveWorld(p) ==
  IF app.request_path \notin {p, NoPath} /\ disk.files[app.request_path] = NoDoc THEN world
  ELSE IF RefreshFails(SavedWorld(p)) THEN SavedWorld(p) ELSE RefreshRequests(SavedWorld(p), p)
CopiedWorld(p) == [world EXCEPT !.disk.files[p] = [NewDoc EXCEPT !.edit = app.request.edit]]
DuplicateWorld(p) ==
  LET v == RefreshRequests(CopiedWorld(p), p)
      a == SyncActiveTab([Saved(v.app) EXCEPT !.dirty = FALSE, !.recovery_restored = FALSE])
  IN IF RefreshFails(CopiedWorld(p)) THEN CopiedWorld(p)
     ELSE SettingsChanged(RemoveRecovery([v EXCEPT !.app = a]))
DeletedWorld ==
  LET path == app.request_path
      i == First({j \in DOMAIN app.open_tabs : app.open_tabs[j].path = path})
      rest == IF i = 0 THEN app.open_tabs ELSE RemoveAt(app.open_tabs, i)
      shifted == IF i # 0 /\ i < app.active_tab THEN app.active_tab - 1 ELSE app.active_tab
      left == [app EXCEPT !.open_tabs = rest,
                 !.active_tab = Max({1, Min({shifted, Len(rest)})}),
                 !.selected_request = 0, !.request_path = NoPath]
  IN [app |-> left, disk |-> [disk EXCEPT !.files[path] = NoDoc]]
DeleteWorld ==
  LET v == RefreshRequests(DeletedWorld, NoPath)
  IN IF RefreshFails(DeletedWorld) THEN DeletedWorld
     ELSE SettingsChanged(RemoveRecovery([v EXCEPT
            !.app = [Saved(@) EXCEPT !.recovery_restored = FALSE]]))
DiscardWorld ==
  LET rest == Picked(app.open_tabs, {i \in DOMAIN app.open_tabs : ~app.open_tabs[i].recovered})
      before == {i \in 1 .. app.active_tab - 1 : app.open_tabs[i].recovered}
      left == [Saved(app) EXCEPT !.open_tabs = rest, !.recovery_restored = FALSE]
      empty == ResetNewRequest([left EXCEPT !.active_tab = 1])
      next == Min({app.active_tab - Cardinality(before), Len(rest)})
  IN SettingsChanged(RemoveRecovery([world EXCEPT
       !.app = IF rest = <<>> THEN [empty EXCEPT !.open_tabs = <<CurrentTab(empty)>>]
               ELSE ShowTab(left, disk.files, next)]))
SendWorld == [world EXCEPT !.app = [ClearResponse(app) EXCEPT !.pending = app.request.id]]
PollWorld(answer) == [world EXCEPT !.app = [app EXCEPT !.pending = 0, !.response = answer]]

(* The worlds that a command can leave, with its guard.                        *)
Leaves(w) ==
  \/ w = world
  \/ \E i \in 1 .. MaxTabs : i \in DOMAIN app.open_tabs /\ i # app.active_tab /\ w = SwitchWorld(i)
  \/ \E i \in 1 .. MaxTabs :
       /\ i \in DOMAIN app.open_tabs /\ ~app.open_tabs[i].dirty
       /\ RemoveAt(app.open_tabs, i) = <<>> => MayCreate
       /\ w = CloseWorld(i)
  \/ /\ Len(app.open_tabs) > 1
     /\ \A i \in DOMAIN app.open_tabs : i # app.active_tab => ~app.open_tabs[i].dirty
     /\ w = CloseOthersWorld
  \/ \E t \in 1 .. MaxTabs :
       /\ t \in DOMAIN app.open_tabs /\ t \in {app.active_tab - 1, app.active_tab + 1}
       /\ w = MoveWorld(t)
  \/ MayCreate /\ w = OpenDraft(world)
  \/ \E k \in 1 .. MaxFiles :
       k \in DOMAIN app.requests /\ Len(app.open_tabs) < MaxTabs /\ w = SelectEntry(world, k)
  \/ \E c \in Collections : MayCreate /\ w = CollectionWorld(c)
  \/ \E p \in Path :
       /\ unreadable = {} /\ disk.files[p] # NoDoc /\ MayCreate
       /\ w = RefreshRequests(SelectedWorld(p[1]), p)
  \/ \E id \in Ids :
       /\ Found(id) # {} /\ Len(app.open_tabs) < MaxTabs
       /\ \A b \in 1 .. HistoryCollection(id) : b \notin unreadable
       /\ w = HistoryWorld(id)
  \/ \E p \in Targets(app.selected_collection, app.request_path) :
       app.valid /\ MayCreate /\ w = SaveWorld(p)
  \/ \E p \in Targets(app.selected_collection, NoPath) :
       app.request_path # NoPath /\ app.valid /\ MayCreate /\ w = DuplicateWorld(p)
  \/ app.recovery_restored /\ MayCreate /\ w = DiscardWorld
  \/ app.pending = 0 /\ app.valid /\ w = SendWorld
  \/ \E answer \in {app.pending, app.response} : app.pending # 0 /\ w = PollWorld(answer)
Imports(w) == Ids \ UsedIds # {} /\ w = ImportWorld
Deletes(w) ==
  /\ app.request_path # NoPath /\ disk.files[app.request_path] # NoDoc /\ MayCreate
  /\ w = DeleteWorld
Edits(w) == edits < MaxEdits /\ \E v \in BOOLEAN : w = EditWorld(v)

Gives(w, new) ==
  \/ new = {} /\ (Leaves(w) \/ Imports(w) \/ Deletes(w))
  \/ new = {edits + 1} /\ Edits(w)

LEMMA CommandGives ==
  ASSUME NEW w, Command(w), commands \in 0 .. MaxCommands
  PROVE  commands' \in 0 .. MaxCommands /\ Frame(w, {})
BY DesktopAssumption DEF Command

LEMMA CommandCases ==
  ASSUME TabCommand, commands \in 0 .. MaxCommands
  PROVE  /\ commands' \in 0 .. MaxCommands
         /\ \E w, new :
              /\ Frame(w, new)
              /\ \/ new = {} /\ Leaves(w)
                 \/ new = {} /\ Imports(w) /\ ImportCurl
                 \/ new = {} /\ Deletes(w) /\ DeleteCurrent
                 \/ new = {edits + 1} /\ Edits(w)
<1> DEFINE C(w) == Leaves(w) \/ (Imports(w) /\ ImportCurl) \/ (Deletes(w) /\ DeleteCurrent)
<1>0. ASSUME NEW w, Command(w), C(w)
      PROVE  /\ commands' \in 0 .. MaxCommands
             /\ \E v, new :
                  /\ Frame(v, new)
                  /\ \/ new = {} /\ Leaves(v)
                     \/ new = {} /\ Imports(v) /\ ImportCurl
                     \/ new = {} /\ Deletes(v) /\ DeleteCurrent
                     \/ new = {edits + 1} /\ Edits(v)
  BY <1>0, CommandGives
<1>1. CASE IdleFrame
  <2>1. Frame(world, {}) /\ commands' = commands /\ Leaves(world)
    BY <1>1 DEF IdleFrame, Leaves
  <2> QED  BY <2>1
<1>2. CASE Edit
  <2>1. PICK v \in BOOLEAN : Frame(EditWorld(v), {edits + 1})
    BY <1>2 DEF Edit, EditWorld
  <2>2. Edits(EditWorld(v)) /\ commands' \in 0 .. MaxCommands
    BY <1>2, <2>1, DesktopAssumption DEF Edit, Edits
  <2> QED  BY <2>1, <2>2
<1>3. CASE CloseOtherTabs
  <2>1. Command(CloseOthersWorld) /\ Leaves(CloseOthersWorld)
    BY <1>3 DEF CloseOtherTabs, CloseOthersWorld, Leaves
  <2> QED  BY <1>0, <2>1
<1>4. CASE NewRequest
  <2>1. Command(OpenDraft(world)) /\ Leaves(OpenDraft(world))
    BY <1>4 DEF NewRequest, Leaves
  <2> QED  BY <1>0, <2>1
<1>5. CASE ImportCurl
  <2>1. Command(ImportWorld) /\ Imports(ImportWorld)
    BY <1>5 DEF ImportCurl, Imports, ImportWorld
  <2> QED  BY <1>0, <1>5, <2>1
<1>6. CASE SaveCurrent
  <2>1. PICK p \in Targets(app.selected_collection, app.request_path) : Command(SaveWorld(p))
    BY <1>6 DEF SaveCurrent, SaveWorld, SavedWorld
  <2>2. Leaves(SaveWorld(p))
    BY <1>6, <2>1 DEF SaveCurrent, Leaves
  <2> QED  BY <1>0, <2>1, <2>2
<1>7. CASE DuplicateCurrent
  <2>1. PICK p \in Targets(app.selected_collection, NoPath) : Command(DuplicateWorld(p))
    BY <1>7 DEF DuplicateCurrent, DuplicateWorld, CopiedWorld
  <2>2. Leaves(DuplicateWorld(p))
    BY <1>7, <2>1 DEF DuplicateCurrent, Leaves
  <2> QED  BY <1>0, <2>1, <2>2
<1>8. CASE DeleteCurrent
  <2>1. Command(DeleteWorld)
    BY <1>8 DEF DeleteCurrent, DeleteWorld, DeletedWorld
  <2>2. Deletes(DeleteWorld)
    BY <1>8 DEF DeleteCurrent, Deletes
  <2> QED  BY <1>0, <1>8, <2>1, <2>2
<1>9. CASE DiscardRecovery
  <2>1. Command(DiscardWorld)
    BY <1>9 DEF DiscardRecovery, DiscardWorld
  <2>2. Leaves(DiscardWorld)
    BY <1>9 DEF DiscardRecovery, Leaves
  <2> QED  BY <1>0, <2>1, <2>2
<1>10. ASSUME NEW i \in 1 .. MaxTabs, SwitchToTab(i)
       PROVE  Command(SwitchWorld(i)) /\ Leaves(SwitchWorld(i))
  BY <1>10 DEF SwitchToTab, SwitchWorld, Leaves
<1>11. ASSUME NEW i \in 1 .. MaxTabs, CloseTab(i)
       PROVE  Command(CloseWorld(i)) /\ Leaves(CloseWorld(i))
  <2>1. Command(CloseWorld(i))
    BY <1>11 DEF CloseTab, CloseWorld
  <2>2. Leaves(CloseWorld(i))
    BY <1>11 DEF CloseTab, Leaves
  <2> QED  BY <2>1, <2>2
<1>12. ASSUME NEW t \in 1 .. MaxTabs, MoveActiveTab(t)
       PROVE  Command(MoveWorld(t)) /\ Leaves(MoveWorld(t))
  BY <1>12 DEF MoveActiveTab, MoveWorld, Leaves
<1>13. ASSUME NEW k \in 1 .. MaxFiles, SelectRequest(k)
       PROVE  Command(SelectEntry(world, k)) /\ Leaves(SelectEntry(world, k))
  BY <1>13 DEF SelectRequest, Leaves
<1>14. ASSUME NEW c \in Collections, SelectCollection(c)
       PROVE  Command(CollectionWorld(c)) /\ Leaves(CollectionWorld(c))
  BY <1>14 DEF SelectCollection, CollectionWorld, SelectedWorld, Leaves
<1>15. ASSUME NEW p \in Path, OpenSearchResult(p)
       PROVE  /\ Command(RefreshRequests(SelectedWorld(p[1]), p))
              /\ Leaves(RefreshRequests(SelectedWorld(p[1]), p))
  BY <1>15 DEF OpenSearchResult, SelectedWorld, Leaves
<1>16. ASSUME NEW id \in Ids, ReopenHistory(id)
       PROVE  Command(HistoryWorld(id)) /\ Leaves(HistoryWorld(id))
  <2>1. Command(HistoryWorld(id))
    BY <1>16 DEF ReopenHistory, HistoryWorld, ListedWorld, HistoryListing, HistoryCollection, Found
  <2>2. /\ Found(id) # {} /\ Len(app.open_tabs) < MaxTabs
        /\ \A b \in 1 .. HistoryCollection(id) : b \notin unreadable
    BY <1>16 DEF ReopenHistory, HistoryCollection, Found
  <2> QED  BY <2>1, <2>2 DEF Leaves
<1>17. CASE SendCurrent
  <2>1. Command(SendWorld) /\ Leaves(SendWorld)
    BY <1>17 DEF SendCurrent, SendWorld, Leaves
  <2> QED  BY <1>0, <2>1
<1>18. CASE PollPending
  <2>1. PICK answer \in {app.pending, app.response} : Command(PollWorld(answer))
    BY <1>18 DEF PollPending, PollWorld
  <2>2. Leaves(PollWorld(answer))
    BY <1>18, <2>1 DEF PollPending, Leaves
  <2> QED  BY <1>0, <2>1, <2>2
<1> HIDE DEF C
<1>19. ASSUME NEW w, Command(w), Leaves(w)
       PROVE  C(w)
  BY <1>19 DEF C
<1> QED
  <2>1. CASE \E i \in 1 .. MaxTabs : SwitchToTab(i) \/ CloseTab(i) \/ MoveActiveTab(i)
    BY <1>0, <1>10, <1>11, <1>12, <1>19, <2>1
  <2>2. CASE \E k \in 1 .. MaxFiles : SelectRequest(k)
    BY <1>0, <1>13, <1>19, <2>2
  <2>3. CASE \E c \in Collections : SelectCollection(c)
    BY <1>0, <1>14, <1>19, <2>3
  <2>4. CASE \E p \in Path : OpenSearchResult(p)
    BY <1>0, <1>15, <1>19, <2>4
  <2>5. CASE \E id \in Ids : ReopenHistory(id)
    BY <1>0, <1>16, <1>19, <2>5
  <2> QED  BY <1>1, <1>2, <1>3, <1>4, <1>5, <1>6, <1>7, <1>8, <1>9, <1>17, <1>18,
              <2>1, <2>2, <2>3, <2>4, <2>5 DEF TabCommand

-----------------------------------------------------------------------------
(* What every command leaves: typed fields, tabs within the bound, a request in *)
(* the editor, and no answer to another one.                                   *)
Answers(a) == a.response \in {0, a.request.id} /\ a.pending \in {0, a.request.id}
Whole(w, E) ==
  /\ Typed(w, E) /\ Len(w.app.open_tabs) <= MaxTabs /\ w.app.request \in DocE(E)
  /\ Answers(w.app)

SameButSaved(a, b) == SameEditor(a, b) /\ b.open_tabs = a.open_tabs

LEMMA SettingsFacts ==
  ASSUME NEW E \in Nat, NEW w, Typed(w, E)
  PROVE  LET v == SettingsChanged(w)
         IN /\ Typed(v, E) /\ v.disk = w.disk /\ SameButSaved(w.app, v.app)
            /\ v.app.recovery_last_saved = w.app.recovery_last_saved
<1> DEFINE c == [w.app EXCEPT !.tabs_settings_dirty = TRUE]
           v == SettingsChanged(w)
<1>1. w \in [app : AppE(E), disk : DiskE(E)] /\ w.app \in AppE(E) /\ TypedApp(w.app, E)
  BY DEF Typed
<1>2. v = [w EXCEPT !.app = c]
  BY <1>1 DEF SettingsChanged
<1>3. /\ c \in AppE(E) /\ SameButSaved(w.app, c)
      /\ c.recovery_last_saved = w.app.recovery_last_saved
  BY <1>1 DEF AppE, SameButSaved, SameEditor
<1> HIDE DEF c, v
<1>4. v.app = c /\ v.disk = w.disk /\ v \in [app : AppE(E), disk : DiskE(E)]
  BY <1>1, <1>2, <1>3
<1>5. TypedApp(c, E)
  BY <1>1, <1>3 DEF TypedApp, SameButSaved, SameEditor
<1> QED  BY <1>3, <1>4, <1>5 DEF Typed, v

LEMMA RemoveRecoveryFacts ==
  ASSUME NEW E \in Nat, NEW w, Typed(w, E)
  PROVE  LET v == RemoveRecovery(w)
         IN /\ Typed(v, E) /\ v.app = w.app /\ v.disk.files = w.disk.files
            /\ v.disk.tabs = w.disk.tabs /\ v.disk.recovery.drafts = <<>>
<1> DEFINE d == [w.disk EXCEPT !.recovery = NoSnapshot]
           v == RemoveRecovery(w)
<1>1. /\ w \in [app : AppE(E), disk : DiskE(E)] /\ w.disk \in DiskE(E) /\ TypedApp(w.app, E)
  BY DEF Typed
<1>2. v = [w EXCEPT !.disk = d]
  BY <1>1 DEF RemoveRecovery
<1>3. /\ NoSnapshot \in [drafts : Seq(DraftE(E)), active : 0 .. MaxTabs]
      /\ NoSnapshot.drafts = <<>>
  BY DesktopAssumption DEF NoSnapshot
<1>4. /\ d \in DiskE(E) /\ d.files = w.disk.files /\ d.tabs = w.disk.tabs
      /\ d.recovery = NoSnapshot
  BY <1>1, <1>3 DEF DiskE
<1> HIDE DEF d, v
<1>5. v.app = w.app /\ v.disk = d /\ v \in [app : AppE(E), disk : DiskE(E)]
  BY <1>1, <1>2, <1>4
<1> QED  BY <1>1, <1>3, <1>4, <1>5 DEF Typed, v

LEMMA AppWorld ==
  ASSUME NEW E \in Nat, NEW w, Typed(w, E), NEW b, TypedApp(b, E)
  PROVE  /\ Typed([w EXCEPT !.app = b], E)
         /\ [w EXCEPT !.app = b].app = b /\ [w EXCEPT !.app = b].disk = w.disk
<1>1. w \in [app : AppE(E), disk : DiskE(E)] /\ b \in AppE(E)
  BY DEF Typed, TypedApp
<1>2. [w EXCEPT !.app = b].app = b /\ [w EXCEPT !.app = b].disk = w.disk
      /\ [w EXCEPT !.app = b] \in [app : AppE(E), disk : DiskE(E)]
  BY <1>1
<1> QED  BY <1>2 DEF Typed

LEMMA ConcatFacts ==
  ASSUME NEW S, NEW p \in Seq(S), NEW q \in Seq(S)
  PROVE  /\ p \o q \in Seq(S) /\ Len(p \o q) = Len(p) + Len(q)
         /\ Len(p) \in Nat /\ Len(q) \in Nat
         /\ \A k \in 1 .. Len(p) + Len(q) :
              (p \o q)[k] = IF k <= Len(p) THEN p[k] ELSE q[k - Len(p)]
OBVIOUS

LEMMA RemoveAtFacts ==
  ASSUME NEW S, NEW s \in Seq(S), NEW i \in 1 .. Len(s)
  PROVE  LET r == RemoveAt(s, i)
         IN /\ r \in Seq(S) /\ Len(r) = Len(s) - 1 /\ Len(s) \in Nat
            /\ \A j \in 1 .. Len(r) : r[j] = IF j < i THEN s[j] ELSE s[j + 1]
            /\ r = <<>> <=> Len(s) = 1
<1> DEFINE n == Len(s)
           p == SubSeq(s, 1, i - 1)
           q == SubSeq(s, i + 1, n)
           r == RemoveAt(s, i)
<1>1. n \in Nat /\ i \in 1 .. n /\ i \in Int /\ n >= 1
  OBVIOUS
<1>2. p \in Seq(S) /\ Len(p) = i - 1 /\ \A j \in 1 .. i - 1 : p[j] = s[j]
  BY <1>1
<1>3. q \in Seq(S) /\ Len(q) = n - i /\ \A j \in 1 .. n - i : q[j] = s[i + j]
  BY <1>1
<1>4. r = p \o q
  BY DEF RemoveAt
<1> HIDE DEF p, q, r, n
<1>5. r \in Seq(S) /\ Len(r) = n - 1
  <2>1. r \in Seq(S) /\ Len(r) = Len(p) + Len(q)
    BY <1>2, <1>3, <1>4, ConcatFacts
  <2>2. Len(p) + Len(q) = n - 1
    <3>1. Len(p) = i - 1 /\ Len(q) = n - i
      BY <1>2, <1>3
    <3> QED  BY <1>1, <3>1
  <2> QED  BY <2>1, <2>2
<1>6. ASSUME NEW j \in 1 .. n - 1
      PROVE  r[j] = IF j < i THEN s[j] ELSE s[j + 1]
  <2>1. \A k \in 1 .. Len(p) + Len(q) :
          (p \o q)[k] = IF k <= Len(p) THEN p[k] ELSE q[k - Len(p)]
    BY <1>2, <1>3, ConcatFacts
  <2>2. r[j] = IF j <= i - 1 THEN p[j] ELSE q[j - (i - 1)]
    <3>1. j \in 1 .. Len(p) + Len(q) /\ Len(p) = i - 1
      <4>1. Len(p) = i - 1 /\ Len(q) = n - i
        BY <1>2, <1>3
      <4> QED  BY <1>1, <4>1
    <3> QED  BY <1>4, <2>1, <3>1
  <2>3. CASE j < i
    <3>1. j \in 1 .. i - 1
      BY <1>1, <2>3
    <3> QED  BY <1>2, <2>2, <2>3, <3>1
  <2>4. CASE ~(j < i)
    <3>1. j - (i - 1) \in 1 .. n - i /\ i + (j - (i - 1)) = j + 1
      BY <1>1, <2>4
    <3>2. ~(j <= i - 1)
      BY <1>1, <2>4
    <3> QED  BY <1>3, <2>2, <2>4, <3>1, <3>2
  <2> QED  BY <2>3, <2>4
<1>7. r = <<>> <=> n = 1
  BY <1>1, <1>5
<1> QED  BY <1>1, <1>5, <1>6, <1>7 DEF n, r

LEMMA WholeSelect ==
  ASSUME NEW E \in Nat, NEW w, Typed(w, E), Len(w.app.open_tabs) < MaxTabs,
         SyncFails(w.app) => Whole(w, E), NEW k \in 1 .. Len(w.app.requests)
  PROVE  Whole(SelectEntry(w, k), E)
<1> DEFINE v == PersistIfDirty(w)
           s == SyncActiveTab(v.app)
           x == SelectEntry(w, k)
<1>0. w.app.open_tabs \in Seq(TabE(E)) /\ MaxTabs \in Nat /\ Len(w.app.open_tabs) <= MaxTabs
  BY DesktopAssumption DEF Typed, TypedApp, AppE
<1>1. /\ Typed(x, E) /\ SyncFails(w.app) => x = w
      /\ ~SyncFails(w.app) => SelectedFrom(s, v.disk.files, k, x.app)
      /\ Len(x.app.open_tabs) \in {Len(w.app.open_tabs), Len(w.app.open_tabs) + 1}
      /\ x.app.open_tabs # <<>>
  BY <1>0, SelectEntryFacts
<1>5. /\ Typed(x, E)
      /\ SyncFails(w.app) => x = w
      /\ Len(x.app.open_tabs) \in {Len(w.app.open_tabs), Len(w.app.open_tabs) + 1}
      /\ x.app.open_tabs # <<>>
  BY <1>0, SelectEntryFacts
<1> HIDE DEF x, s, v
<1>2. Len(x.app.open_tabs) <= MaxTabs /\ x.app.request \in DocE(E)
  <2>1. Len(w.app.open_tabs) \in Nat
    BY <1>0
  <2>2. x.app.request \in DocE(E)
    BY <1>5 DEF Typed, TypedApp
  <2> QED  BY <1>0, <1>5, <2>1, <2>2
<1>3. ~SyncFails(w.app) => Answers(x.app)
  <2>1. ASSUME SelectedFrom(s, v.disk.files, k, x.app) PROVE Answers(x.app)
    BY <2>1 DEF SelectedFrom, Shows, Answers
  <2> QED  BY <1>1, <2>1
<1> QED  BY <1>2, <1>3, <1>5 DEF Whole, x

LEMMA WholeDraft ==
  ASSUME NEW E \in Nat, NEW w, Typed(w, E), Len(w.app.open_tabs) < MaxTabs,
         NewDoc \in DocE(E)
  PROVE  Whole(OpenDraft(w), E)
<1> DEFINE s == SyncActiveTab(PersistIfDirty(w).app)
           x == OpenDraft(w)
           tab == DraftTab(w.app.selected_collection)
<1>0. w.app.open_tabs \in Seq(TabE(E)) /\ MaxTabs \in Nat /\ Len(w.app.open_tabs) <= MaxTabs
      /\ Len(w.app.open_tabs) \in Nat
  BY DesktopAssumption DEF Typed, TypedApp, AppE
<1>1. /\ Typed(x, E) /\ OpensTab(s, x.app, tab)
      /\ Len(x.app.open_tabs) = Len(w.app.open_tabs) + 1
  BY <1>0, OpenDraftFacts
<1> HIDE DEF x, s
<1>2. x.app.request = NewDoc /\ x.app.pending = 0 /\ x.app.response = 0
  BY <1>1 DEF OpensTab, DraftTab
<1> QED  BY <1>0, <1>1, <1>2 DEF Whole, Answers, x

LEMMA WholeRefresh ==
  ASSUME NEW E \in Nat, NEW w, Typed(w, E), Len(w.app.open_tabs) < MaxTabs,
         SyncFails(w.app) => Whole(w, E), NewDoc \in DocE(E), NEW preferred
  PROVE  Whole(RefreshRequests(w, preferred), E)
<1> DEFINE v == Listing1(w)
           x == RefreshRequests(w, preferred)
<1>1. /\ Typed(v, E) /\ v.app.open_tabs = w.app.open_tabs /\ v.app.valid = w.app.valid
      /\ v.app.request = w.app.request /\ v.app.pending = w.app.pending
      /\ v.app.response = w.app.response
  BY ListedFacts
<1>2. /\ v.app.requests = <<>> => x = OpenDraft(v)
      /\ v.app.requests # <<>> => \E k \in 1 .. Len(v.app.requests) : x = SelectEntry(v, k)
  BY RefreshIs
<1> HIDE DEF v, x
<1>3. SyncFails(v.app) => Whole(v, E)
  BY <1>1 DEF SyncFails, Whole, Answers
<1>4. CASE v.app.requests = <<>>
  BY <1>1, <1>2, <1>4, WholeDraft DEF x
<1>5. CASE v.app.requests # <<>>
  <2>1. PICK k \in 1 .. Len(v.app.requests) : x = SelectEntry(v, k)
    BY <1>2, <1>5
  <2> QED  BY <1>1, <1>3, <2>1, WholeSelect DEF x
<1> QED  BY <1>4, <1>5

(* The last tab closed or discarded leaves a draft in its place.               *)
FreshDraft(a, b) ==
  /\ b.open_tabs = <<DraftTab(a.selected_collection)>> /\ b.active_tab = 1
  /\ b.selected_collection = a.selected_collection /\ b.requests = a.requests
  /\ b.request_path = NoPath /\ b.request = NewDoc /\ b.valid = TRUE /\ b.dirty = TRUE
  /\ b.recovery_restored = FALSE /\ b.pending = 0 /\ b.response = 0
  /\ b.recovery_last_saved = a.recovery_last_saved

LEMMA FreshDraftFacts ==
  ASSUME NEW E \in Nat, NEW a \in AppE(E), Len(a.requests) <= MaxFiles, NewDoc \in DocE(E)
  PROVE  LET empty == ResetNewRequest([a EXCEPT !.active_tab = 1])
             b == [empty EXCEPT !.open_tabs = <<CurrentTab(empty)>>]
         IN TypedApp(b, E) /\ FreshDraft(a, b)
<1> DEFINE c == [a EXCEPT !.active_tab = 1]
           empty == ResetNewRequest(c)
           t == CurrentTab(empty)
           tabs == <<t>>
           b == [empty EXCEPT !.open_tabs = tabs]
<1>1. /\ c \in AppE(E) /\ c.active_tab = 1 /\ c.selected_collection = a.selected_collection
      /\ c.requests = a.requests /\ c.recovery_last_saved = a.recovery_last_saved
  BY DEF AppE
<1> HIDE DEF c
<1>2. empty \in AppE(E) /\ ResetFrom(c, empty)
  BY <1>1, ResetFacts
<1> HIDE DEF empty
<1>3. t = DraftTab(a.selected_collection) /\ t \in TabE(E)
  <2>1. a.selected_collection \in Collections
    BY DEF AppE
  <2>2. t = DraftTab(a.selected_collection)
    BY <1>1, <1>2 DEF ResetFrom, CurrentTab, DraftTab
  <2> QED  BY <2>1, <2>2 DEF DraftTab, TabE
<1> HIDE DEF t
<1>4. tabs \in Seq(TabE(E)) /\ Len(tabs) = 1 /\ tabs # <<>>
  BY <1>3
<1> HIDE DEF tabs, b
<1>5. b = [empty EXCEPT !.open_tabs = tabs]
  BY DEF b
<1>6. /\ b \in AppE(E) /\ b.open_tabs = tabs /\ b.active_tab = empty.active_tab
      /\ b.selected_collection = empty.selected_collection /\ b.requests = empty.requests
      /\ b.request_path = empty.request_path /\ b.request = empty.request
      /\ b.valid = empty.valid /\ b.dirty = empty.dirty
      /\ b.recovery_restored = empty.recovery_restored
      /\ b.pending = empty.pending /\ b.response = empty.response
      /\ b.recovery_last_saved = empty.recovery_last_saved
  BY <1>2, <1>4, <1>5 DEF AppE
<1>7. FreshDraft(a, b)
  BY <1>1, <1>2, <1>3, <1>6 DEF FreshDraft, ResetFrom, tabs
<1>8. TypedApp(b, E)
  <2>1. 1 \in 1 .. Len(tabs)
    BY <1>4
  <2> QED  BY <1>1, <1>2, <1>4, <1>6, <2>1 DEF TypedApp, ResetFrom
<1> QED  BY <1>7, <1>8 DEF b, tabs, t, empty, c

LEMMA WorldIs == world.app = app /\ world.disk = disk
BY DEF world

LEMMA WholeFacts ==
  ASSUME NEW E \in Nat, NEW w, Whole(w, E)
  PROVE  /\ Typed(w, E) /\ TypedApp(w.app, E) /\ w.app \in AppE(E) /\ w.disk \in DiskE(E)
         /\ w \in [app : AppE(E), disk : DiskE(E)]
         /\ w.app.open_tabs \in Seq(TabE(E)) /\ Len(w.app.open_tabs) \in Nat
         /\ DOMAIN w.app.open_tabs = 1 .. Len(w.app.open_tabs)
         /\ Len(w.app.open_tabs) <= MaxTabs /\ w.app.request \in DocE(E) /\ Answers(w.app)
         /\ w.app.requests \in Seq(EntryE(E)) /\ Len(w.app.requests) <= MaxFiles
         /\ w.disk.files \in [Path -> DocE(E) \cup {NoDoc}]
         /\ w.app.selected_collection \in Collections /\ w.app.request_path \in Path \cup {NoPath}
         /\ w.app.open_tabs # <<>> => w.app.active_tab \in 1 .. Len(w.app.open_tabs)
         /\ w.app.open_tabs = <<>> => w.app.active_tab = 1
BY DEF Whole, Typed, TypedApp, AppE, DiskE

(* Fields that are replaced in place.                                          *)
LEMMA WholeWith ==
  ASSUME NEW E \in Nat, NEW w, Whole(w, E), NEW b \in AppE(E),
         b.requests = w.app.requests, b.request \in DocE(E), Answers(b),
         Len(b.open_tabs) <= MaxTabs,
         b.open_tabs # <<>> => b.active_tab \in 1 .. Len(b.open_tabs),
         b.open_tabs = <<>> => b.active_tab = 1
  PROVE  /\ Whole([w EXCEPT !.app = b], E)
         /\ [w EXCEPT !.app = b].app = b /\ [w EXCEPT !.app = b].disk = w.disk
<1>1. TypedApp(b, E)
  BY WholeFacts DEF TypedApp
<1>2. /\ Typed([w EXCEPT !.app = b], E)
      /\ [w EXCEPT !.app = b].app = b /\ [w EXCEPT !.app = b].disk = w.disk
  BY <1>1, WholeFacts, AppWorld
<1> QED  BY <1>2 DEF Whole

LEMMA WholeShown ==
  ASSUME NEW E \in Nat, NEW w, Typed(w, E), NEW a, NEW files, NEW i, TypedApp(w.app, E),
         Shows(a, files, i, w.app), a.open_tabs # <<>>, Len(a.open_tabs) <= MaxTabs
  PROVE  Whole(w, E)
<1>1. w.app.open_tabs = a.open_tabs /\ w.app.pending = 0 /\ w.app.response = 0
  BY DEF Shows
<1> QED  BY <1>1 DEF Whole, Answers, TypedApp

LEMMA TypedGrows ==
  ASSUME NEW E \in Nat, NEW w, Typed(w, E)
  PROVE  Typed(w, E + 1)
<1>1. \A d \in DocE(E) : d \in DocE(E + 1)
  BY DEF DocE
<1>2. /\ \A t \in TabE(E) : t \in TabE(E + 1)
      /\ \A t \in DraftE(E) : t \in DraftE(E + 1)
      /\ \A t \in EntryE(E) : t \in EntryE(E + 1)
  BY <1>1 DEF TabE, DraftE, EntryE
<1>3. /\ \A s \in Seq(TabE(E)) : s \in Seq(TabE(E + 1))
      /\ \A s \in Seq(DraftE(E)) : s \in Seq(DraftE(E + 1))
      /\ \A s \in Seq(EntryE(E)) : s \in Seq(EntryE(E + 1))
  BY <1>2
<1>4. \A a \in AppE(E) : a \in AppE(E + 1)
  BY <1>1, <1>3 DEF AppE
<1>5. \A d \in DiskE(E) : d \in DiskE(E + 1)
  BY <1>1, <1>3 DEF DiskE
<1>6. w \in [app : AppE(E + 1), disk : DiskE(E + 1)]
  BY <1>4, <1>5 DEF Typed
<1> QED  BY <1>1, <1>4, <1>6 DEF Typed, TypedApp

EditedFrom(a, b, e, v) ==
  /\ b.open_tabs = a.open_tabs /\ b.active_tab = a.active_tab
  /\ b.selected_collection = a.selected_collection /\ b.requests = a.requests
  /\ b.request_path = a.request_path /\ b.request.id = a.request.id /\ b.request.edit = e
  /\ b.valid = v /\ b.dirty = TRUE /\ b.recovery_restored = a.recovery_restored
  /\ b.pending = a.pending /\ b.response = a.response
  /\ b.recovery_last_saved = a.recovery_last_saved

LEMMA EditWhole ==
  ASSUME edits \in Nat, Whole(world, edits), NEW v \in BOOLEAN
  PROVE  /\ Whole(EditWorld(v), edits + 1) /\ EditWorld(v).disk = disk
         /\ EditedFrom(app, EditWorld(v).app, edits + 1, v)
<1> DEFINE E == edits + 1
           r == [app.request EXCEPT !.edit = E]
           b == [app EXCEPT !.request = r, !.valid = v, !.dirty = TRUE]
<1>0. E \in Nat
  OBVIOUS
<1>1. Whole(world, E)
  <2>1. Typed(world, E)
    BY WholeFacts, TypedGrows
  <2>2. \A d \in DocE(edits) : d \in DocE(E)
    BY DEF DocE
  <2> QED  BY <2>1, <2>2 DEF Whole
<1>2. /\ app \in AppE(E) /\ app.request \in DocE(E) /\ Answers(app)
      /\ Len(app.open_tabs) <= MaxTabs
      /\ app.open_tabs # <<>> => app.active_tab \in 1 .. Len(app.open_tabs)
      /\ app.open_tabs = <<>> => app.active_tab = 1
  BY <1>0, <1>1, WholeFacts, WorldIs
<1>3. r \in DocE(E) /\ r.id = app.request.id /\ r.edit = E
  BY <1>0, <1>2 DEF DocE
<1> HIDE DEF r
<1>4. b \in AppE(E) /\ b.request = r /\ EditedFrom(app, b, E, v)
  BY <1>2, <1>3 DEF AppE, EditedFrom
<1>5. EditWorld(v) = [world EXCEPT !.app = b]
  BY <1>2 DEF EditWorld, r, AppE
<1> HIDE DEF b, E
<1>6. Answers(b)
  BY <1>2, <1>4 DEF Answers, EditedFrom
<1>7. /\ Whole([world EXCEPT !.app = b], E)
      /\ [world EXCEPT !.app = b].app = b /\ [world EXCEPT !.app = b].disk = world.disk
  BY <1>0, <1>1, <1>2, <1>3, <1>4, <1>6, WholeWith, WorldIs DEF EditedFrom
<1> QED  BY <1>4, <1>5, <1>7, WorldIs DEF E

LEMMA SwitchWhole ==
  ASSUME NEW E \in Nat, Whole(world, E), NEW i \in DOMAIN app.open_tabs
  PROVE  LET v == PersistIfDirty(world)
             x == SwitchWorld(i)
         IN /\ Whole(x, E)
            /\ SyncFails(app) => x = world
            /\ ~SyncFails(app) => x.disk = v.disk /\ Shows(SyncActiveTab(v.app), disk.files, i, x.app)
<1> DEFINE v == PersistIfDirty(world)
           s == SyncActiveTab(v.app)
           b == ShowTab(s, disk.files, i)
           x == SwitchWorld(i)
<1>1. /\ Typed(world, E) /\ Len(world.app.open_tabs) <= MaxTabs /\ world.app = app
      /\ world.disk = disk /\ DOMAIN app.open_tabs = 1 .. Len(app.open_tabs)
      /\ disk.files \in [Path -> DocE(E) \cup {NoDoc}] /\ app.open_tabs \in Seq(TabE(E))
  BY WholeFacts, WorldIs
<1>2. /\ Typed(v, E) /\ PersistFrom(world, v) /\ Len(v.app.open_tabs) = Len(app.open_tabs)
      /\ v = world \/ (app.valid /\ app.dirty)
  BY <1>1, PersistIfDirtyFacts
<1>3. TypedApp(v.app, E) /\ v.app.valid = app.valid
  BY <1>1, <1>2 DEF Typed, PersistFrom, SameEditor
<1>4. TypedApp(s, E) /\ Len(s.open_tabs) = Len(app.open_tabs)
  BY <1>2, <1>3, SyncFacts
<1>5. SyncFails(v.app) <=> SyncFails(app)
  <2>1. v.app.open_tabs \in Seq(TabE(E))
    BY <1>3 DEF TypedApp, AppE
  <2>2. v.app.open_tabs = <<>> <=> app.open_tabs = <<>>
    BY <1>1, <1>2, <2>1
  <2> QED  BY <1>3, <2>2 DEF SyncFails
<1>6. x = IF SyncFails(v.app) THEN v ELSE SettingsChanged([v EXCEPT !.app = b])
  BY <1>2 DEF SwitchWorld, Typed
<1> HIDE DEF v, s, x
<1>7. CASE SyncFails(app)
  <2>1. v = world
    BY <1>2, <1>7 DEF SyncFails
  <2> QED  BY <1>5, <1>6, <1>7, <2>1 DEF x
<1>8. CASE ~SyncFails(app)
  <2>1. s \in AppE(E) /\ Len(s.requests) <= MaxFiles /\ i \in 1 .. Len(s.open_tabs)
    BY <1>1, <1>4 DEF TypedApp
  <2>2. TypedApp(b, E) /\ Shows(s, disk.files, i, b)
    BY <1>1, <2>1, ShowTabFacts
  <2> HIDE DEF b
  <2>3. /\ Typed([v EXCEPT !.app = b], E) /\ [v EXCEPT !.app = b].app = b
        /\ [v EXCEPT !.app = b].disk = v.disk
    BY <1>2, <2>2, AppWorld
  <2>4. /\ Typed(x, E) /\ x.disk = v.disk /\ SameButSaved(b, x.app)
        /\ x.app.recovery_last_saved = b.recovery_last_saved
    BY <1>5, <1>6, <1>8, <2>3, SettingsFacts
  <2>5. Shows(s, disk.files, i, x.app)
    BY <2>2, <2>4 DEF Shows, SameButSaved, SameEditor
  <2>6. s.open_tabs # <<>> /\ Len(s.open_tabs) <= MaxTabs /\ TypedApp(x.app, E)
    BY <1>1, <1>4, <2>1, <2>4 DEF Typed, TypedApp, AppE
  <2>7. Whole(x, E)
    BY <2>4, <2>5, <2>6, WholeShown
  <2> QED  BY <1>8, <2>4, <2>5, <2>7 DEF v, s, x
<1> QED  BY <1>7, <1>8

(* The same fields with other tabs.                                            *)
LEMMA WithTabs ==
  ASSUME NEW E \in Nat, NEW a \in AppE(E), NEW tabs \in Seq(TabE(E))
  PROVE  LET b == [a EXCEPT !.open_tabs = tabs]
         IN /\ b \in AppE(E) /\ b.open_tabs = tabs /\ b.requests = a.requests
            /\ b.active_tab = a.active_tab /\ b.selected_collection = a.selected_collection
            /\ b.recovery_last_saved = a.recovery_last_saved
            /\ b.request_path = a.request_path
BY DEF AppE

LEMMA CloseWhole ==
  ASSUME NEW E \in Nat, Whole(world, E), NEW i \in DOMAIN app.open_tabs,
         RemoveAt(app.open_tabs, i) = <<>> => NewDoc \in DocE(E)
  PROVE  LET x == CloseWorld(i)
             rest == RemoveAt(app.open_tabs, i)
         IN /\ Whole(x, E) /\ x.disk = disk
            /\ rest = <<>> => FreshDraft(app, x.app)
            /\ rest # <<>> =>
                 \E next \in 1 .. Len(rest) :
                   Shows([app EXCEPT !.open_tabs = rest], disk.files, next, x.app)
<1> DEFINE rest == RemoveAt(app.open_tabs, i)
           left == [app EXCEPT !.open_tabs = rest]
           empty == ResetNewRequest([left EXCEPT !.active_tab = 1])
           b == [empty EXCEPT !.open_tabs = <<CurrentTab(empty)>>]
           next == IF i < app.active_tab THEN app.active_tab - 1
                   ELSE Min({app.active_tab, Len(rest)})
           c == ShowTab(left, disk.files, next)
           x == CloseWorld(i)
           n == Len(app.open_tabs)
<1>1. /\ Typed(world, E) /\ n <= MaxTabs /\ world.app = app
      /\ world.disk = disk /\ DOMAIN app.open_tabs = 1 .. n /\ n \in Nat
      /\ disk.files \in [Path -> DocE(E) \cup {NoDoc}] /\ app.open_tabs \in Seq(TabE(E))
      /\ app \in AppE(E) /\ Len(app.requests) <= MaxFiles /\ MaxTabs \in Nat /\ MaxTabs >= 1
  BY WholeFacts, WorldIs, DesktopAssumption
<1>2. /\ rest \in Seq(TabE(E)) /\ Len(rest) = n - 1
      /\ rest = <<>> <=> n = 1
  BY <1>1, RemoveAtFacts
<1>3. i \in 1 .. n /\ app.active_tab \in 1 .. n
  <2>1. app.open_tabs # <<>>
    BY <1>1
  <2> QED  BY <1>1, <2>1, WholeFacts
<1>4. x = IF rest = <<>> THEN SettingsChanged([world EXCEPT !.app = b])
          ELSE SettingsChanged([world EXCEPT !.app = c])
  BY DEF CloseWorld
<1> HIDE DEF rest
<1>5. left \in AppE(E) /\ left.open_tabs = rest /\ left.requests = app.requests
      /\ left.selected_collection = app.selected_collection
      /\ left.recovery_last_saved = app.recovery_last_saved
  BY <1>1, <1>2, WithTabs
<1> HIDE DEF x
<1>6. CASE rest = <<>>
  <2>1. TypedApp(b, E) /\ FreshDraft(left, b)
    BY <1>1, <1>5, <1>6, FreshDraftFacts DEF rest
  <2> HIDE DEF b, left
  <2>2. /\ Typed([world EXCEPT !.app = b], E) /\ [world EXCEPT !.app = b].app = b
        /\ [world EXCEPT !.app = b].disk = disk
    BY <1>1, <2>1, AppWorld
  <2>3. /\ Typed(x, E) /\ x.disk = disk /\ SameButSaved(b, x.app)
        /\ x.app.recovery_last_saved = b.recovery_last_saved
    BY <1>4, <1>6, <2>2, SettingsFacts
  <2>4. FreshDraft(app, x.app)
    BY <1>5, <2>1, <2>3 DEF FreshDraft, SameButSaved, SameEditor
  <2>5. Whole(x, E)
    <3>1. Len(x.app.open_tabs) = 1 /\ x.app.request \in DocE(E) /\ Answers(x.app)
      BY <1>6, <2>4 DEF FreshDraft, Answers, rest
    <3> QED  BY <1>1, <2>3, <3>1 DEF Whole
  <2> QED  BY <1>6, <2>3, <2>4, <2>5 DEF x, rest
<1>7. CASE rest # <<>>
  <2>1. next \in 1 .. Len(rest)
    <3>1. CASE i < app.active_tab
      BY <1>1, <1>2, <1>3, <3>1
    <3>2. CASE ~(i < app.active_tab)
      <4>1. Len(rest) \in Nat /\ Len(rest) # 0 /\ app.active_tab \in Nat /\ app.active_tab >= 1
        BY <1>1, <1>2, <1>3, <1>7
      <4>2. /\ Min({app.active_tab, Len(rest)}) \in {app.active_tab, Len(rest)}
            /\ Min({app.active_tab, Len(rest)}) <= Len(rest)
        BY <4>1, MinOfTwo
      <4> QED  BY <3>2, <4>1, <4>2
    <3> QED  BY <3>1, <3>2
  <2> HIDE DEF next, left
  <2>2. TypedApp(c, E) /\ Shows(left, disk.files, next, c)
    BY <1>1, <1>5, <2>1, ShowTabFacts
  <2> HIDE DEF c
  <2>3. /\ Typed([world EXCEPT !.app = c], E) /\ [world EXCEPT !.app = c].app = c
        /\ [world EXCEPT !.app = c].disk = disk
    BY <1>1, <2>2, AppWorld
  <2>4. /\ Typed(x, E) /\ x.disk = disk /\ SameButSaved(c, x.app)
        /\ x.app.recovery_last_saved = c.recovery_last_saved
    BY <1>4, <1>7, <2>3, SettingsFacts
  <2>5. Shows(left, disk.files, next, x.app)
    BY <2>2, <2>4 DEF Shows, SameButSaved, SameEditor
  <2>6. Whole(x, E)
    <3>1. TypedApp(x.app, E) /\ left.open_tabs # <<>> /\ Len(left.open_tabs) <= MaxTabs
      BY <1>1, <1>2, <1>5, <1>7, <2>4 DEF Typed
    <3> QED  BY <2>4, <2>5, <3>1, WholeShown
  <2> QED  BY <1>7, <2>1, <2>4, <2>5, <2>6 DEF x, rest, left
<1> QED  BY <1>6, <1>7

(* The tabs and the active one change, the editor does not.                     *)
Rearranged(a, b) ==
  /\ b.selected_collection = a.selected_collection /\ b.requests = a.requests
  /\ b.request_path = a.request_path /\ b.request = a.request
  /\ b.valid = a.valid /\ b.dirty = a.dirty
  /\ b.recovery_restored = a.recovery_restored
  /\ b.pending = a.pending /\ b.response = a.response
  /\ b.recovery_last_saved = a.recovery_last_saved

LEMMA RearrangedWhole ==
  ASSUME NEW E \in Nat, Whole(world, E), NEW b \in AppE(E), Rearranged(app, b),
         Len(b.open_tabs) <= MaxTabs, b.active_tab \in 1 .. Len(b.open_tabs),
         NEW x, x = SettingsChanged([world EXCEPT !.app = b])
  PROVE  /\ Whole(x, E) /\ x.disk = disk /\ Rearranged(app, x.app)
         /\ x.app.open_tabs = b.open_tabs /\ x.app.active_tab = b.active_tab
<1>1. /\ Typed(world, E) /\ app \in AppE(E) /\ app.request \in DocE(E) /\ Answers(app)
      /\ world.app = app /\ world.disk = disk
  BY WholeFacts, WorldIs
<1>2. b.open_tabs # <<>>
  BY DEF AppE
<1>4. Answers(b) /\ b.request \in DocE(E) /\ b.requests = app.requests
  BY <1>1 DEF Answers, Rearranged
<1>5. /\ Whole([world EXCEPT !.app = b], E)
      /\ [world EXCEPT !.app = b].app = b /\ [world EXCEPT !.app = b].disk = world.disk
  BY <1>1, <1>2, <1>4, WholeWith
<1>6. /\ Typed(x, E) /\ x.disk = disk /\ SameButSaved(b, x.app)
      /\ x.app.recovery_last_saved = b.recovery_last_saved
  BY <1>1, <1>5, SettingsFacts DEF Whole
<1>7. /\ Rearranged(app, x.app) /\ x.app.open_tabs = b.open_tabs
      /\ x.app.active_tab = b.active_tab
  BY <1>6 DEF Rearranged, SameButSaved, SameEditor
<1>8. Whole(x, E)
  BY <1>4, <1>1, <1>6, <1>7 DEF Whole, Answers, Rearranged
<1> QED  BY <1>6, <1>7, <1>8

LEMMA CloseOthersWhole ==
  ASSUME NEW E \in Nat, Whole(world, E), Len(app.open_tabs) > 1
  PROVE  LET x == CloseOthersWorld
         IN /\ Whole(x, E) /\ x.disk = disk /\ Rearranged(app, x.app)
            /\ x.app.open_tabs = <<app.open_tabs[app.active_tab]>> /\ x.app.active_tab = 1
<1> DEFINE t == app.open_tabs[app.active_tab]
           tabs == <<t>>
<1>1. /\ app \in AppE(E) /\ world.app = app /\ world.disk = disk
      /\ app.open_tabs \in Seq(TabE(E)) /\ app.open_tabs # <<>>
      /\ app.active_tab \in 1 .. Len(app.open_tabs) /\ MaxTabs \in Nat /\ MaxTabs >= 1
  <2>1. app.open_tabs \in Seq(TabE(E))
    BY WholeFacts, WorldIs
  <2>2. app.open_tabs # <<>>
    BY <2>1
  <2> QED  BY <2>1, <2>2, WholeFacts, WorldIs, DesktopAssumption
<1>2. t \in TabE(E)
  BY <1>1
<1>3. CloseOthersWorld =
        SettingsChanged([world EXCEPT !.app = [app EXCEPT !.open_tabs = tabs, !.active_tab = 1]])
  BY <1>1 DEF CloseOthersWorld, AppE, world
<1> HIDE DEF t
<1>4. tabs \in Seq(TabE(E)) /\ Len(tabs) = 1
  BY <1>2
<1>5. Len(tabs) <= MaxTabs /\ 1 \in 1 .. Len(tabs)
  BY <1>1, <1>4
<1> HIDE DEF tabs
<1>6. /\ Whole(CloseOthersWorld, E) /\ CloseOthersWorld.disk = disk
      /\ Rearranged(app, CloseOthersWorld.app)
      /\ CloseOthersWorld.app.open_tabs = tabs /\ CloseOthersWorld.app.active_tab = 1
  <2> DEFINE x == CloseOthersWorld
             b == [app EXCEPT !.open_tabs = tabs, !.active_tab = 1]
  <2>1. x = SettingsChanged([world EXCEPT !.app = b])
    BY <1>3
  <2>3. b \in AppE(E) /\ b.open_tabs = tabs /\ b.active_tab = 1 /\ Rearranged(app, b)
    <3>1. 1 \in Nat \ {0}
      OBVIOUS
    <3> QED  BY <1>1, <1>4, <3>1 DEF AppE, Rearranged
  <2> HIDE DEF x, b
  <2>4. b.active_tab \in 1 .. Len(b.open_tabs) /\ Len(b.open_tabs) <= MaxTabs
    BY <1>5, <2>3
  <2>2. /\ Whole(x, E) /\ x.disk = disk /\ Rearranged(app, x.app)
        /\ x.app.open_tabs = tabs /\ x.app.active_tab = 1
    BY <2>1, <2>3, <2>4, RearrangedWhole
  <2> QED  BY <2>2 DEF x
<1> QED  BY <1>6 DEF tabs, t

LEMMA MoveWhole ==
  ASSUME NEW E \in Nat, Whole(world, E), NEW target \in DOMAIN app.open_tabs
  PROVE  LET x == MoveWorld(target)
         IN /\ Whole(x, E) /\ x.disk = disk /\ Rearranged(app, x.app)
            /\ x.app.active_tab = target /\ Len(x.app.open_tabs) = Len(app.open_tabs)
            /\ app.active_tab \in 1 .. Len(app.open_tabs)
            /\ \A i \in 1 .. Len(app.open_tabs) :
                 x.app.open_tabs[i] =
                   IF i = target THEN app.open_tabs[app.active_tab]
                   ELSE IF i = app.active_tab THEN app.open_tabs[target] ELSE app.open_tabs[i]
<1> DEFINE n == Len(app.open_tabs)
           p == app.active_tab
           t == app.open_tabs[p]
           u == app.open_tabs[target]
           tabs == [app.open_tabs EXCEPT ![target] = t, ![p] = u]
<1>1. /\ app \in AppE(E) /\ world.app = app /\ world.disk = disk
      /\ app.open_tabs \in Seq(TabE(E)) /\ n \in Nat /\ n <= MaxTabs
      /\ target \in 1 .. n /\ p \in 1 .. n
  <2>1. app.open_tabs \in Seq(TabE(E)) /\ target \in 1 .. n
    BY WholeFacts, WorldIs
  <2>2. app.open_tabs # <<>>
    BY <2>1
  <2> QED  BY <2>1, <2>2, WholeFacts, WorldIs, DesktopAssumption
<1>2. t \in TabE(E) /\ u \in TabE(E)
  BY <1>1
<1>3. MoveWorld(target) =
        SettingsChanged([world EXCEPT !.app = [app EXCEPT !.open_tabs = tabs, !.active_tab = target]])
  BY DEF MoveWorld
<1>4. /\ tabs \in Seq(TabE(E)) /\ Len(tabs) = n
      /\ \A i \in 1 .. n :
           tabs[i] = IF i = target THEN t ELSE IF i = p THEN u ELSE app.open_tabs[i]
  BY <1>1, <1>2
<1> HIDE DEF tabs, t, u
<1>5. target \in 1 .. Len(tabs) /\ Len(tabs) <= MaxTabs
  BY <1>1, <1>4
<1>6. /\ Whole(MoveWorld(target), E) /\ MoveWorld(target).disk = disk
      /\ Rearranged(app, MoveWorld(target).app)
      /\ MoveWorld(target).app.open_tabs = tabs /\ MoveWorld(target).app.active_tab = target
  <2> DEFINE x == MoveWorld(target)
             b == [app EXCEPT !.open_tabs = tabs, !.active_tab = target]
  <2>1. x = SettingsChanged([world EXCEPT !.app = b])
    BY <1>3
  <2>3. /\ b \in AppE(E) /\ b.open_tabs = tabs /\ b.active_tab = target
        /\ Rearranged(app, b)
    <3>1. target \in Nat \ {0}
      BY <1>1
    <3> QED  BY <1>1, <1>4, <3>1 DEF AppE, Rearranged
  <2> HIDE DEF x, b
  <2>2. /\ Whole(x, E) /\ x.disk = disk /\ Rearranged(app, x.app)
        /\ x.app.open_tabs = tabs /\ x.app.active_tab = target
    BY <1>4, <1>5, <2>1, <2>3, RearrangedWhole, SMTT(30)
  <2> QED  BY <2>2 DEF x
<1> QED  BY <1>1, <1>4, <1>6 DEF t, u

LEMMA ImportWhole ==
  ASSUME NEW E \in Nat, Whole(world, E), NewDoc \in DocE(E)
  PROVE  Whole(ImportWorld, E) /\ ImportWorld.disk = disk /\ ResetFrom(app, ImportWorld.app)
<1> DEFINE b == ResetNewRequest(app)
<1>1. /\ app \in AppE(E) /\ TypedApp(app, E) /\ Typed(world, E) /\ world.app = app
      /\ world.disk = disk /\ Len(app.open_tabs) <= MaxTabs
  BY WholeFacts, WorldIs
<1>2. TypedApp(b, E) /\ ResetFrom(app, b)
  BY <1>1, ResetFacts
<1>3. ImportWorld = [world EXCEPT !.app = b]
  BY <1>1 DEF ImportWorld, world
<1> HIDE DEF b
<1>4. Typed(ImportWorld, E) /\ ImportWorld.app = b /\ ImportWorld.disk = disk
  BY <1>1, <1>2, <1>3, AppWorld
<1>5. Answers(b) /\ b.request \in DocE(E) /\ Len(b.open_tabs) <= MaxTabs
  BY <1>1, <1>2 DEF ResetFrom, Answers
<1> QED  BY <1>2, <1>4, <1>5 DEF Whole

(* Another collection selected, and its requests not read yet.                  *)
Turned(a, b, c) ==
  /\ b.open_tabs = a.open_tabs /\ b.active_tab = a.active_tab
  /\ b.selected_collection = c /\ b.requests = a.requests
  /\ b.request_path = a.request_path /\ b.request = a.request
  /\ b.valid = a.valid /\ b.dirty = a.dirty
  /\ b.recovery_restored = a.recovery_restored
  /\ b.pending = a.pending /\ b.response = a.response
  /\ b.recovery_last_saved = a.recovery_last_saved

LEMMA SelectedWhole ==
  ASSUME NEW E \in Nat, Whole(world, E), NEW c \in Collections
  PROVE  /\ Whole(SelectedWorld(c), E) /\ SelectedWorld(c).disk = disk
         /\ Turned(app, SelectedWorld(c).app, c)
<1> DEFINE b == [app EXCEPT !.selected_collection = c]
<1>1. /\ app \in AppE(E) /\ world.app = app /\ world.disk = disk /\ Answers(app)
      /\ app.request \in DocE(E) /\ Len(app.open_tabs) <= MaxTabs
      /\ app.open_tabs # <<>> => app.active_tab \in 1 .. Len(app.open_tabs)
      /\ app.open_tabs = <<>> => app.active_tab = 1
  BY WholeFacts, WorldIs
<1>2. b \in AppE(E) /\ Turned(app, b, c)
  BY <1>1 DEF AppE, Turned
<1>3. SelectedWorld(c) = [world EXCEPT !.app = b]
  BY <1>1 DEF SelectedWorld, world
<1> HIDE DEF b
<1>4. Answers(b)
  BY <1>1, <1>2 DEF Answers, Turned
<1>5. /\ Whole([world EXCEPT !.app = b], E)
      /\ [world EXCEPT !.app = b].app = b /\ [world EXCEPT !.app = b].disk = world.disk
  BY <1>1, <1>2, <1>4, WholeWith DEF Turned
<1> QED  BY <1>1, <1>2, <1>3, <1>5

LEMMA CollectionWhole ==
  ASSUME NEW E \in Nat, Whole(world, E), NEW c \in Collections, NewDoc \in DocE(E),
         Len(app.open_tabs) < MaxTabs, NEW preferred
  PROVE  Whole(RefreshRequests(SelectedWorld(c), preferred), E) /\ Whole(CollectionWorld(c), E)
<1>1. Whole(SelectedWorld(c), E) /\ SelectedWorld(c).app.open_tabs = app.open_tabs
  BY SelectedWhole DEF Turned
<1>2. \A p : Whole(RefreshRequests(SelectedWorld(c), p), E)
  BY <1>1, WholeRefresh DEF Whole
<1> QED  BY <1>1, <1>2 DEF CollectionWorld

(* The entry of the history is in the collection it is looked for in.           *)
LEMMA HistoryFacts ==
  ASSUME NEW E \in Nat, Whole(world, E), NEW id \in Ids, Found(id) # {}
  PROVE  LET k == Min({j \in DOMAIN HistoryListing(id) : HistoryListing(id)[j].doc.id = id})
         IN /\ HistoryCollection(id) \in Collections
            /\ Whole(ListedWorld(id), E) /\ ListedWorld(id).disk = disk
            /\ ListedWorld(id).app.requests = HistoryListing(id)
            /\ ListedWorld(id).app.selected_collection = HistoryCollection(id)
            /\ ListedWorld(id).app.open_tabs = app.open_tabs
            /\ ListedWorld(id).app.active_tab = app.active_tab
            /\ ListedWorld(id).app.request_path = app.request_path
            /\ ListedWorld(id).app.request = app.request
            /\ ListedWorld(id).app.valid = app.valid
            /\ ListedWorld(id).app.dirty = app.dirty
            /\ ListedWorld(id).app.recovery_restored = app.recovery_restored
            /\ ListedWorld(id).app.recovery_last_saved = app.recovery_last_saved
            /\ k \in 1 .. Len(HistoryListing(id))
<1> DEFINE cs == {p[1] : p \in Found(id)}
           c == HistoryCollection(id)
           entries == HistoryListing(id)
           ks == {j \in DOMAIN entries : entries[j].doc.id = id}
           b == [app EXCEPT !.selected_collection = c, !.requests = entries]
           w == ListedWorld(id)
<1>1. /\ app \in AppE(E) /\ world.app = app /\ world.disk = disk /\ Answers(app)
      /\ disk.files \in [Path -> DocE(E) \cup {NoDoc}] /\ Typed(world, E)
      /\ app.request \in DocE(E) /\ Len(app.open_tabs) <= MaxTabs
      /\ app.open_tabs # <<>> => app.active_tab \in 1 .. Len(app.open_tabs)
      /\ app.open_tabs = <<>> => app.active_tab = 1
      /\ app.dirty \in BOOLEAN
  BY WholeFacts, WorldIs DEF AppE
<1>2. \A n \in cs : n \in Collections
  BY PathFacts DEF Found
<1>3. cs \subseteq Nat /\ cs # {}
  BY <1>2 DEF Collections
<1>4. c \in cs
  BY <1>3, MinFacts DEF HistoryCollection
<1>5. c \in Collections
  BY <1>2, <1>4
<1>6. PICK p \in Path : p[1] = c /\ disk.files[p].id = id
  BY <1>4 DEF Found
<1>7. disk.files[p] # NoDoc
  BY <1>6, DesktopAssumption DEF NoDoc, Ids
<1> HIDE DEF c, cs
<1>8. /\ entries \in Seq(EntryE(E)) /\ Len(entries) <= MaxFiles
      /\ \A k \in 1 .. Len(entries) : disk.files[entries[k].path] = entries[k].doc
      /\ \E k \in 1 .. Len(entries) : entries[k].path = p
  <2>1. entries = Listing(disk.files, c)
    BY DEF HistoryListing, c
  <2> QED  BY <1>1, <1>5, <1>6, <1>7, <2>1, ListingFacts
<1>9. Min(ks) \in 1 .. Len(entries)
  <2>1. \E k \in 1 .. Len(entries) : k \in ks
    BY <1>6, <1>8
  <2>2. \A k \in ks : k \in 1 .. Len(entries)
    BY <1>8
  <2> HIDE DEF ks
  <2>3. ks \subseteq Nat /\ ks # {}
    BY <2>1, <2>2
  <2>4. Min(ks) \in ks
    BY <2>3, MinFacts
  <2> QED  BY <2>2, <2>4
<1>10. w = [world EXCEPT !.app = b]
  BY <1>1 DEF ListedWorld, world, c
<1> HIDE DEF entries, w
<1>11. /\ b \in AppE(E) /\ b.requests = entries /\ b.selected_collection = c
       /\ b.open_tabs = app.open_tabs /\ b.active_tab = app.active_tab
       /\ b.request_path = app.request_path /\ b.request = app.request
       /\ b.valid = app.valid /\ b.dirty = app.dirty
       /\ b.recovery_restored = app.recovery_restored
       /\ b.pending = app.pending /\ b.response = app.response
       /\ b.recovery_last_saved = app.recovery_last_saved
  BY <1>1, <1>5, <1>8 DEF AppE
<1>12. TypedApp(b, E)
  <2> HIDE DEF b
  <2> QED  BY <1>1, <1>8, <1>11 DEF TypedApp
<1>13. Typed(w, E) /\ w.app = b /\ w.disk = disk
  BY <1>1, <1>10, <1>12, AppWorld
<1>14. Whole(w, E)
  <2>1. Answers(b)
    BY <1>1, <1>11 DEF Answers
  <2> HIDE DEF b
  <2> QED  BY <1>1, <1>11, <1>13, <2>1 DEF Whole
<1> QED  BY <1>5, <1>9, <1>11, <1>13, <1>14 DEF w, entries, c

LEMMA HistoryWhole ==
  ASSUME NEW E \in Nat, Whole(world, E), NEW id \in Ids, Found(id) # {},
         Len(app.open_tabs) < MaxTabs
  PROVE  Whole(HistoryWorld(id), E)
<1> DEFINE k == Min({j \in DOMAIN HistoryListing(id) : HistoryListing(id)[j].doc.id = id})
           w == ListedWorld(id)
<1>1. /\ Whole(w, E) /\ w.app.requests = HistoryListing(id) /\ w.app.open_tabs = app.open_tabs
      /\ k \in 1 .. Len(HistoryListing(id))
  BY HistoryFacts
<1>2. HistoryWorld(id) = SelectEntry(w, k)
  BY DEF HistoryWorld
<1> HIDE DEF w, k
<1>3. Typed(w, E) /\ k \in 1 .. Len(w.app.requests) /\ Len(w.app.open_tabs) < MaxTabs
  BY <1>1 DEF Whole
<1> QED  BY <1>1, <1>2, <1>3, WholeSelect

SaveFrom(a, b, p) ==
  /\ b.open_tabs = a.open_tabs /\ b.active_tab = a.active_tab
  /\ b.selected_collection = a.selected_collection /\ b.requests = a.requests
  /\ b.request_path = p /\ b.request = a.request /\ b.valid = a.valid /\ b.dirty = FALSE
  /\ b.recovery_restored = FALSE /\ b.pending = a.pending /\ b.response = a.response
  /\ b.recovery_last_saved = "none"

(* The file is written and the snapshot gone; the tab is synced.                *)
LEMMA SavedWhole ==
  ASSUME NEW E \in Nat, Whole(world, E), NEW p \in Path
  PROVE  LET b == [Saved(app) EXCEPT !.request_path = p, !.dirty = FALSE,
                                     !.recovery_restored = FALSE]
             x == SavedWorld(p)
         IN /\ Whole(x, E) /\ TypedApp(b, E) /\ SaveFrom(app, b, p)
            /\ SameButSaved(SyncActiveTab(b), x.app) /\ x.app.recovery_last_saved = "none"
            /\ x.disk.recovery.drafts = <<>> /\ x.disk.tabs = disk.tabs
            /\ x.disk.files = [q \in Path |-> IF q = p THEN app.request
                                 ELSE IF q = app.request_path THEN NoDoc ELSE disk.files[q]]
<1> DEFINE b == [Saved(app) EXCEPT !.request_path = p, !.dirty = FALSE,
                                   !.recovery_restored = FALSE]
           a == SyncActiveTab(b)
           moved == [q \in Path |-> IF q = p THEN app.request
                                    ELSE IF q = app.request_path THEN NoDoc ELSE disk.files[q]]
           d == [disk EXCEPT !.files = moved, !.recovery = NoSnapshot]
           w == [app |-> a, disk |-> d]
           x == SavedWorld(p)
<1>1. /\ app \in AppE(E) /\ world.app = app /\ world.disk = disk /\ Answers(app)
      /\ disk \in DiskE(E)
      /\ disk.files \in [Path -> DocE(E) \cup {NoDoc}] /\ TypedApp(app, E)
      /\ app.request \in DocE(E) /\ Len(app.open_tabs) <= MaxTabs
  BY WholeFacts, WorldIs
<1>2. b \in AppE(E) /\ SaveFrom(app, b, p)
  BY <1>1 DEF AppE, SaveFrom, Saved
<1> HIDE DEF b
<1>3. TypedApp(b, E)
  BY <1>1, <1>2 DEF TypedApp, SaveFrom
<1>4. /\ TypedApp(a, E) /\ SameEditor(b, a) /\ a.recovery_last_saved = "none"
      /\ Len(a.open_tabs) = Len(app.open_tabs)
  BY <1>2, <1>3, SyncFacts DEF SaveFrom
<1>5. moved \in [Path -> DocE(E) \cup {NoDoc}]
  BY <1>1
<1>6. /\ NoSnapshot \in [drafts : Seq(DraftE(E)), active : 0 .. MaxTabs]
      /\ NoSnapshot.drafts = <<>>
  BY DesktopAssumption DEF NoSnapshot
<1>9. x = SettingsChanged(w)
  BY DEF SavedWorld, b
<1> HIDE DEF moved, a, x
<1>7. d \in DiskE(E) /\ d.files = moved /\ d.recovery = NoSnapshot /\ d.tabs = disk.tabs
  BY <1>1, <1>5, <1>6 DEF DiskE
<1> HIDE DEF d
<1>8. Typed(w, E) /\ w.app = a /\ w.disk = d
  BY <1>4, <1>6, <1>7 DEF Typed, TypedApp
<1> HIDE DEF w
<1>10. /\ Typed(x, E) /\ x.disk = d /\ SameButSaved(a, x.app)
       /\ x.app.recovery_last_saved = "none"
  BY <1>4, <1>8, <1>9, SettingsFacts
<1>11. Whole(x, E)
  <2>1. /\ x.app.request = app.request /\ x.app.pending = app.pending
        /\ x.app.response = app.response /\ x.app.open_tabs = a.open_tabs
    BY <1>2, <1>4, <1>10 DEF SameButSaved, SameEditor, SaveFrom
  <2> QED  BY <1>1, <1>4, <1>10, <2>1 DEF Whole, Answers
<1> QED  BY <1>2, <1>3, <1>6, <1>7, <1>10, <1>11 DEF a, b, x, moved

LEMMA SaveWhole ==
  ASSUME NEW E \in Nat, Whole(world, E), NEW p \in Path, NewDoc \in DocE(E),
         Len(app.open_tabs) < MaxTabs
  PROVE  Whole(SaveWorld(p), E)
<1>1. Whole(SavedWorld(p), E)
  BY SavedWhole
<1>2. Len(SavedWorld(p).app.open_tabs) = Len(app.open_tabs)
  <2> DEFINE b == [Saved(app) EXCEPT !.request_path = p, !.dirty = FALSE,
                                     !.recovery_restored = FALSE]
  <2>1. /\ TypedApp(b, E) /\ SaveFrom(app, b, p)
        /\ SameButSaved(SyncActiveTab(b), SavedWorld(p).app)
    BY SavedWhole
  <2> HIDE DEF b
  <2>2. Len(SyncActiveTab(b).open_tabs) = Len(b.open_tabs)
    BY <2>1, SyncFacts
  <2> QED  BY <2>1, <2>2 DEF SaveFrom, SameButSaved
<1>3. Whole(RefreshRequests(SavedWorld(p), p), E)
  BY <1>1, <1>2, WholeRefresh DEF Whole
<1> QED  BY <1>1, <1>3 DEF SaveWorld

LEMMA CopiedWhole ==
  ASSUME NEW E \in Nat, Whole(world, E), NEW p \in Path, NewDoc \in DocE(E)
  PROVE  LET x == CopiedWorld(p)
             copy == [NewDoc EXCEPT !.edit = app.request.edit]
         IN /\ Whole(x, E) /\ x.app = app /\ x.disk.tabs = disk.tabs
            /\ x.disk.recovery = disk.recovery /\ x.disk.files = [disk.files EXCEPT ![p] = copy]
            /\ copy \in DocE(E) /\ copy.edit = app.request.edit /\ copy.id = NewDoc.id
<1> DEFINE copy == [NewDoc EXCEPT !.edit = app.request.edit]
           files == [disk.files EXCEPT ![p] = copy]
           d == [disk EXCEPT !.files = files]
           x == CopiedWorld(p)
<1>1. /\ app \in AppE(E) /\ world.app = app /\ world.disk = disk /\ Answers(app)
      /\ disk \in DiskE(E) /\ world \in [app : AppE(E), disk : DiskE(E)]
      /\ disk.files \in [Path -> DocE(E) \cup {NoDoc}] /\ TypedApp(app, E)
      /\ app.request \in DocE(E) /\ Len(app.open_tabs) <= MaxTabs
  BY WholeFacts, WorldIs
<1>2. copy \in DocE(E) /\ copy.edit = app.request.edit /\ copy.id = NewDoc.id
  <2> DEFINE m == NewDoc
  <2>1. m \in DocE(E)
    OBVIOUS
  <2> HIDE DEF m
  <2>2. [m EXCEPT !.edit = app.request.edit] \in DocE(E)
        /\ [m EXCEPT !.edit = app.request.edit].edit = app.request.edit
        /\ [m EXCEPT !.edit = app.request.edit].id = m.id
    BY <1>1, <2>1 DEF DocE
  <2> QED  BY <2>2 DEF m
<1>3. files \in [Path -> DocE(E) \cup {NoDoc}]
  BY <1>1, <1>2
<1>4. x = [world EXCEPT !.disk = d]
  BY <1>1 DEF CopiedWorld, world
<1> HIDE DEF files, copy
<1>5. d \in DiskE(E) /\ d.files = files /\ d.recovery = disk.recovery /\ d.tabs = disk.tabs
  BY <1>1, <1>3 DEF DiskE
<1> HIDE DEF d, x
<1>6. x.app = app /\ x.disk = d /\ x \in [app : AppE(E), disk : DiskE(E)]
  BY <1>1, <1>4, <1>5
<1>7. Typed(x, E)
  BY <1>1, <1>5, <1>6 DEF Typed, Whole
<1>8. Whole(x, E)
  BY <1>1, <1>6, <1>7 DEF Whole
<1> QED  BY <1>2, <1>5, <1>6, <1>8 DEF x, copy, files

(* The end of duplicate_current: the copy is saved, and no snapshot is left.    *)
LEMMA DuplicatedFacts ==
  ASSUME NEW E \in Nat, NEW v, Whole(v, E)
  PROVE  LET b == [Saved(v.app) EXCEPT !.dirty = FALSE, !.recovery_restored = FALSE]
             x == SettingsChanged(RemoveRecovery([v EXCEPT !.app = SyncActiveTab(b)]))
         IN /\ Whole(x, E) /\ TypedApp(b, E) /\ SaveFrom(v.app, b, v.app.request_path)
            /\ SameButSaved(SyncActiveTab(b), x.app) /\ x.app.recovery_last_saved = "none"
            /\ x.disk.recovery.drafts = <<>> /\ x.disk.tabs = v.disk.tabs
            /\ x.disk.files = v.disk.files
<1> DEFINE b == [Saved(v.app) EXCEPT !.dirty = FALSE, !.recovery_restored = FALSE]
           a == SyncActiveTab(b)
           w == [v EXCEPT !.app = a]
           x == SettingsChanged(RemoveRecovery(w))
<1>1. /\ v.app \in AppE(E) /\ Answers(v.app) /\ Typed(v, E) /\ TypedApp(v.app, E)
      /\ v.app.request \in DocE(E) /\ Len(v.app.open_tabs) <= MaxTabs
  BY WholeFacts
<1>2. b \in AppE(E) /\ SaveFrom(v.app, b, v.app.request_path)
  BY <1>1 DEF AppE, SaveFrom, Saved
<1> HIDE DEF b
<1>3. TypedApp(b, E)
  BY <1>1, <1>2 DEF TypedApp, SaveFrom
<1>4. /\ TypedApp(a, E) /\ SameEditor(b, a) /\ a.recovery_last_saved = "none"
      /\ Len(a.open_tabs) = Len(v.app.open_tabs)
  BY <1>2, <1>3, SyncFacts DEF SaveFrom
<1> HIDE DEF a
<1>5. Typed(w, E) /\ w.app = a /\ w.disk = v.disk
  BY <1>1, <1>4, AppWorld
<1> HIDE DEF w
<1>6. /\ Typed(RemoveRecovery(w), E) /\ RemoveRecovery(w).app = w.app
      /\ RemoveRecovery(w).disk.files = w.disk.files
      /\ RemoveRecovery(w).disk.tabs = w.disk.tabs
      /\ RemoveRecovery(w).disk.recovery.drafts = <<>>
  BY <1>5, RemoveRecoveryFacts
<1>7. /\ Typed(x, E) /\ x.disk = RemoveRecovery(w).disk
      /\ SameButSaved(RemoveRecovery(w).app, x.app)
      /\ x.app.recovery_last_saved = RemoveRecovery(w).app.recovery_last_saved
  BY <1>6, SettingsFacts
<1> HIDE DEF x
<1>8. SameButSaved(a, x.app) /\ x.app.recovery_last_saved = "none"
  BY <1>4, <1>5, <1>6, <1>7
<1>9. Whole(x, E)
  <2>1. /\ x.app.request = v.app.request /\ x.app.pending = v.app.pending
        /\ x.app.response = v.app.response /\ x.app.open_tabs = a.open_tabs
    BY <1>2, <1>4, <1>8 DEF SameButSaved, SameEditor, SaveFrom
  <2> QED  BY <1>1, <1>4, <1>7, <2>1 DEF Whole, Answers
<1> QED  BY <1>2, <1>3, <1>5, <1>6, <1>7, <1>8, <1>9 DEF x, w, a, b

LEMMA DuplicateWhole ==
  ASSUME NEW E \in Nat, Whole(world, E), NEW p \in Path, NewDoc \in DocE(E),
         Len(app.open_tabs) < MaxTabs
  PROVE  Whole(DuplicateWorld(p), E)
<1>1. Whole(CopiedWorld(p), E) /\ CopiedWorld(p).app = app
  BY CopiedWhole
<1>2. Whole(RefreshRequests(CopiedWorld(p), p), E)
  BY <1>1, WholeRefresh DEF Whole
<1>3. \A v : Whole(v, E) =>
        Whole(SettingsChanged(RemoveRecovery([v EXCEPT !.app =
          SyncActiveTab([Saved(v.app) EXCEPT !.dirty = FALSE, !.recovery_restored = FALSE])])), E)
  BY DuplicatedFacts
<1> QED  BY <1>1, <1>2, <1>3 DEF DuplicateWorld

(* The tab of the deleted file, if it has one, and the tabs without it.         *)
DeletedTab == First({j \in DOMAIN app.open_tabs : app.open_tabs[j].path = app.request_path})
TabsLeft == IF DeletedTab = 0 THEN app.open_tabs ELSE RemoveAt(app.open_tabs, DeletedTab)

DeletedFrom(a, b, tabs) ==
  /\ b.open_tabs = tabs /\ b.selected_collection = a.selected_collection
  /\ b.requests = a.requests /\ b.request_path = NoPath /\ b.request = a.request
  /\ b.valid = a.valid /\ b.dirty = a.dirty
  /\ b.recovery_restored = a.recovery_restored
  /\ b.pending = a.pending /\ b.response = a.response
  /\ b.recovery_last_saved = a.recovery_last_saved

LEMMA DeletedWhole ==
  ASSUME NEW E \in Nat, Whole(world, E), app.request_path \in Path
  PROVE  LET x == DeletedWorld
         IN /\ Whole(x, E) /\ DeletedFrom(app, x.app, TabsLeft)
            /\ TabsLeft \in Seq(TabE(E)) /\ Len(TabsLeft) <= Len(app.open_tabs)
            /\ DeletedTab \in 0 .. Len(app.open_tabs)
            /\ DeletedTab # 0 => app.open_tabs[DeletedTab].path = app.request_path
            /\ DeletedTab = 0 => \A j \in DOMAIN app.open_tabs :
                                   app.open_tabs[j].path # app.request_path
            /\ x.disk.tabs = disk.tabs /\ x.disk.recovery = disk.recovery
            /\ x.disk.files = [disk.files EXCEPT ![app.request_path] = NoDoc]
<1> DEFINE path == app.request_path
           n == Len(app.open_tabs)
           js == {j \in DOMAIN app.open_tabs : app.open_tabs[j].path = path}
           i == DeletedTab
           rest == TabsLeft
           p == app.active_tab
           shifted == IF i # 0 /\ i < p THEN p - 1 ELSE p
           active == Max({1, Min({shifted, Len(rest)})})
           left == [app EXCEPT !.open_tabs = rest, !.active_tab = active,
                               !.selected_request = 0, !.request_path = NoPath]
           files == [disk.files EXCEPT ![path] = NoDoc]
           d == [disk EXCEPT !.files = files]
           x == DeletedWorld
<1>1. /\ app \in AppE(E) /\ world.app = app /\ world.disk = disk /\ Answers(app)
      /\ disk \in DiskE(E) /\ Typed(world, E) /\ app.open_tabs \in Seq(TabE(E))
      /\ DOMAIN app.open_tabs = 1 .. n /\ n \in Nat /\ Len(app.requests) <= MaxFiles
      /\ disk.files \in [Path -> DocE(E) \cup {NoDoc}] /\ TypedApp(app, E)
      /\ app.request \in DocE(E) /\ n <= MaxTabs
      /\ disk.recovery.drafts # <<>> => disk.recovery.active >= 1
  BY WholeFacts, WorldIs DEF Typed
<1>2. p \in Nat /\ p >= 1 /\ (n # 0 => p <= n) /\ (n = 0 => p = 1)
  <2>1. app.open_tabs = <<>> <=> n = 0
    BY <1>1
  <2> QED  BY <1>1, <2>1 DEF TypedApp
<1>3. i \in 0 .. n /\ (i # 0 => app.open_tabs[i].path = path)
      /\ (i = 0 => \A j \in DOMAIN app.open_tabs : app.open_tabs[j].path # path)
  <2>1. \A j \in js : j \in 1 .. n
    BY <1>1
  <2>2. /\ First(js) \in 0 .. n
        /\ First(js) # 0 => First(js) \in js
        /\ js # {} => First(js) \in js
    <3> HIDE DEF js
    <3> QED  BY <1>1, <2>1, FirstFacts
  <2>3. i = First(js)
    BY DEF DeletedTab
  <2>4. js # {} => First(js) # 0
    BY <2>1, <2>2
  <2> QED  BY <2>2, <2>3, <2>4
<1> HIDE DEF i
<1>4. /\ rest \in Seq(TabE(E)) /\ Len(rest) \in Nat /\ Len(rest) <= n
      /\ Len(rest) = IF i = 0 THEN n ELSE n - 1
  <2>1. CASE i = 0
    BY <1>1, <2>1 DEF TabsLeft, i
  <2>2. CASE i # 0
    <3>1. i \in 1 .. n
      BY <1>1, <1>3, <2>2
    <3>2. RemoveAt(app.open_tabs, i) \in Seq(TabE(E)) /\ Len(RemoveAt(app.open_tabs, i)) = n - 1
      BY <1>1, <3>1, RemoveAtFacts
    <3>3. rest = RemoveAt(app.open_tabs, i)
      BY <2>2 DEF TabsLeft, i
    <3> QED  BY <1>1, <2>2, <3>1, <3>2, <3>3
  <2> QED  BY <2>1, <2>2
<1> HIDE DEF rest
<1>5. /\ active \in Nat \ {0}
      /\ rest # <<>> => active \in 1 .. Len(rest)
      /\ rest = <<>> => active = 1
  <2> DEFINE m == Min({shifted, Len(rest)})
  <2>1. shifted \in Nat /\ shifted >= 1
    BY <1>2, <1>3
  <2> HIDE DEF shifted
  <2>2. m \in {shifted, Len(rest)} /\ m <= shifted /\ m <= Len(rest)
    BY <1>4, <2>1, MinOfTwo
  <2> HIDE DEF m
  <2>3. m \in Nat
    BY <1>4, <2>1, <2>2
  <2>4. active = IF 1 >= m THEN 1 ELSE m
    BY <2>3, MaxOfTwo DEF m
  <2>5. rest = <<>> <=> Len(rest) = 0
    <3>1. rest \in Seq(TabE(E))
      BY <1>4
    <3> QED  BY <3>1
  <2> HIDE DEF active
  <2> QED  BY <1>4, <2>1, <2>2, <2>3, <2>4, <2>5
<1>6. x = [app |-> left, disk |-> d]
  BY DEF DeletedWorld, TabsLeft, DeletedTab, rest, i
<1> HIDE DEF active, x
<1>7. /\ left \in AppE(E) /\ DeletedFrom(app, left, rest) /\ left.active_tab = active
  <2>1. 0 \in 0 .. MaxFiles
    BY DesktopAssumption
  <2> QED  BY <1>1, <1>4, <1>5, <2>1 DEF AppE, DeletedFrom
<1>8. /\ d \in DiskE(E) /\ d.files = files /\ d.tabs = disk.tabs /\ d.recovery = disk.recovery
  <2>1. files \in [Path -> DocE(E) \cup {NoDoc}]
    BY <1>1
  <2> HIDE DEF files
  <2> QED  BY <1>1, <2>1 DEF DiskE
<1> HIDE DEF left, d
<1>9. TypedApp(left, E)
  BY <1>1, <1>5, <1>7 DEF TypedApp, DeletedFrom
<1>10. Typed(x, E) /\ x.app = left /\ x.disk = d
  BY <1>1, <1>6, <1>7, <1>8, <1>9 DEF Typed
<1>11. Whole(x, E)
  <2>1. Answers(left) /\ left.request \in DocE(E) /\ Len(left.open_tabs) <= MaxTabs
    BY <1>1, <1>4, <1>7, DesktopAssumption DEF Answers, DeletedFrom
  <2> QED  BY <1>10, <2>1 DEF Whole
<1> QED  BY <1>3, <1>4, <1>7, <1>8, <1>10, <1>11 DEF x, i, rest

(* What the deletion does after the refresh.                                   *)
LEMMA DeletedEnd ==
  ASSUME NEW E \in Nat, NEW v, Whole(v, E)
  PROVE  LET x == SettingsChanged(RemoveRecovery([v EXCEPT
                    !.app = [Saved(@) EXCEPT !.recovery_restored = FALSE]]))
         IN /\ Whole(x, E) /\ x.app.open_tabs = v.app.open_tabs
            /\ x.app.active_tab = v.app.active_tab
            /\ x.app.selected_collection = v.app.selected_collection
            /\ x.app.requests = v.app.requests /\ x.app.request_path = v.app.request_path
            /\ x.app.request = v.app.request /\ x.app.valid = v.app.valid
            /\ x.app.dirty = v.app.dirty /\ x.app.recovery_restored = FALSE
            /\ x.app.recovery_last_saved = "none"
            /\ x.disk.recovery.drafts = <<>> /\ x.disk.tabs = v.disk.tabs
            /\ x.disk.files = v.disk.files
<1> DEFINE b == [Saved(v.app) EXCEPT !.recovery_restored = FALSE]
           w == [v EXCEPT !.app = b]
           x == SettingsChanged(RemoveRecovery(w))
<1>1. /\ v.app \in AppE(E) /\ Answers(v.app) /\ Typed(v, E) /\ TypedApp(v.app, E)
      /\ v.app.request \in DocE(E) /\ Len(v.app.open_tabs) <= MaxTabs
      /\ v \in [app : AppE(E), disk : DiskE(E)]
  BY WholeFacts
<1>0. x = SettingsChanged(RemoveRecovery([v EXCEPT
                    !.app = [Saved(@) EXCEPT !.recovery_restored = FALSE]]))
  BY <1>1
<1>2. /\ b \in AppE(E) /\ b.open_tabs = v.app.open_tabs
      /\ b.active_tab = v.app.active_tab
      /\ b.selected_collection = v.app.selected_collection
      /\ b.requests = v.app.requests /\ b.request_path = v.app.request_path
      /\ b.request = v.app.request /\ b.valid = v.app.valid
      /\ b.dirty = v.app.dirty /\ b.recovery_restored = FALSE
      /\ b.pending = v.app.pending /\ b.response = v.app.response
      /\ b.recovery_last_saved = "none"
  BY <1>1 DEF AppE, Saved
<1> HIDE DEF b
<1>3. TypedApp(b, E)
  BY <1>1, <1>2 DEF TypedApp
<1>5. Typed(w, E) /\ w.app = b /\ w.disk = v.disk
  BY <1>1, <1>3, AppWorld
<1> HIDE DEF w
<1>6. /\ Typed(RemoveRecovery(w), E) /\ RemoveRecovery(w).app = w.app
      /\ RemoveRecovery(w).disk.files = w.disk.files
      /\ RemoveRecovery(w).disk.tabs = w.disk.tabs
      /\ RemoveRecovery(w).disk.recovery.drafts = <<>>
  BY <1>5, RemoveRecoveryFacts
<1>7. /\ Typed(x, E) /\ x.disk = RemoveRecovery(w).disk
      /\ SameButSaved(RemoveRecovery(w).app, x.app)
      /\ x.app.recovery_last_saved = RemoveRecovery(w).app.recovery_last_saved
  BY <1>6, SettingsFacts
<1> HIDE DEF x
<1>8. SameButSaved(b, x.app) /\ x.app.recovery_last_saved = "none"
  BY <1>2, <1>5, <1>6, <1>7
<1>9. Whole(x, E)
  BY <1>1, <1>2, <1>7, <1>8 DEF Whole, Answers, SameButSaved, SameEditor
<1>10. /\ x.app.open_tabs = v.app.open_tabs
       /\ x.app.active_tab = v.app.active_tab
       /\ x.app.selected_collection = v.app.selected_collection
       /\ x.app.requests = v.app.requests /\ x.app.request_path = v.app.request_path
       /\ x.app.request = v.app.request /\ x.app.valid = v.app.valid
       /\ x.app.dirty = v.app.dirty /\ x.app.recovery_restored = FALSE
  BY <1>2, <1>8 DEF SameButSaved, SameEditor
<1> QED  BY <1>0, <1>5, <1>6, <1>7, <1>8, <1>9, <1>10

LEMMA DeleteWhole ==
  ASSUME NEW E \in Nat, Whole(world, E), app.request_path \in Path, NewDoc \in DocE(E),
         Len(app.open_tabs) < MaxTabs
  PROVE  Whole(DeleteWorld, E)
<1>1. Whole(DeletedWorld, E) /\ DeletedWorld.app.open_tabs = TabsLeft
      /\ Len(TabsLeft) <= Len(app.open_tabs) /\ TabsLeft \in Seq(TabE(E))
      /\ app.open_tabs \in Seq(TabE(E))
  BY DeletedWhole, WholeFacts, WorldIs DEF DeletedFrom
<1>2. Whole(RefreshRequests(DeletedWorld, NoPath), E)
  <2>1. Len(DeletedWorld.app.open_tabs) < MaxTabs
    BY <1>1, DesktopAssumption
  <2> QED  BY <1>1, <2>1, WholeRefresh DEF Whole
<1>3. \A v : Whole(v, E) =>
        Whole(SettingsChanged(RemoveRecovery([v EXCEPT
                    !.app = [Saved(@) EXCEPT !.recovery_restored = FALSE]])), E)
  BY DeletedEnd
<1> QED  BY <1>1, <1>2, <1>3 DEF DeleteWorld

(* The tabs that a discard leaves: those that no restart brought back.          *)
TabsKept ==
  Picked(app.open_tabs, {i \in DOMAIN app.open_tabs : ~app.open_tabs[i].recovered})

KeptFrom(a, left) ==
  /\ left.open_tabs = TabsKept /\ left.requests = a.requests
  /\ left.selected_collection = a.selected_collection
  /\ left.recovery_last_saved = "none"

LEMMA DiscardWhole ==
  ASSUME NEW E \in Nat, Whole(world, E), NewDoc \in DocE(E)
  PROVE  LET x == DiscardWorld
         IN /\ Whole(x, E) /\ x.disk.recovery.drafts = <<>>
            /\ x.disk.files = disk.files /\ x.disk.tabs = disk.tabs
            /\ TabsKept \in Seq(TabE(E))
            /\ \E left : /\ KeptFrom(app, left)
                         /\ TabsKept = <<>> => FreshDraft(left, x.app)
                         /\ TabsKept # <<>> =>
                              \E next \in 1 .. Len(TabsKept) : Shows(left, disk.files, next, x.app)
<1> DEFINE n == Len(app.open_tabs)
           ks == {i \in DOMAIN app.open_tabs : ~app.open_tabs[i].recovered}
           rest == TabsKept
           p == app.active_tab
           before == {i \in 1 .. p - 1 : app.open_tabs[i].recovered}
           left == [Saved(app) EXCEPT !.open_tabs = rest, !.recovery_restored = FALSE]
           empty == ResetNewRequest([left EXCEPT !.active_tab = 1])
           draft == [empty EXCEPT !.open_tabs = <<CurrentTab(empty)>>]
           next == Min({p - Cardinality(before), Len(rest)})
           b == IF rest = <<>> THEN draft ELSE ShowTab(left, disk.files, next)
           w == [world EXCEPT !.app = b]
           x == DiscardWorld
<1>1. /\ app \in AppE(E) /\ Answers(app) /\ Typed(world, E) /\ app.open_tabs \in Seq(TabE(E))
      /\ DOMAIN app.open_tabs = 1 .. n /\ n \in Nat /\ Len(app.requests) <= MaxFiles
      /\ disk.files \in [Path -> DocE(E) \cup {NoDoc}] /\ n <= MaxTabs
      /\ world.app = app /\ world.disk = disk /\ MaxTabs \in Nat \ {0}
  BY WholeFacts, WorldIs, DesktopAssumption
<1>2. p \in Nat /\ p >= 1
  BY <1>1 DEF AppE
<1>3. rest \in Seq(TabE(E)) /\ Len(rest) \in Nat /\ Len(rest) <= n
  <2>1. \A i \in ks : i \in 1 .. n /\ app.open_tabs[i] \in TabE(E)
    BY <1>1
  <2>2. rest = Picked(app.open_tabs, ks)
    BY DEF TabsKept
  <2> HIDE DEF ks
  <2> QED  BY <1>1, <2>1, <2>2, PickedIsSequence
<1>4. next \in Nat /\ (rest # <<>> => next \in 1 .. Len(rest))
  <2>1. before \in SUBSET (1 .. p - 1)
    OBVIOUS
  <2>2. p - 1 \in Nat
    BY <1>2
  <2>3. IsFiniteSet(1 .. p - 1) /\ Cardinality(1 .. p - 1) = p - 1
    BY <2>2, IntervalFacts
  <2> HIDE DEF before
  <2>4. IsFiniteSet(before) /\ Cardinality(before) <= p - 1
    <3> DEFINE all == 1 .. p - 1
    <3> HIDE DEF all
    <3>1. before \in SUBSET all /\ IsFiniteSet(all) /\ Cardinality(all) = p - 1
      BY <2>1, <2>3 DEF all
    <3>2. IsFiniteSet(before) /\ Cardinality(before) <= Cardinality(all)
      BY <3>1, FS_Subset, Zenon
    <3> QED  BY <3>1, <3>2
  <2>5. Cardinality(before) \in Nat
    BY <2>4, FS_CardinalityType
  <2>6. p - Cardinality(before) \in Nat /\ p - Cardinality(before) >= 1
    BY <1>2, <2>4, <2>5
  <2> HIDE DEF rest
  <2>7. next \in {p - Cardinality(before), Len(rest)} /\ next <= Len(rest)
    BY <1>3, <2>6, MinOfTwo
  <2>8. rest # <<>> => Len(rest) >= 1
    BY <1>3
  <2> HIDE DEF next
  <2> QED  BY <1>3, <2>6, <2>7, <2>8
<1>5. x = SettingsChanged(RemoveRecovery(w))
  BY DEF DiscardWorld, TabsKept
<1> HIDE DEF rest, next, x
<1>6. /\ left \in AppE(E) /\ KeptFrom(app, left) /\ left.open_tabs = rest
      /\ left.requests = app.requests
  <2>1. KeptFrom(app, left)
    BY <1>1 DEF AppE, Saved, KeptFrom, rest
  <2> QED  BY <1>1, <1>3, <2>1 DEF AppE, Saved
<1> HIDE DEF left
<1>7. CASE rest = <<>>
  <2>1. TypedApp(draft, E) /\ FreshDraft(left, draft)
    BY <1>1, <1>6, FreshDraftFacts
  <2>2. b = draft
    BY <1>7
  <2> HIDE DEF draft, b
  <2>3. TypedApp(b, E) /\ FreshDraft(left, b)
    BY <2>1, <2>2
  <2>4. /\ Typed(w, E) /\ w.app = b /\ w.disk = disk
    BY <1>1, <2>3, AppWorld
  <2> HIDE DEF w
  <2>5. /\ Typed(RemoveRecovery(w), E) /\ RemoveRecovery(w).app = b
        /\ RemoveRecovery(w).disk.files = disk.files
        /\ RemoveRecovery(w).disk.tabs = disk.tabs
        /\ RemoveRecovery(w).disk.recovery.drafts = <<>>
    BY <2>4, RemoveRecoveryFacts
  <2>6. /\ Typed(x, E) /\ x.disk = RemoveRecovery(w).disk /\ SameButSaved(b, x.app)
        /\ x.app.recovery_last_saved = b.recovery_last_saved
    BY <1>5, <2>5, SettingsFacts
  <2>7. FreshDraft(left, x.app)
    BY <2>3, <2>6 DEF FreshDraft, SameButSaved, SameEditor
  <2>8. Whole(x, E)
    <3>1. Answers(x.app) /\ x.app.request \in DocE(E)
      BY <2>7 DEF FreshDraft, Answers
    <3>2. Len(x.app.open_tabs) = 1
      BY <2>7 DEF FreshDraft
    <3> QED  BY <1>1, <2>6, <3>1, <3>2 DEF Whole
  <2> QED  BY <1>3, <1>6, <1>7, <2>5, <2>6, <2>7, <2>8 DEF x, rest
<1>8. CASE rest # <<>>
  <2>1. TypedApp(ShowTab(left, disk.files, next), E)
        /\ Shows(left, disk.files, next, ShowTab(left, disk.files, next))
    BY <1>1, <1>4, <1>6, <1>8, ShowTabFacts
  <2>2. b = ShowTab(left, disk.files, next)
    BY <1>8
  <2> HIDE DEF b
  <2>3. TypedApp(b, E) /\ Shows(left, disk.files, next, b)
    BY <2>1, <2>2
  <2>4. /\ Typed(w, E) /\ w.app = b /\ w.disk = disk
    BY <1>1, <2>3, AppWorld
  <2> HIDE DEF w
  <2>5. /\ Typed(RemoveRecovery(w), E) /\ RemoveRecovery(w).app = b
        /\ RemoveRecovery(w).disk.files = disk.files
        /\ RemoveRecovery(w).disk.tabs = disk.tabs
        /\ RemoveRecovery(w).disk.recovery.drafts = <<>>
    BY <2>4, RemoveRecoveryFacts
  <2>6. /\ Typed(x, E) /\ x.disk = RemoveRecovery(w).disk /\ SameButSaved(b, x.app)
        /\ x.app.recovery_last_saved = b.recovery_last_saved
    BY <1>5, <2>5, SettingsFacts
  <2>7. Shows(left, disk.files, next, x.app)
    BY <2>3, <2>6 DEF Shows, SameButSaved, SameEditor
  <2>8. Whole(x, E)
    <3>1. Typed(x, E) /\ TypedApp(x.app, E) /\ left.open_tabs # <<>> /\ Len(left.open_tabs) <= MaxTabs
      BY <1>1, <1>3, <1>6, <1>8, <2>6 DEF Typed
    <3> QED  BY <2>7, <3>1, WholeShown
  <2> QED  BY <1>3, <1>4, <1>6, <1>8, <2>5, <2>6, <2>7, <2>8 DEF x, rest
<1> QED  BY <1>7, <1>8

(* A request sent, and the answer taken: only the response fields change.       *)
Awaits(a, b) ==
  /\ b.open_tabs = a.open_tabs /\ b.active_tab = a.active_tab
  /\ b.selected_collection = a.selected_collection /\ b.requests = a.requests
  /\ b.request_path = a.request_path /\ b.request = a.request
  /\ b.valid = a.valid /\ b.dirty = a.dirty
  /\ b.recovery_restored = a.recovery_restored
  /\ b.recovery_last_saved = a.recovery_last_saved

LEMMA SendWhole ==
  ASSUME NEW E \in Nat, Whole(world, E)
  PROVE  Whole(SendWorld, E) /\ SendWorld.disk = disk /\ Awaits(app, SendWorld.app)
<1> DEFINE b == [ClearResponse(app) EXCEPT !.pending = app.request.id]
<1>1. /\ app \in AppE(E) /\ world.app = app /\ world.disk = disk /\ Len(app.open_tabs) <= MaxTabs
      /\ app.open_tabs # <<>> => app.active_tab \in 1 .. Len(app.open_tabs)
      /\ app.open_tabs = <<>> => app.active_tab = 1
      /\ app.request \in DocE(E)
  BY WholeFacts, WorldIs
<1>2. /\ b \in AppE(E) /\ Awaits(app, b) /\ b.response = 0 /\ b.pending = app.request.id
  <2>1. app.request.id \in Ids
    BY <1>1 DEF DocE
  <2> QED  BY <1>1, <2>1 DEF AppE, ClearResponse, Awaits
<1>3. SendWorld = [world EXCEPT !.app = b]
  BY DEF SendWorld
<1> HIDE DEF b
<1>4. Answers(b)
  BY <1>2 DEF Answers, Awaits
<1>5. /\ Whole([world EXCEPT !.app = b], E)
      /\ [world EXCEPT !.app = b].app = b /\ [world EXCEPT !.app = b].disk = world.disk
  BY <1>1, <1>2, <1>4, WholeWith DEF Awaits
<1> QED  BY <1>1, <1>2, <1>3, <1>5

LEMMA PollWhole ==
  ASSUME NEW E \in Nat, Whole(world, E), NEW answer \in {app.pending, app.response}
  PROVE  /\ Whole(PollWorld(answer), E) /\ PollWorld(answer).disk = disk
         /\ Awaits(app, PollWorld(answer).app)
<1> DEFINE b == [app EXCEPT !.pending = 0, !.response = answer]
<1>1. /\ app \in AppE(E) /\ world.app = app /\ world.disk = disk /\ Len(app.open_tabs) <= MaxTabs
      /\ app.open_tabs # <<>> => app.active_tab \in 1 .. Len(app.open_tabs)
      /\ app.open_tabs = <<>> => app.active_tab = 1
      /\ app.request \in DocE(E) /\ Answers(app)
  BY WholeFacts, WorldIs
<1>2. /\ b \in AppE(E) /\ Awaits(app, b) /\ b.response = answer /\ b.pending = 0
  <2>1. answer \in {0} \cup Ids
    BY <1>1 DEF AppE
  <2> QED  BY <1>1, <2>1 DEF AppE, Awaits
<1>3. PollWorld(answer) = [world EXCEPT !.app = b]
  BY DEF PollWorld
<1> HIDE DEF b
<1>4. Answers(b)
  BY <1>1, <1>2 DEF Answers, Awaits
<1>5. /\ Whole([world EXCEPT !.app = b], E)
      /\ [world EXCEPT !.app = b].app = b /\ [world EXCEPT !.app = b].disk = world.disk
  BY <1>1, <1>2, <1>4, WholeWith DEF Awaits
<1> QED  BY <1>1, <1>2, <1>3, <1>5

(* Every command leaves the fields typed.                                      *)
LEMMA WholeGives ==
  ASSUME edits \in Nat, Whole(world, edits), NEW w, NEW new, Gives(w, new)
  PROVE  Whole(w, edits + Cardinality(new)) /\ Cardinality(new) \in {0, 1}
<1> DEFINE E == edits
<1>0. E \in Nat /\ Whole(world, E)
  OBVIOUS
<1>1. MayCreate => NewDoc \in DocE(E) /\ Len(app.open_tabs) < MaxTabs
  BY <1>0, NewDocFacts DEF MayCreate
<1>2. Ids \ UsedIds # {} => NewDoc \in DocE(E)
  BY <1>0, NewDocFacts
<1> HIDE DEF E
<1>3. ASSUME Leaves(w) PROVE Whole(w, E)
  <2>1. CASE w = world
    BY <1>0, <2>1
  <2>2. CASE \E i \in 1 .. MaxTabs : i \in DOMAIN app.open_tabs /\ i # app.active_tab /\ w = SwitchWorld(i)
    BY <1>0, <2>2, SwitchWhole
  <2>3. CASE \E i \in 1 .. MaxTabs :
               /\ i \in DOMAIN app.open_tabs /\ ~app.open_tabs[i].dirty
               /\ RemoveAt(app.open_tabs, i) = <<>> => MayCreate
               /\ w = CloseWorld(i)
    BY <1>0, <1>1, <2>3, CloseWhole
  <2>4. CASE /\ Len(app.open_tabs) > 1
             /\ \A i \in DOMAIN app.open_tabs : i # app.active_tab => ~app.open_tabs[i].dirty
             /\ w = CloseOthersWorld
    BY <1>0, <2>4, CloseOthersWhole
  <2>5. CASE \E t \in 1 .. MaxTabs :
               /\ t \in DOMAIN app.open_tabs /\ t \in {app.active_tab - 1, app.active_tab + 1}
               /\ w = MoveWorld(t)
    BY <1>0, <2>5, MoveWhole
  <2>6. CASE MayCreate /\ w = OpenDraft(world)
    BY <1>0, <1>1, <2>6, WholeDraft, WholeFacts, WorldIs
  <2>7. CASE \E k \in 1 .. MaxFiles :
               k \in DOMAIN app.requests /\ Len(app.open_tabs) < MaxTabs /\ w = SelectEntry(world, k)
    <3>1. PICK k \in DOMAIN app.requests : Len(app.open_tabs) < MaxTabs /\ w = SelectEntry(world, k)
      BY <2>7
    <3>2. k \in 1 .. Len(world.app.requests) /\ Typed(world, E) /\ Len(world.app.open_tabs) < MaxTabs
      <4>1. app.requests \in Seq(EntryE(E))
        BY <1>0, WholeFacts, WorldIs
      <4> QED  BY <1>0, <3>1, <4>1, WholeFacts, WorldIs
    <3> QED  BY <1>0, <3>1, <3>2, WholeSelect
  <2>8. CASE \E c \in Collections : MayCreate /\ w = CollectionWorld(c)
    BY <1>0, <1>1, <2>8, CollectionWhole
  <2>9. CASE \E p \in Path :
               /\ unreadable = {} /\ disk.files[p] # NoDoc /\ MayCreate
               /\ w = RefreshRequests(SelectedWorld(p[1]), p)
    BY <1>0, <1>1, <2>9, CollectionWhole, PathFacts
  <2>10. CASE \E id \in Ids :
               /\ Found(id) # {} /\ Len(app.open_tabs) < MaxTabs
               /\ \A b \in 1 .. HistoryCollection(id) : b \notin unreadable
               /\ w = HistoryWorld(id)
    BY <1>0, <2>10, HistoryWhole
  <2>11. CASE \E p \in Targets(app.selected_collection, app.request_path) :
                app.valid /\ MayCreate /\ w = SaveWorld(p)
    BY <1>0, <1>1, <2>11, SaveWhole DEF Targets
  <2>12. CASE \E p \in Targets(app.selected_collection, NoPath) :
                app.request_path # NoPath /\ app.valid /\ MayCreate /\ w = DuplicateWorld(p)
    BY <1>0, <1>1, <2>12, DuplicateWhole DEF Targets
  <2>13. CASE app.recovery_restored /\ MayCreate /\ w = DiscardWorld
    BY <1>0, <1>1, <2>13, DiscardWhole
  <2>14. CASE app.pending = 0 /\ app.valid /\ w = SendWorld
    BY <1>0, <2>14, SendWhole
  <2>15. CASE \E answer \in {app.pending, app.response} : app.pending # 0 /\ w = PollWorld(answer)
    BY <1>0, <2>15, PollWhole
  <2> QED  BY <1>3, <2>1, <2>2, <2>3, <2>4, <2>5, <2>6, <2>7, <2>8, <2>9, <2>10, <2>11,
              <2>12, <2>13, <2>14, <2>15 DEF Leaves
<1>4. ASSUME Imports(w) PROVE Whole(w, E)
  BY <1>0, <1>2, <1>4, ImportWhole DEF Imports
<1>5. ASSUME Deletes(w) PROVE Whole(w, E)
  <2>1. app.request_path \in Path
    BY <1>0, <1>5, WholeFacts, WorldIs DEF Deletes
  <2> QED  BY <1>0, <1>1, <1>5, <2>1, DeleteWhole DEF Deletes
<1>6. CASE new = {}
  <2>1. Cardinality(new) = 0 /\ E + 0 = E
    BY <1>0, <1>6, FS_EmptySet
  <2>2. Leaves(w) \/ Imports(w) \/ Deletes(w)
    BY <1>6 DEF Gives
  <2> QED  BY <1>3, <1>4, <1>5, <2>1, <2>2 DEF E
<1>7. CASE new = {edits + 1}
  <2>1. Cardinality(new) = 1
    BY <1>7, FS_Singleton
  <2>2. \E v \in BOOLEAN : w = EditWorld(v)
    BY <1>7 DEF Gives, Edits
  <2> QED  BY <1>0, <2>1, <2>2, EditWhole DEF E
<1> QED  BY <1>6, <1>7 DEF Gives

-----------------------------------------------------------------------------
(* PostlyApp::open: the tabs of the saved list, and those of the snapshot.      *)
SavedTab(files, p) ==
  [coll |-> p[1], path |-> p, doc |-> files[p], dirty |-> FALSE, recovered |-> FALSE]
DraftedTab(d) ==
  [coll |-> d.coll, path |-> NoPath, doc |-> d.doc, dirty |-> TRUE, recovered |-> TRUE]

Kinds(w) == {i \in DOMAIN w.disk.tabs.paths : w.disk.files[w.disk.tabs.paths[i]] # NoDoc}
FoundPaths(w) == Picked(w.disk.tabs.paths, Kinds(w))

RestoredFrom(w, x) ==
  \E a : \E next \in 1 .. Len(FoundPaths(w)) :
    /\ a.open_tabs = [i \in DOMAIN FoundPaths(w) |-> SavedTab(w.disk.files, FoundPaths(w)[i])]
    /\ a.requests = w.app.requests /\ a.recovery_last_saved = w.app.recovery_last_saved
    /\ Shows(a, w.disk.files, next, x.app)

LEMMA FoundPathsFacts ==
  ASSUME NEW E \in Nat, NEW w, Typed(w, E)
  PROVE  /\ FoundPaths(w) \in Seq(Path) /\ Len(FoundPaths(w)) \in Nat
         /\ \A i \in 1 .. Len(FoundPaths(w)) :
              /\ FoundPaths(w)[i] \in Path /\ w.disk.files[FoundPaths(w)[i]] \in DocE(E)
              /\ SavedTab(w.disk.files, FoundPaths(w)[i]) \in TabE(E)
<1> DEFINE saved == w.disk.tabs.paths
           ks == Kinds(w)
           n == Len(saved)
           files == w.disk.files
<1>1. saved \in Seq(Path) /\ n \in Nat /\ DOMAIN saved = 1 .. n /\ files \in [Path -> DocE(E) \cup {NoDoc}]
  BY DEF Typed, DiskE
<1>2. \A i \in ks : i \in 1 .. n /\ saved[i] \in Path /\ files[saved[i]] # NoDoc
  BY <1>1 DEF Kinds
<1>3. FoundPaths(w) = Picked(saved, ks)
  BY DEF FoundPaths
<1> HIDE DEF ks, saved, n
<1>4. Picked(saved, ks) \in Seq(Path) /\ Len(Picked(saved, ks)) \in Nat
      /\ Len(Picked(saved, ks)) = Cardinality(ks)
  BY <1>1, <1>2, PickedIsSequence
<1>5. \A k \in 1 .. Cardinality(ks) : Nth(ks, k) \in ks /\ Picked(saved, ks)[k] = saved[Nth(ks, k)]
  BY <1>1, <1>2, PickedFacts
<1>6. ASSUME NEW p \in Path, files[p] # NoDoc
      PROVE  files[p] \in DocE(E) /\ SavedTab(files, p) \in TabE(E)
  <2>1. files[p] \in DocE(E) /\ p[1] \in Collections
    BY <1>1, <1>6, PathFacts
  <2> QED  BY <2>1 DEF SavedTab, TabE
<1>7. \A i \in 1 .. Cardinality(ks) : Picked(saved, ks)[i] \in Path /\ files[Picked(saved, ks)[i]] # NoDoc
  BY <1>2, <1>5
<1> QED  BY <1>3, <1>4, <1>6, <1>7

LEMMA RestoreTabsFacts ==
  ASSUME NEW E \in Nat, NEW w, Typed(w, E)
  PROVE  LET x == RestoreTabs(w)
         IN /\ Typed(x, E) /\ x.disk = w.disk
            /\ FoundPaths(w) = <<>> => x = w
            /\ FoundPaths(w) # <<>> => RestoredFrom(w, x) /\ x.app.open_tabs # <<>>
<1> DEFINE paths == FoundPaths(w)
           files == w.disk.files
           tabs == [i \in DOMAIN paths |-> SavedTab(files, paths[i])]
           js == {i \in DOMAIN paths : paths[i] = w.disk.tabs.active}
           next == Max({1, First(js)})
           a == [w.app EXCEPT !.open_tabs = tabs]
           s == ShowTab(a, files, next)
           b == [s EXCEPT !.tabs_settings_dirty = FALSE]
           x == RestoreTabs(w)
<1>1. /\ w \in [app : AppE(E), disk : DiskE(E)] /\ w.app \in AppE(E) /\ TypedApp(w.app, E)
      /\ files \in [Path -> DocE(E) \cup {NoDoc}] /\ Len(w.app.requests) <= MaxFiles
  BY DEF Typed, TypedApp, DiskE
<1>2. /\ paths \in Seq(Path) /\ Len(paths) \in Nat
      /\ DOMAIN paths = 1 .. Len(paths)
      /\ \A i \in 1 .. Len(paths) : SavedTab(files, paths[i]) \in TabE(E)
  BY FoundPathsFacts
<1>3. x = IF paths = <<>> THEN w ELSE [w EXCEPT !.app = b]
  BY <1>1 DEF RestoreTabs, FoundPaths, Kinds, SavedTab
<1> HIDE DEF x
<1>4. CASE paths = <<>>
  BY <1>3, <1>4 DEF x
<1>5. CASE paths # <<>>
  <2>1. Len(paths) >= 1
    BY <1>2, <1>5
  <2>2. next \in 1 .. Len(paths)
    <3>1. \A i \in js : i \in 1 .. Len(paths)
      BY <1>2
    <3> HIDE DEF js
    <3>2. First(js) \in 0 .. Len(paths)
      BY <1>2, <3>1, FirstFacts
    <3>3. First(js) \in Nat
      BY <1>2, <3>2
    <3>4. next = IF 1 >= First(js) THEN 1 ELSE First(js)
      BY <3>3, MaxOfTwo
    <3> HIDE DEF next
    <3> QED  BY <1>2, <2>1, <3>2, <3>3, <3>4
  <2>3. tabs \in Seq(TabE(E)) /\ Len(tabs) = Len(paths)
    BY <1>2
  <2> HIDE DEF next, tabs, paths
  <2>4. /\ a \in AppE(E) /\ a.open_tabs = tabs /\ a.requests = w.app.requests
        /\ a.recovery_last_saved = w.app.recovery_last_saved
    BY <1>1, <2>3, WithTabs
  <2> HIDE DEF a
  <2>5. TypedApp(s, E) /\ Shows(a, files, next, s)
    BY <1>1, <2>2, <2>3, <2>4, ShowTabFacts
  <2> HIDE DEF s
  <2>6. s \in AppE(E)
    BY <2>5 DEF TypedApp
  <2>7. /\ b \in AppE(E) /\ SameButSaved(s, b) /\ b.recovery_last_saved = s.recovery_last_saved
    BY <2>6 DEF AppE, SameButSaved, SameEditor
  <2> HIDE DEF b
  <2>8. TypedApp(b, E) /\ Shows(a, files, next, b)
    BY <2>5, <2>7 DEF TypedApp, Shows, SameButSaved, SameEditor
  <2>9. Typed(x, E) /\ x.app = b /\ x.disk = w.disk
    BY <1>3, <1>5, <2>8, AppWorld
  <2>10. RestoredFrom(w, x)
    BY <2>2, <2>4, <2>8, <2>9 DEF RestoredFrom, tabs, paths
  <2>11. x.app.open_tabs # <<>>
    <3>1. x.app.open_tabs = tabs
      BY <2>4, <2>8, <2>9 DEF Shows
    <3> QED  BY <1>2, <2>1, <2>3, <3>1
  <2> QED  BY <1>5, <2>9, <2>10, <2>11 DEF x, paths
<1> QED  BY <1>4, <1>5

RecoveredFrom(w, x) ==
  \E a : \E next \in Len(w.app.open_tabs) + 1 .. Len(w.app.open_tabs) + Len(w.disk.recovery.drafts) :
    /\ a.open_tabs = w.app.open_tabs \o [i \in DOMAIN w.disk.recovery.drafts |->
                                           DraftedTab(w.disk.recovery.drafts[i])]
    /\ a.requests = w.app.requests
    /\ \E b : Shows(a, w.disk.files, next, b) /\ SameButSaved(b, x.app)
    /\ x.app.recovery_last_saved = "recent"

LEMMA RestoreRecoveryFacts ==
  ASSUME NEW E \in Nat, NEW w, Typed(w, E)
  PROVE  LET x == RestoreRecovery(w)
         IN /\ Typed(x, E) /\ x.disk = w.disk
            /\ w.disk.recovery.drafts = <<>> => x = w
            /\ w.disk.recovery.drafts # <<>> => RecoveredFrom(w, x) /\ x.app.open_tabs # <<>>
<1> DEFINE drafts == w.disk.recovery.drafts
           files == w.disk.files
           tabs == [i \in DOMAIN drafts |-> DraftedTab(drafts[i])]
           m == Len(w.app.open_tabs)
           both == w.app.open_tabs \o tabs
           next == m + Min({w.disk.recovery.active, Len(drafts)})
           a == [w.app EXCEPT !.open_tabs = both]
           s == ShowTab(a, files, next)
           b == [s EXCEPT !.recovery_last_saved = "recent", !.tabs_settings_dirty = TRUE]
           x == RestoreRecovery(w)
<1>1. /\ w \in [app : AppE(E), disk : DiskE(E)] /\ w.app \in AppE(E) /\ TypedApp(w.app, E)
      /\ files \in [Path -> DocE(E) \cup {NoDoc}] /\ Len(w.app.requests) <= MaxFiles
      /\ drafts \in Seq(DraftE(E)) /\ Len(drafts) \in Nat /\ DOMAIN drafts = 1 .. Len(drafts)
      /\ w.disk.recovery.active \in Nat
      /\ drafts # <<>> => w.disk.recovery.active >= 1
      /\ w.app.open_tabs \in Seq(TabE(E)) /\ m \in Nat
  BY DesktopAssumption DEF Typed, TypedApp, DiskE, AppE
<1>3. x = IF drafts = <<>> THEN w ELSE [w EXCEPT !.app = b]
  BY <1>1 DEF RestoreRecovery, DraftedTab
<1> HIDE DEF x
<1>4. CASE drafts = <<>>
  BY <1>3, <1>4 DEF x
<1>5. CASE drafts # <<>>
  <2>1. Len(drafts) >= 1 /\ w.disk.recovery.active >= 1
    BY <1>1, <1>5
  <2>2. next \in m + 1 .. m + Len(drafts) /\ next \in Nat
    <3>1. Min({w.disk.recovery.active, Len(drafts)}) \in {w.disk.recovery.active, Len(drafts)}
          /\ Min({w.disk.recovery.active, Len(drafts)}) <= Len(drafts)
      BY <1>1, MinOfTwo
    <3> DEFINE l == Min({w.disk.recovery.active, Len(drafts)})
               k == Len(drafts)
    <3>2. l \in Nat /\ l >= 1 /\ l <= k /\ k \in Nat /\ m \in Nat /\ next = m + l
      BY <1>1, <2>1, <3>1
    <3> HIDE DEF l, k, m, next
    <3>3. next \in m + 1 .. m + k /\ next \in Nat
      BY <3>2
    <3> QED  BY <3>3 DEF k
  <2>3. tabs \in Seq(TabE(E)) /\ Len(tabs) = Len(drafts)
    <3>1. \A i \in 1 .. Len(drafts) : DraftedTab(drafts[i]) \in TabE(E)
      <4>1. \A d \in DraftE(E) : DraftedTab(d) \in TabE(E)
        BY DEF DraftE, TabE, DraftedTab
      <4>2. \A i \in 1 .. Len(drafts) : drafts[i] \in DraftE(E)
        BY <1>1
      <4> QED  BY <4>1, <4>2
    <3> QED  BY <1>1, <3>1
  <2> HIDE DEF next, tabs
  <2>12. both \in Seq(TabE(E)) /\ Len(both) = m + Len(drafts)
    <3>1. both \in Seq(TabE(E)) /\ Len(both) = Len(w.app.open_tabs) + Len(tabs)
      BY <1>1, <2>3, ConcatFacts
    <3> QED  BY <2>3, <3>1
  <2> HIDE DEF both, drafts
  <2>4. /\ a \in AppE(E) /\ a.open_tabs = both /\ a.requests = w.app.requests
    BY <1>1, <2>12, WithTabs
  <2> HIDE DEF a
  <2>13. next \in 1 .. Len(both)
    <3> HIDE DEF m
    <3> QED  BY <1>1, <2>2, <2>12
  <2>5. TypedApp(s, E) /\ Shows(a, files, next, s)
    BY <1>1, <2>4, <2>13, ShowTabFacts
  <2> HIDE DEF s
  <2>6. s \in AppE(E)
    BY <2>5 DEF TypedApp
  <2>7. /\ b \in AppE(E) /\ SameButSaved(s, b) /\ b.recovery_last_saved = "recent"
    BY <2>6 DEF AppE, SameButSaved, SameEditor
  <2> HIDE DEF b
  <2>8. TypedApp(b, E)
    BY <2>5, <2>7 DEF TypedApp, SameButSaved, SameEditor
  <2>9. Typed(x, E) /\ x.app = b /\ x.disk = w.disk
    BY <1>3, <1>5, <2>8, AppWorld
  <2>10. RecoveredFrom(w, x)
    <3>1. a.open_tabs = w.app.open_tabs \o [i \in DOMAIN w.disk.recovery.drafts |->
                                           DraftedTab(w.disk.recovery.drafts[i])]
      BY <2>4 DEF both, tabs, drafts
    <3>2. next \in Len(w.app.open_tabs) + 1 .. Len(w.app.open_tabs) + Len(w.disk.recovery.drafts)
      BY <2>2 DEF drafts
    <3> QED  BY <2>4, <2>5, <2>7, <2>9, <3>1, <3>2 DEF RecoveredFrom
  <2>11. x.app.open_tabs # <<>>
    <3>1. x.app.open_tabs = both
      BY <2>4, <2>5, <2>7, <2>9 DEF Shows, SameButSaved
    <3> HIDE DEF m
    <3> QED  BY <1>1, <2>1, <2>12, <3>1
  <2> QED  BY <1>5, <2>9, <2>10, <2>11 DEF x, drafts
<1> QED  BY <1>4, <1>5

LEMMA EndWhole ==
  ASSUME NEW E \in Nat, NEW w, Whole(w, E)
  PROVE  Whole(EndOfFrame(w), E)
BY WholeFacts, EndOfFrameTyped DEF Whole, Answers, SameEditor

LEMMA UnsavedEditsFacts ==
  ASSUME NEW E \in Nat, NEW a, TypedApp(a, E)
  PROVE  UnsavedEdits(a) \subseteq 1 .. E
<1>1. a.open_tabs \in Seq(TabE(E)) /\ DOMAIN a.open_tabs = 1 .. Len(a.open_tabs)
  BY DEF TypedApp, AppE
<1>2. \A i \in DOMAIN a.open_tabs : a.open_tabs[i].doc.edit \in 0 .. E
  <2>1. \A t \in TabE(E) : t.doc.edit \in 0 .. E
    BY DEF TabE, DocE
  <2>2. \A i \in DOMAIN a.open_tabs : a.open_tabs[i] \in TabE(E)
    BY <1>1
  <2> QED  BY <2>1, <2>2
<1> QED  BY <1>2 DEF UnsavedEdits

LEMMA BlankFacts ==
  ASSUME NEW E \in Nat
  PROVE  TypedApp(Blank, E) /\ Answers(Blank) /\ Blank.open_tabs = <<>> /\ Blank.valid = TRUE
         /\ Blank.dirty = FALSE
<1>1. 1 \in Collections /\ <<>> \in Seq(TabE(E)) /\ <<>> \in Seq(EntryE(E)) /\ 0 \in 0 .. MaxFiles
      /\ Len(<<>>) = 0
  BY PathFacts, DesktopAssumption
<1>2. Blank \in AppE(E)
  BY <1>1 DEF Blank, AppE
<1>3. Blank.open_tabs = <<>> /\ Blank.active_tab = 1 /\ Blank.dirty = FALSE /\ Blank.requests = <<>>
      /\ Blank.valid = TRUE /\ Blank.response = 0 /\ Blank.pending = 0
  BY DEF Blank
<1>4. Len(Blank.requests) <= MaxFiles
  BY <1>1, <1>3, DesktopAssumption
<1> QED  BY <1>2, <1>3, <1>4 DEF TypedApp, Answers

(* The inductive invariant of TypeOK and ResponseOfShownRequest.                *)
TabsTyped ==
  /\ Typed(world, edits) /\ Len(app.open_tabs) <= MaxTabs /\ Answers(app)
  /\ unreadable \subseteq 2 .. NCollections
  /\ running \in BOOLEAN /\ edits \in 0 .. MaxEdits
  /\ commands \in 0 .. MaxCommands /\ starts \in 0 .. MaxStarts
  /\ fresh \subseteq 1 .. edits /\ owed \subseteq allowed /\ allowed \subseteq 1 .. edits
  /\ running => app.request \in DocE(edits)
  /\ ~running => app = Blank

LEMMA TypedWorld ==
  ASSUME NEW E \in Nat, NEW a, NEW d, TypedApp(a, E), d \in DiskE(E),
         d.recovery.drafts # <<>> => d.recovery.active >= 1
  PROVE  Typed([app |-> a, disk |-> d], E)
BY DEF Typed, TypedApp

LEMMA TypedParts ==
  ASSUME NEW E \in Nat, NEW w, Typed(w, E)
  PROVE  /\ TypedApp(w.app, E) /\ w.disk \in DiskE(E)
         /\ w.disk.recovery.drafts # <<>> => w.disk.recovery.active >= 1
BY DEF Typed

LEMMA TabsTypedInit == Init => TabsTyped
<1> SUFFICES ASSUME Init PROVE TabsTyped
  OBVIOUS
<1>1. disk.files \in [Path -> DocE(0) \cup {NoDoc}] /\ disk.recovery = NoSnapshot
      /\ disk.tabs = [paths |-> <<>>, active |-> NoPath]
  <2>1. /\ disk.recovery = NoSnapshot /\ disk.tabs = [paths |-> <<>>, active |-> NoPath]
        /\ disk.files \in [Path -> Doc \cup {NoDoc}]
        /\ \A p \in Path : disk.files[p] \in {NoDoc, [id |-> (p[1] - 1) * MaxFiles + p[2],
                                                     edit |-> 0]}
    BY DEF Init
  <2>2. ASSUME NEW p \in Path PROVE disk.files[p] \in DocE(0) \cup {NoDoc}
    <3>1. CASE disk.files[p] = NoDoc
      BY <3>1
    <3>2. CASE disk.files[p] # NoDoc
      <4>1. disk.files[p] \in Doc /\ disk.files[p].edit = 0
        BY <2>1, <3>2
      <4> QED  BY <4>1 DEF Doc, DocE
    <3> QED  BY <3>1, <3>2
  <2> QED  BY <2>1, <2>2
<1>2. disk \in DiskE(0) /\ disk.recovery.drafts = <<>>
  <2>1. \E f, r, t : disk = [files |-> f, recovery |-> r, tabs |-> t]
    BY DEF Init
  <2>2. /\ NoSnapshot \in [drafts : Seq(DraftE(0)), active : 0 .. MaxTabs] /\ NoSnapshot.drafts = <<>>
        /\ [paths |-> <<>>, active |-> NoPath] \in [paths : Seq(Path), active : Path \cup {NoPath}]
    BY DesktopAssumption DEF NoSnapshot
  <2> QED  BY <1>1, <2>1, <2>2 DEF DiskE
<1>3. app = Blank /\ edits = 0 /\ TypedApp(app, 0) /\ Answers(app) /\ app.open_tabs = <<>>
  BY BlankFacts DEF Init
<1>4. Typed(world, 0)
  BY <1>2, <1>3, TypedWorld DEF world
<1>5. Len(app.open_tabs) = 0
  BY <1>3
<1>6. Typed(world, edits) /\ Len(app.open_tabs) <= MaxTabs /\ edits \in 0 .. MaxEdits
  BY <1>3, <1>4, <1>5, DesktopAssumption
<1>7. /\ unreadable \subseteq 2 .. NCollections /\ running = FALSE
      /\ commands \in 0 .. MaxCommands /\ starts \in 0 .. MaxStarts
      /\ fresh = {} /\ owed = {} /\ allowed = {}
  BY DesktopAssumption DEF Init
<1> QED  BY <1>3, <1>6, <1>7 DEF TabsTyped

LEMMA TabsTypedWhole ==
  ASSUME TabsTyped, running
  PROVE  Whole(world, edits) /\ edits \in Nat
BY WorldIs DEF TabsTyped, Whole

(* A frame takes a typed world to a typed state.                               *)
LEMMA TabsTypedFrame ==
  ASSUME TabsTyped, NEW w, NEW new, Gives(w, new), Frame(w, new),
         commands' \in 0 .. MaxCommands
  PROVE  TabsTyped'
<1> DEFINE E == edits + Cardinality(new)
<1>1. running /\ Whole(world, edits) /\ edits \in Nat
  BY TabsTypedWhole DEF Frame
<1>2. Whole(w, E) /\ Cardinality(new) \in {0, 1}
  BY <1>1, WholeGives
<1>3. E \in Nat /\ edits' = E /\ E \in edits .. edits + 1
  BY <1>1, <1>2 DEF Frame
<1>4. edits' \in 0 .. MaxEdits /\ new \subseteq 1 .. edits'
  <2>1. CASE new = {}
    BY <1>3, <2>1, FS_EmptySet DEF TabsTyped
  <2>2. CASE new = {edits + 1} /\ Edits(w)
    <3>1. Cardinality(new) = 1
      BY <2>2, FS_Singleton
    <3> QED  BY <1>1, <1>3, <2>2, <3>1, DesktopAssumption DEF Edits
  <2> QED  BY <2>1, <2>2 DEF Gives
<1> HIDE DEF E
<1>5. /\ unreadable' \subseteq 2 .. NCollections /\ starts' \in 0 .. MaxStarts
      /\ fresh \subseteq 1 .. edits' /\ owed \subseteq allowed /\ allowed \subseteq 1 .. edits'
  BY <1>1, <1>3 DEF TabsTyped, Frame
<1>6. CASE /\ Become(EndOfFrame(w))
           /\ fresh' = IF RecoveryDue(w) /\ w.app.valid THEN {} ELSE fresh \cup new
           /\ UNCHANGED <<running, owed, allowed>>
  <2>1. Whole(EndOfFrame(w), E)
    BY <1>2, <1>3, EndWhole
  <2> DEFINE x == EndOfFrame(w)
  <2> HIDE DEF x
  <2>2. app' = x.app /\ disk' = x.disk /\ Whole(x, E)
    BY <1>6, <2>1 DEF Become, x
  <2>3. /\ TypedApp(app', E) /\ disk' \in DiskE(E) /\ Len(app'.open_tabs) <= MaxTabs
        /\ disk'.recovery.drafts # <<>> => disk'.recovery.active >= 1
        /\ app'.request \in DocE(E) /\ Answers(app')
    BY <1>3, <2>2, TypedParts DEF Whole
  <2>4. Typed([app |-> app', disk |-> disk'], E)
    BY <1>3, <2>3, TypedWorld
  <2>5. fresh' \subseteq 1 .. edits'
    BY <1>4, <1>5, <1>6
  <2> QED  BY <1>1, <1>3, <1>4, <1>5, <1>6, <2>3, <2>4, <2>5 DEF TabsTyped, world
<1>7. CASE Stop(w.disk, {}, 1 .. edits')
  <2>1. /\ w.disk \in DiskE(E) /\ (w.disk.recovery.drafts # <<>> => w.disk.recovery.active >= 1)
    BY <1>2, <1>3, TypedParts DEF Whole
  <2>2. /\ app' = Blank /\ disk' = w.disk /\ running' = FALSE /\ fresh' = {} /\ owed' = {}
        /\ allowed' = 1 .. edits'
    BY <1>7 DEF Stop
  <2>3. TypedApp(app', E) /\ Answers(app') /\ app'.open_tabs = <<>>
    BY <1>3, <2>2, BlankFacts
  <2>4. Typed([app |-> app', disk |-> disk'], E)
    BY <1>3, <2>1, <2>2, <2>3, TypedWorld
  <2>5. Len(app'.open_tabs) <= MaxTabs
    BY <2>3, DesktopAssumption
  <2> QED  BY <1>3, <1>4, <1>5, <2>2, <2>3, <2>4, <2>5 DEF TabsTyped, world
<1> QED  BY <1>6, <1>7 DEF Frame

(* The program ends: the memory is gone, the disk is as `d`.                   *)
LEMMA TabsTypedStop ==
  ASSUME TabsTyped, NEW d, d \in DiskE(edits),
         d.recovery.drafts # <<>> => d.recovery.active >= 1,
         NEW must, NEW may, must \subseteq may, may \subseteq 1 .. edits, Stop(d, must, may),
         UNCHANGED <<unreadable, edits, commands, starts>>
  PROVE  TabsTyped'
<1>1. edits \in Nat /\ edits' = edits
  BY DEF TabsTyped
<1>2. /\ app' = Blank /\ disk' = d /\ running' = FALSE /\ fresh' = {} /\ owed' = must
      /\ allowed' = may
  BY DEF Stop
<1>3. TypedApp(app', edits) /\ Answers(app') /\ app'.open_tabs = <<>>
  BY <1>1, <1>2, BlankFacts
<1>4. Typed([app |-> app', disk |-> disk'], edits)
  BY <1>1, <1>2, <1>3, TypedWorld
<1>5. Len(app'.open_tabs) <= MaxTabs
  BY <1>3, DesktopAssumption
<1> QED  BY <1>1, <1>2, <1>3, <1>4, <1>5 DEF TabsTyped, world

LEMMA OnExitTyped ==
  ASSUME TabsTyped, running
  PROVE  LET v == IF HasDirtyWork(app) THEN PersistRecovery(world) ELSE world
         IN Typed(v, edits) /\ Typed(SaveTabsSettings(v), edits)
<1> DEFINE v == IF HasDirtyWork(app) THEN PersistRecovery(world) ELSE world
<1>1. Typed(world, edits) /\ edits \in Nat /\ Len(world.app.open_tabs) <= MaxTabs
  BY WorldIs DEF TabsTyped
<1>2. Typed(PersistRecovery(world), edits)
  BY <1>1, PersistFacts
<1>3. Typed(v, edits)
  BY <1>1, <1>2
<1> HIDE DEF v
<1>4. Typed(SaveTabsSettings(v), edits)
  BY <1>1, <1>3, SaveTabsFacts
<1> QED  BY <1>3, <1>4 DEF v

(* What PostlyApp::open has before the first frame.                            *)
Listed0 == RefreshRequests(world, NoPath)
OpenedWorld == RestoreRecovery(RestoreTabs(Listed0))

LEMMA OpenWhole ==
  ASSUME TabsTyped, OpenApp
  PROVE  /\ Whole(Listed0, edits) /\ Typed(RestoreTabs(Listed0), edits)
         /\ Whole(OpenedWorld, edits)
<1> DEFINE u == Listed0
           v == RestoreTabs(u)
           x == OpenedWorld
<1>1. /\ Typed(world, edits) /\ edits \in Nat /\ app = Blank /\ Ids \ UsedIds # {}
      /\ Len(x.app.open_tabs) <= MaxTabs
  BY DEF TabsTyped, OpenApp, OpenedWorld, Listed0
<1>2. app.open_tabs = <<>> /\ app.valid = TRUE
  BY <1>1, BlankFacts
<1>3. Whole(u, edits)
  <2>1. Len(world.app.open_tabs) < MaxTabs /\ ~SyncFails(world.app)
    BY <1>2, WorldIs, DesktopAssumption DEF SyncFails
  <2>2. NewDoc \in DocE(edits)
    BY <1>1, NewDocFacts
  <2> QED  BY <1>1, <2>1, <2>2, WholeRefresh DEF Listed0
<1> HIDE DEF u
<1>4. /\ Typed(v, edits) /\ v.app.request \in DocE(edits) /\ Answers(v.app)
  <2>1. /\ Typed(v, edits) /\ FoundPaths(u) = <<>> => v = u
        /\ FoundPaths(u) # <<>> => RestoredFrom(u, v) /\ v.app.open_tabs # <<>>
    BY <1>1, <1>3, RestoreTabsFacts DEF Whole
  <2>4. /\ Typed(v, edits)
    BY <1>1, <1>3, RestoreTabsFacts DEF Whole
  <2>2. CASE FoundPaths(u) = <<>>
    BY <1>3, <2>1, <2>2, <2>4 DEF Whole
  <2>3. CASE FoundPaths(u) # <<>>
    <3>1. v.app.request \in DocE(edits)
      BY <2>1, <2>3, <2>4 DEF Typed, TypedApp
    <3>2. Answers(v.app)
      BY <2>1, <2>3 DEF RestoredFrom, Shows, Answers
    <3> QED  BY <2>4, <3>1, <3>2
  <2> QED  BY <2>2, <2>3
<1> HIDE DEF v
<1>5. x = RestoreRecovery(v)
  BY DEF OpenedWorld, v, u
<1> HIDE DEF x
<1>6. /\ Typed(x, edits) /\ x.app.request \in DocE(edits) /\ Answers(x.app)
  <2>1. /\ Typed(x, edits)
    BY <1>1, <1>4, <1>5, RestoreRecoveryFacts
  <2>4. /\ v.disk.recovery.drafts = <<>> => x = v
        /\ v.disk.recovery.drafts # <<>> => RecoveredFrom(v, x) /\ x.app.open_tabs # <<>>
    BY <1>1, <1>4, <1>5, RestoreRecoveryFacts
  <2>2. CASE v.disk.recovery.drafts = <<>>
    BY <1>4, <2>1, <2>2, <2>4
  <2>3. CASE v.disk.recovery.drafts # <<>>
    <3>1. x.app.request \in DocE(edits)
      BY <2>1, <2>3, <2>4 DEF Typed, TypedApp
    <3>2. Answers(x.app)
      <4>1. PICK a, next, b : Shows(a, v.disk.files, next, b) /\ SameButSaved(b, x.app)
        BY <2>3, <2>4 DEF RecoveredFrom
      <4>2. x.app.pending = 0 /\ x.app.response = 0
        BY <4>1 DEF Shows, SameButSaved, SameEditor
      <4> QED  BY <4>2 DEF Answers
    <3> QED  BY <2>1, <3>1, <3>2
  <2> QED  BY <2>2, <2>3
<1> QED  BY <1>1, <1>3, <1>4, <1>6 DEF Whole, x, v, u

LEMMA TabsTypedNext ==
  ASSUME TabsTyped, [Next]_vars
  PROVE  TabsTyped'
<1>1. CASE TabCommand
  <2>1. /\ commands' \in 0 .. MaxCommands
        /\ \E w, new : Frame(w, new) /\ Gives(w, new)
    BY <1>1, CommandCases DEF TabsTyped, Gives
  <2> QED  BY <2>1, TabsTypedFrame
<1>2. CASE SecondPasses
  <2>1. Typed(world, edits) /\ edits \in Nat
    BY DEF TabsTyped
  <2>2. /\ TypedApp(app, edits) /\ disk \in DiskE(edits)
        /\ disk.recovery.drafts # <<>> => disk.recovery.active >= 1
    BY <2>1, TypedParts, WorldIs
  <2>3. app' = [app EXCEPT !.recovery_last_saved = "due"] /\ app \in AppE(edits)
        /\ UNCHANGED <<disk, unreadable, running, edits, commands, starts, fresh, owed, allowed>>
    BY <1>2, <2>2 DEF SecondPasses, TypedApp
  <2>4. /\ app' \in AppE(edits) /\ app'.open_tabs = app.open_tabs
        /\ app'.active_tab = app.active_tab /\ app'.requests = app.requests
        /\ app'.request = app.request /\ app'.dirty = app.dirty
        /\ app'.pending = app.pending /\ app'.response = app.response
    BY <2>3 DEF AppE
  <2>5. TypedApp(app', edits)
    BY <2>2, <2>4 DEF TypedApp
  <2>6. Typed([app |-> app', disk |-> disk'], edits)
    BY <2>1, <2>2, <2>3, <2>5, TypedWorld
  <2>7. running
    BY <1>2 DEF SecondPasses
  <2> QED  BY <2>3, <2>4, <2>6, <2>7 DEF TabsTyped, Answers, world
<1>3. CASE OnExit
  <2> DEFINE v == IF HasDirtyWork(app) THEN PersistRecovery(world) ELSE world
             w == SaveTabsSettings(v)
             must == IF app.valid THEN UnsavedEdits(app) ELSE {}
             may == IF app.valid THEN UnsavedEdits(app) ELSE 1 .. edits
  <2>1. running /\ Stop(w.disk, must, may) /\ UNCHANGED <<unreadable, edits, commands, starts>>
    BY <1>3 DEF OnExit
  <2>2. Typed(w, edits) /\ edits \in Nat /\ TypedApp(app, edits)
    BY <2>1, OnExitTyped, TypedParts, WorldIs DEF TabsTyped
  <2> HIDE DEF v, w
  <2>3. must \subseteq may /\ may \subseteq 1 .. edits
    BY <2>2, UnsavedEditsFacts
  <2> HIDE DEF must, may
  <2>4. /\ w.disk \in DiskE(edits) /\ (w.disk.recovery.drafts # <<>> => w.disk.recovery.active >= 1)
    BY <2>2, TypedParts
  <2> DEFINE d == w.disk
  <2>5. Stop(d, must, may) /\ d \in DiskE(edits) /\ (d.recovery.drafts # <<>> => d.recovery.active >= 1)
    BY <2>1, <2>4
  <2> HIDE DEF d
  <2> QED  BY <2>1, <2>3, <2>5, TabsTypedStop
<1>4. CASE Crash
  <2> DEFINE must == IF app.valid THEN UnsavedEdits(app) \ fresh ELSE {}
             may == 1 .. edits
  <2>1. running /\ Stop(disk, must, may) /\ UNCHANGED <<unreadable, edits, commands, starts>>
    BY <1>4 DEF Crash
  <2>2. edits \in Nat /\ TypedApp(app, edits) /\ disk \in DiskE(edits)
        /\ (disk.recovery.drafts # <<>> => disk.recovery.active >= 1)
    BY TypedParts, WorldIs DEF TabsTyped
  <2>3. must \subseteq may /\ may \subseteq 1 .. edits
    BY <2>2, UnsavedEditsFacts
  <2> HIDE DEF must, may
  <2> DEFINE d == disk
  <2>5. Stop(d, must, may) /\ d \in DiskE(edits) /\ (d.recovery.drafts # <<>> => d.recovery.active >= 1)
    BY <2>1, <2>2
  <2> HIDE DEF d
  <2> QED  BY <2>1, <2>3, <2>5, TabsTypedStop
<1>5. CASE OpenApp
  <2> DEFINE x == EndOfFrame(OpenedWorld)
  <2>1. Whole(OpenedWorld, edits) /\ edits \in Nat
    BY <1>5, OpenWhole DEF TabsTyped
  <2>2. Whole(x, edits)
    BY <2>1, EndWhole
  <2>3. /\ app' = x.app /\ disk' = x.disk /\ running' = TRUE /\ fresh' = {} /\ owed' = {}
        /\ allowed' = {} /\ starts' = starts + 1 /\ starts < MaxStarts
        /\ UNCHANGED <<unreadable, edits, commands>>
    BY <1>5 DEF OpenApp, OpenedWorld, Listed0, Become
  <2> HIDE DEF x
  <2>4. /\ TypedApp(app', edits) /\ disk' \in DiskE(edits) /\ Len(app'.open_tabs) <= MaxTabs
        /\ disk'.recovery.drafts # <<>> => disk'.recovery.active >= 1
        /\ app'.request \in DocE(edits) /\ Answers(app')
    BY <2>1, <2>2, <2>3, TypedParts DEF Whole
  <2>5. Typed([app |-> app', disk |-> disk'], edits)
    BY <2>1, <2>4, TypedWorld
  <2>6. starts' \in 0 .. MaxStarts
    BY <2>3, DesktopAssumption DEF TabsTyped
  <2> QED  BY <2>3, <2>4, <2>5, <2>6 DEF TabsTyped, world
<1>6. CASE UNCHANGED vars
  BY <1>6 DEF TabsTyped, vars, world
<1> QED  BY <1>1, <1>2, <1>3, <1>4, <1>5, <1>6 DEF Next

(* Every reachable state is typed.                                             *)
THEOREM TabsTypedInvariant == Spec => []TabsTyped
<1>1. TabsTyped /\ [Next]_vars => TabsTyped'
  BY TabsTypedNext
<1> QED  BY TabsTypedInit, <1>1, PTL DEF Spec

LEMMA TabsTypedTypeOK == TabsTyped => TypeOK
<1> SUFFICES ASSUME TabsTyped PROVE TypeOK
  OBVIOUS
<1>1. /\ edits \in Nat /\ edits <= MaxEdits /\ TypedApp(app, edits) /\ disk \in DiskE(edits)
      /\ Len(app.open_tabs) <= MaxTabs /\ app \in AppE(edits)
  BY TypedParts, WorldIs, DesktopAssumption DEF TabsTyped, TypedApp
<1>2. \A d \in DocE(edits) : d \in Doc
  BY <1>1, DesktopAssumption DEF DocE, Doc
<1>3. /\ \A t \in TabE(edits) : t \in Tab
      /\ \A t \in DraftE(edits) : t \in Draft
      /\ \A t \in EntryE(edits) : t \in Entry
  BY <1>2 DEF TabE, Tab, DraftE, Draft, EntryE, Entry
<1>4. /\ \A s \in Seq(TabE(edits)) : s \in Seq(Tab)
      /\ \A s \in Seq(DraftE(edits)) : s \in Seq(Draft)
      /\ \A s \in Seq(EntryE(edits)) : s \in Seq(Entry)
  BY <1>3
<1>5. app.active_tab \in 1 .. MaxTabs + 1
  <2>1. app.active_tab \in Nat \ {0} /\ app.open_tabs \in Seq(TabE(edits))
    BY <1>1 DEF AppE
  <2>2. app.open_tabs # <<>> => app.active_tab <= Len(app.open_tabs)
    BY <1>1, <2>1 DEF TypedApp
  <2>3. app.open_tabs = <<>> => app.active_tab = 1
    BY <1>1 DEF TypedApp
  <2> QED  BY <1>1, <2>1, <2>2, <2>3, DesktopAssumption
<1>6. app \in App
  BY <1>1, <1>2, <1>4, <1>5 DEF AppE, App
<1>7. disk \in Disk
  BY <1>1, <1>2, <1>4 DEF DiskE, Disk
<1>8. app.open_tabs # <<>> => app.active_tab \in DOMAIN app.open_tabs
  BY <1>1 DEF TypedApp, AppE
<1> QED  BY <1>1, <1>6, <1>7, <1>8 DEF TypeOK, TabsTyped

(* Whatever the commands, crashes and restarts: the fields keep their types,    *)
(* the active tab is one of the tabs, and tabs, files and drafts stay within    *)
(* their bounds.                                                               *)
THEOREM TabsKeepTypes == Spec => []TypeOK
BY TabsTypedInvariant, TabsTypedTypeOK, PTL

(* The answer in the response panel, and the one awaited, is to the request in  *)
(* the editor, whatever was selected, typed, closed or deleted meanwhile.      *)
THEOREM TabsShowOwnResponse == Spec => []ResponseOfShownRequest
<1>1. TabsTyped => ResponseOfShownRequest
  BY DEF TabsTyped, ResponseOfShownRequest, Answers
<1> QED  BY TabsTypedInvariant, <1>1, PTL

-----------------------------------------------------------------------------
(* Where things belong: the tabs of files, each file in one tab and in the tab's *)
(* collection; the editor's file, in the active tab; the requests listed, of the *)
(* selected collection; and what the disk remembers of tabs and drafts.         *)
FiledTabs(tabs, files) ==
  /\ \A i \in 1 .. Len(tabs) : tabs[i].path # NoPath =>
       tabs[i].coll = tabs[i].path[1] /\ files[tabs[i].path] # NoDoc
  /\ \A i, j \in 1 .. Len(tabs) :
       i # j /\ tabs[i].path # NoPath => tabs[i].path # tabs[j].path
Tied(a) ==
  a.request_path # NoPath =>
    a.open_tabs # <<>> /\ a.open_tabs[a.active_tab].path = a.request_path
OwnRequests(a, files) ==
  \A k \in 1 .. Len(a.requests) :
    /\ a.requests[k].path \in Path /\ a.requests[k].path[1] = a.selected_collection
    /\ files[a.requests[k].path] = a.requests[k].doc /\ a.requests[k].doc # NoDoc
FiledDisk(d) ==
  /\ \A i, j \in 1 .. Len(d.tabs.paths) : i # j => d.tabs.paths[i] # d.tabs.paths[j]
  /\ \A k \in 1 .. Len(d.recovery.drafts) : d.recovery.drafts[k].file # NoPath =>
       d.recovery.drafts[k].coll = d.recovery.drafts[k].file[1]
Placed(w) ==
  /\ FiledTabs(w.app.open_tabs, w.disk.files) /\ Tied(w.app)
  /\ OwnRequests(w.app, w.disk.files) /\ FiledDisk(w.disk)

LEMMA OwnSame ==
  ASSUME NEW a, NEW b, NEW files, OwnRequests(a, files),
         b.requests = a.requests, b.selected_collection = a.selected_collection
  PROVE  OwnRequests(b, files)
BY DEF OwnRequests

LEMMA TiedSame ==
  ASSUME NEW a, NEW b, Tied(a), b.open_tabs = a.open_tabs, b.active_tab = a.active_tab,
         b.request_path = a.request_path
  PROVE  Tied(b)
BY DEF Tied

(* Tabs taken out or put in another order stay filed.                          *)
LEMMA FiledPart ==
  ASSUME NEW s, NEW files, FiledTabs(s, files), NEW t, NEW f,
         \A i \in 1 .. Len(t) : f[i] \in 1 .. Len(s) /\ t[i] = s[f[i]],
         \A i, j \in 1 .. Len(t) : i # j => f[i] # f[j]
  PROVE  FiledTabs(t, files)
<1>1. ASSUME NEW i \in 1 .. Len(t), t[i].path # NoPath
      PROVE  t[i].coll = t[i].path[1] /\ files[t[i].path] # NoDoc
  BY <1>1 DEF FiledTabs
<1>2. ASSUME NEW i \in 1 .. Len(t), NEW j \in 1 .. Len(t), i # j, t[i].path # NoPath
      PROVE  t[i].path # t[j].path
  <2>1. f[i] \in 1 .. Len(s) /\ f[j] \in 1 .. Len(s) /\ f[i] # f[j]
        /\ t[i] = s[f[i]] /\ t[j] = s[f[j]]
    BY <1>2
  <2> QED  BY <1>2, <2>1 DEF FiledTabs
<1> QED  BY <1>1, <1>2 DEF FiledTabs

LEMMA FiledSync ==
  ASSUME NEW E \in Nat, NEW a, TypedApp(a, E), NEW files, FiledTabs(a.open_tabs, files),
         Tied(a), OwnRequests(a, files)
  PROVE  LET b == SyncActiveTab(a)
         IN /\ FiledTabs(b.open_tabs, files) /\ Tied(b) /\ OwnRequests(b, files)
            /\ TypedApp(b, E)
<1> DEFINE b == SyncActiveTab(a)
           n == Len(a.open_tabs)
           p == a.request_path
<1>1. /\ TypedApp(b, E) /\ SameEditor(a, b)
      /\ Len(b.open_tabs) = Len(a.open_tabs)
      /\ b.open_tabs = <<>> <=> a.open_tabs = <<>>
      /\ a.open_tabs = <<>> \/ ~a.valid => b = a
      /\ \A i \in 1 .. Len(a.open_tabs) :
           i # a.active_tab => b.open_tabs[i] = a.open_tabs[i]
      /\ a.open_tabs # <<>> /\ a.valid =>
           /\ b.open_tabs[a.active_tab].path = p
           /\ b.open_tabs[a.active_tab].coll =
                IF Positions(a.requests, p) # {} THEN a.selected_collection
                ELSE a.open_tabs[a.active_tab].coll
  BY SyncFacts
<1>2. OwnRequests(b, files)
  BY <1>1 DEF OwnRequests, SameEditor
<1> HIDE DEF b
<1>3. CASE a.open_tabs = <<>> \/ ~a.valid
  BY <1>1, <1>2, <1>3 DEF b
<1>4. CASE a.open_tabs # <<>> /\ a.valid
  <2> DEFINE k == a.active_tab
             t == b.open_tabs[k]
  <2>1. k \in 1 .. n /\ t.path = p /\ b.active_tab = k /\ b.request_path = p
    BY <1>1, <1>4 DEF TypedApp, SameEditor
  <2>2. p # NoPath => t.coll = p[1] /\ a.open_tabs[k].path = p
    <3> SUFFICES ASSUME p # NoPath PROVE t.coll = p[1] /\ a.open_tabs[k].path = p
      OBVIOUS
    <3>1. a.open_tabs[k].path = p
      BY DEF Tied
    <3>2. a.open_tabs[k].coll = p[1]
      BY <2>1, <3>1 DEF FiledTabs
    <3>3. Positions(a.requests, p) # {} => a.selected_collection = p[1]
      <4>1. a.requests \in Seq(EntryE(E))
        BY DEF TypedApp, AppE
      <4> QED  BY <4>1 DEF Positions, OwnRequests
    <3> QED  BY <1>1, <1>4, <3>1, <3>2, <3>3
  <2>3. \A i \in 1 .. n : i # k => b.open_tabs[i] = a.open_tabs[i]
    BY <1>1
  <2>4. ASSUME NEW i \in 1 .. n, b.open_tabs[i].path # NoPath
        PROVE  b.open_tabs[i].coll = b.open_tabs[i].path[1] /\ files[b.open_tabs[i].path] # NoDoc
               /\ a.open_tabs[i].path = b.open_tabs[i].path
    <3>1. CASE i = k
      BY <2>1, <2>2, <2>4, <3>1 DEF FiledTabs
    <3>2. CASE i # k
      BY <2>3, <2>4, <3>2 DEF FiledTabs
    <3> QED  BY <3>1, <3>2
  <2>5. ASSUME NEW i \in 1 .. n, NEW j \in 1 .. n, i # j, b.open_tabs[i].path # NoPath
        PROVE  b.open_tabs[i].path # b.open_tabs[j].path
    <3>1. CASE b.open_tabs[j].path = NoPath
      BY <2>5, <3>1
    <3>2. CASE b.open_tabs[j].path # NoPath
      <4>1. a.open_tabs[i].path = b.open_tabs[i].path /\ a.open_tabs[j].path = b.open_tabs[j].path
        BY <2>4, <2>5, <3>2
      <4> QED  BY <2>5, <4>1 DEF FiledTabs
    <3> QED  BY <3>1, <3>2
  <2>6. FiledTabs(b.open_tabs, files)
    BY <1>1, <2>4, <2>5 DEF FiledTabs
  <2>7. Tied(b)
    BY <1>1, <1>4, <2>1 DEF Tied
  <2> QED  BY <1>1, <1>2, <2>6, <2>7 DEF b
<1> QED  BY <1>3, <1>4

(* The drafts of tabs in their places are in theirs.                           *)
LEMMA FiledDrafts ==
  ASSUME NEW E \in Nat, NEW b, TypedApp(b, E), NEW files, FiledTabs(b.open_tabs, files), Tied(b)
  PROVE  \A k \in 1 .. Len(Drafts(b)) : Drafts(b)[k].file # NoPath =>
           Drafts(b)[k].coll = Drafts(b)[k].file[1]
<1>1. /\ Drafts(b) \in Seq(DraftE(E))
      /\ b.open_tabs # <<>> =>
           \A k \in DOMAIN Drafts(b) : \E i \in DirtyTabs(b) :
             Drafts(b)[k] = DraftOf(b.open_tabs[i])
      /\ b.open_tabs = <<>> /\ ~b.dirty => Drafts(b) = <<>>
      /\ b.open_tabs = <<>> /\ b.dirty =>
           Drafts(b) = <<DraftOf(CurrentTab(b))>> /\ CurrentTab(b) \in TabE(E)
  BY DraftsFacts
<1>2. CASE b.open_tabs # <<>>
  <2> SUFFICES ASSUME NEW k \in 1 .. Len(Drafts(b)), Drafts(b)[k].file # NoPath
               PROVE  Drafts(b)[k].coll = Drafts(b)[k].file[1]
    OBVIOUS
  <2>1. PICK i \in DirtyTabs(b) : Drafts(b)[k] = DraftOf(b.open_tabs[i])
    BY <1>1, <1>2
  <2>2. b.open_tabs \in Seq(TabE(E))
    BY DEF TypedApp, AppE
  <2>3. i \in 1 .. Len(b.open_tabs) /\ b.open_tabs[i] \in TabE(E)
    BY <2>2 DEF DirtyTabs
  <2>4. Drafts(b)[k].coll = b.open_tabs[i].coll /\ Drafts(b)[k].file = b.open_tabs[i].path
    BY <2>1, <2>3, DraftOfFacts
  <2> QED  BY <2>3, <2>4 DEF FiledTabs
<1>3. CASE b.open_tabs = <<>> /\ b.dirty
  <2>1. b.request_path = NoPath
    BY <1>3 DEF Tied
  <2>2. Drafts(b) = <<DraftOf(CurrentTab(b))>> /\ DraftOf(CurrentTab(b)).file = CurrentTab(b).path
    BY <1>1, <1>3, DraftOfFacts
  <2>3. CurrentTab(b).path = NoPath
    BY <2>1 DEF CurrentTab
  <2>4. Len(Drafts(b)) = 1 /\ Drafts(b)[1].file = NoPath
    BY <2>2, <2>3
  <2> QED  BY <2>4
<1>4. CASE b.open_tabs = <<>> /\ ~b.dirty
  BY <1>1, <1>4
<1> QED  BY <1>2, <1>3, <1>4

LEMMA PlacedPersist ==
  ASSUME NEW E \in Nat, NEW w, Typed(w, E), Len(w.app.open_tabs) <= MaxTabs, Placed(w),
         NEW v, PersistFrom(w, v)
  PROVE  Placed(v)
<1> DEFINE b == SyncActiveTab(w.app)
<1>1. TypedApp(w.app, E)
  BY DEF Typed
<1>2. /\ FiledTabs(b.open_tabs, w.disk.files) /\ Tied(b) /\ OwnRequests(b, w.disk.files)
      /\ TypedApp(b, E)
  BY <1>1, FiledSync DEF Placed
<1>3. SameEditor(w.app, b)
  BY <1>1, SyncFacts
<1>4. CASE v = w
  BY <1>4
<1>5. CASE v # w
  <2>1. /\ v.app.open_tabs = b.open_tabs /\ SameEditor(w.app, v.app)
        /\ v.disk.files = w.disk.files /\ v.disk.tabs = w.disk.tabs
        /\ v.disk = w.disk \/ v.disk.recovery.drafts = Drafts(b)
    BY <1>5 DEF PersistFrom
  <2>2. FiledTabs(v.app.open_tabs, v.disk.files) /\ Tied(v.app) /\ OwnRequests(v.app, v.disk.files)
    <3>1. /\ v.app.active_tab = b.active_tab /\ v.app.request_path = b.request_path
          /\ v.app.requests = b.requests /\ v.app.selected_collection = b.selected_collection
      BY <1>3, <2>1 DEF SameEditor
    <3>2. Tied(v.app)
      BY <1>2, <2>1, <3>1, TiedSame
    <3>3. OwnRequests(v.app, w.disk.files)
      BY <1>2, <3>1, OwnSame
    <3> QED  BY <1>2, <2>1, <3>2, <3>3
  <2>3. \A k \in 1 .. Len(Drafts(b)) : Drafts(b)[k].file # NoPath =>
           Drafts(b)[k].coll = Drafts(b)[k].file[1]
    BY <1>2, FiledDrafts
  <2> HIDE DEF b
  <2>4. FiledDisk(v.disk)
    BY <2>1, <2>3 DEF Placed, FiledDisk
  <2> QED  BY <2>2, <2>4 DEF Placed
<1> QED  BY <1>4, <1>5

LEMMA PlacedShown ==
  ASSUME NEW E \in Nat, NEW a, NEW files \in [Path -> DocE(E) \cup {NoDoc}],
         FiledTabs(a.open_tabs, files), unreadable = {}, NEW i \in 1 .. Len(a.open_tabs), NEW b,
         Shows(a, files, i, b), b.selected_collection \in Collections, a.open_tabs # <<>>
  PROVE  FiledTabs(b.open_tabs, files) /\ Tied(b) /\ OwnRequests(b, files)
<1>1. /\ b.open_tabs = a.open_tabs /\ b.active_tab = i
      /\ b.requests = Listing(files, b.selected_collection)
      /\ b.request_path = a.open_tabs[i].path
  BY DEF Shows
<1>2. OwnRequests(b, files)
  <2> DEFINE c == b.selected_collection
             l == Listing(files, c)
  <2>1. \A k \in 1 .. Len(l) :
          /\ l[k].path \in Path /\ l[k].path[1] = c
          /\ files[l[k].path] = l[k].doc /\ l[k].doc # NoDoc
    BY ListingFacts, SMTT(60)
  <2>2. b.requests = l
    BY <1>1
  <2> HIDE DEF l
  <2> QED  BY <2>1, <2>2 DEF OwnRequests
<1> QED  BY <1>1, <1>2 DEF Tied

(* A tab at the end that shows no file, or one that no other tab shows.         *)
LEMMA FiledAppend ==
  ASSUME NEW E \in Nat, NEW s \in Seq(TabE(E)), NEW files, FiledTabs(s, files), NEW t \in TabE(E),
         t.path # NoPath => /\ t.coll = t.path[1] /\ files[t.path] # NoDoc
                            /\ \A i \in 1 .. Len(s) : s[i].path # t.path
  PROVE  FiledTabs(Append(s, t), files)
<1> DEFINE q == Append(s, t)
           n == Len(s)
<1>1. /\ Len(q) = n + 1 /\ n \in Nat /\ q[n + 1] = t
      /\ \A i \in 1 .. n : q[i] = s[i]
      /\ \A i \in 1 .. Len(q) : i \in 1 .. n \/ i = n + 1
  BY AppendTabFacts
<1> HIDE DEF q
<1>2. ASSUME NEW i \in 1 .. Len(q), q[i].path # NoPath
      PROVE  q[i].coll = q[i].path[1] /\ files[q[i].path] # NoDoc
  BY <1>1, <1>2 DEF FiledTabs
<1>3. ASSUME NEW i \in 1 .. Len(q), NEW j \in 1 .. Len(q), i # j, q[i].path # NoPath
      PROVE  q[i].path # q[j].path
  <2>1. CASE i \in 1 .. n /\ j \in 1 .. n
    BY <1>1, <1>3, <2>1 DEF FiledTabs
  <2>2. CASE i \in 1 .. n /\ j = n + 1
    BY <1>1, <1>3, <2>2
  <2>3. CASE i = n + 1 /\ j \in 1 .. n
    BY <1>1, <1>3, <2>3
  <2> QED  BY <1>1, <1>3, <2>1, <2>2, <2>3
<1>4. FiledTabs(q, files)
  BY <1>2, <1>3 DEF FiledTabs
<1> QED  BY <1>4 DEF q

LEMMA PlacedSelected ==
  ASSUME NEW E \in Nat, NEW s, TypedApp(s, E), NEW files \in [Path -> DocE(E) \cup {NoDoc}],
         FiledTabs(s.open_tabs, files), OwnRequests(s, files), unreadable = {},
         NEW k \in 1 .. Len(s.requests), NEW b, TypedApp(b, E), SelectedFrom(s, files, k, b)
  PROVE  FiledTabs(b.open_tabs, files) /\ Tied(b) /\ OwnRequests(b, files)
<1>1. /\ s \in AppE(E) /\ s.open_tabs \in Seq(TabE(E)) /\ Len(s.open_tabs) \in Nat
      /\ s.requests \in Seq(EntryE(E)) /\ b.selected_collection \in Collections
  BY DEF TypedApp, AppE
<1>2. CASE \E i \in 1 .. Len(s.open_tabs) :
             s.open_tabs[i].path = s.requests[k].path /\ Shows(s, files, i, b)
  <2>1. PICK i \in 1 .. Len(s.open_tabs) : Shows(s, files, i, b)
    BY <1>2
  <2>2. s.open_tabs # <<>>
    BY <1>1
  <2> QED  BY <1>1, <2>1, <2>2, PlacedShown
<1>3. CASE /\ \A j \in 1 .. Len(s.open_tabs) : s.open_tabs[j].path # s.requests[k].path
           /\ Shows(Opened(s, k), files, Len(s.open_tabs) + 1, b)
  <2> DEFINE tab == FileTab(s.selected_collection, s.requests[k])
             o == Opened(s, k)
             n == Len(s.open_tabs)
  <2>1. /\ tab \in TabE(E) /\ o.open_tabs = Append(s.open_tabs, tab)
        /\ tab.coll = s.selected_collection /\ tab.path = s.requests[k].path
    BY <1>1, OpenedFacts, ZenonT(30)
  <2>2. tab.coll = tab.path[1] /\ files[tab.path] # NoDoc
    BY <2>1 DEF OwnRequests
  <2> HIDE DEF tab, o
  <2>3. FiledTabs(o.open_tabs, files)
    <3>1. \A j \in 1 .. Len(s.open_tabs) : s.open_tabs[j].path # tab.path
      BY <1>3, <2>1
    <3>2. FiledTabs(Append(s.open_tabs, tab), files)
      BY <1>1, <2>1, <2>2, <3>1, FiledAppend
    <3> QED  BY <2>1, <3>2
  <2>4. o.open_tabs # <<>> /\ n + 1 \in 1 .. Len(o.open_tabs)
    <3>1. /\ Len(Append(s.open_tabs, tab)) = n + 1 /\ n \in Nat
          /\ Append(s.open_tabs, tab) # <<>>
      BY <1>1, <2>1, AppendTabFacts
    <3> QED  BY <2>1, <3>1
  <2>5. Shows(o, files, n + 1, b)
    BY <1>3 DEF o
  <2> QED  BY <1>1, <2>3, <2>4, <2>5, PlacedShown
<1> QED  BY <1>2, <1>3 DEF SelectedFrom

LEMMA PlacedSelect ==
  ASSUME NEW E \in Nat, NEW w, Typed(w, E), Len(w.app.open_tabs) <= MaxTabs, Placed(w),
         unreadable = {}, NEW k \in 1 .. Len(w.app.requests)
  PROVE  Placed(SelectEntry(w, k))
<1> DEFINE v == PersistIfDirty(w)
           s == SyncActiveTab(v.app)
           x == SelectEntry(w, k)
           files == v.disk.files
<1>1. Typed(x, E)
  BY SelectEntryFacts
<1>2. /\ x.disk = v.disk
      /\ SyncFails(w.app) => x = w
      /\ ~SyncFails(w.app) => SelectedFrom(s, v.disk.files, k, x.app)
  BY SelectEntryFacts
<1>3. Typed(v, E) /\ PersistFrom(w, v)
  BY PersistIfDirtyFacts
<1> HIDE DEF v, x
<1>4. Placed(v)
  BY <1>3, PlacedPersist
<1>5. TypedApp(v.app, E) /\ files \in [Path -> DocE(E) \cup {NoDoc}] /\ TypedApp(x.app, E)
  BY <1>1, <1>3 DEF Typed, DiskE
<1>6. /\ FiledTabs(s.open_tabs, files) /\ OwnRequests(s, files) /\ TypedApp(s, E)
      /\ SameEditor(v.app, s)
  BY <1>4, <1>5, FiledSync, SyncFacts DEF Placed
<1>7. k \in 1 .. Len(s.requests)
  BY <1>3, <1>6 DEF PersistFrom, SameEditor
<1>8. CASE SyncFails(w.app)
  BY <1>2, <1>8 DEF x
<1>9. CASE ~SyncFails(w.app)
  <2> HIDE DEF s
  <2>1. FiledTabs(x.app.open_tabs, files) /\ Tied(x.app) /\ OwnRequests(x.app, files)
    BY <1>2, <1>5, <1>6, <1>7, <1>9, PlacedSelected
  <2>2. Placed(x)
    BY <1>2, <1>4, <2>1 DEF Placed
  <2> QED  BY <2>2 DEF x
<1> QED  BY <1>8, <1>9

LEMMA PlacedDraft ==
  ASSUME NEW E \in Nat, NEW w, Typed(w, E), Len(w.app.open_tabs) <= MaxTabs, Placed(w),
         unreadable = {}, NewDoc \in DocE(E)
  PROVE  Placed(OpenDraft(w))
<1> DEFINE v == PersistIfDirty(w)
           s == SyncActiveTab(v.app)
           x == OpenDraft(w)
           tab == DraftTab(w.app.selected_collection)
           files == v.disk.files
<1>1. Typed(x, E) /\ x.disk = v.disk /\ OpensTab(s, x.app, tab)
  BY OpenDraftFacts
<1>3. Typed(v, E) /\ PersistFrom(w, v)
  BY PersistIfDirtyFacts
<1> HIDE DEF v, x
<1>4. Placed(v)
  BY <1>3, PlacedPersist
<1>5. TypedApp(v.app, E)
  BY <1>3 DEF Typed
<1>6. FiledTabs(s.open_tabs, files) /\ OwnRequests(s, files) /\ TypedApp(s, E)
  BY <1>4, <1>5, FiledSync DEF Placed
<1> HIDE DEF s
<1>7. tab.path = NoPath /\ tab \in TabE(E)
  <2>1. w.app.selected_collection \in Collections
    BY DEF Typed, AppE
  <2> QED  BY <2>1 DEF DraftTab, TabE
<1> HIDE DEF tab
<1>8. s.open_tabs \in Seq(TabE(E))
  BY <1>6 DEF TypedApp, AppE
<1>9. FiledTabs(x.app.open_tabs, files)
  BY <1>1, <1>6, <1>7, <1>8, FiledAppend DEF OpensTab
<1>10. Tied(x.app) /\ OwnRequests(x.app, files)
  BY <1>1, <1>6, <1>7 DEF OpensTab, Tied, OwnRequests
<1> QED  BY <1>1, <1>4, <1>9, <1>10 DEF Placed, x

LEMMA ListedOwn ==
  ASSUME NEW E \in Nat, NEW w, Typed(w, E)
  PROVE  OwnRequests(Listing1(w).app, Listing1(w).disk.files)
<1> DEFINE c == w.app.selected_collection
           files == w.disk.files
           l == Listing(files, c)
           v == Listing1(w)
<1>1. c \in Collections /\ files \in [Path -> DocE(E) \cup {NoDoc}]
  BY DEF Typed, AppE, DiskE
<1>2. \A k \in 1 .. Len(l) :
        /\ l[k].path \in Path /\ l[k].path[1] = c
        /\ files[l[k].path] = l[k].doc /\ l[k].doc # NoDoc
  BY <1>1, ListingFacts, SMTT(30)
<1>3. v.app.requests = l /\ v.app.selected_collection = c /\ v.disk.files = files
  BY ListedFacts
<1> HIDE DEF l, c, files, v
<1>4. OwnRequests(v.app, v.disk.files)
  BY <1>2, <1>3 DEF OwnRequests
<1> QED  BY <1>4 DEF v

LEMMA PlacedRefresh ==
  ASSUME NEW E \in Nat, NEW w, Typed(w, E), Len(w.app.open_tabs) <= MaxTabs,
         FiledTabs(w.app.open_tabs, w.disk.files), Tied(w.app), FiledDisk(w.disk),
         unreadable = {}, NewDoc \in DocE(E), NEW preferred
  PROVE  Placed(Listing1(w)) /\ Placed(RefreshRequests(w, preferred))
<1> DEFINE v == Listing1(w)
           x == RefreshRequests(w, preferred)
<1>1. /\ Typed(v, E) /\ v.disk = w.disk
      /\ v.app.requests = Listing(w.disk.files, w.app.selected_collection)
      /\ v.app.open_tabs = w.app.open_tabs /\ v.app.active_tab = w.app.active_tab
      /\ v.app.selected_collection = w.app.selected_collection
      /\ v.app.request_path = w.app.request_path
  BY ListedFacts
<1>2. /\ v.app.requests = <<>> => x = OpenDraft(v)
      /\ v.app.requests # <<>> => \E k \in 1 .. Len(v.app.requests) : x = SelectEntry(v, k)
  BY RefreshIs
<1> HIDE DEF v, x
<1>3. OwnRequests(v.app, v.disk.files)
  BY ListedOwn DEF v
<1>4. Placed(v)
  BY <1>1, <1>3 DEF Placed, Tied
<1>5. Len(v.app.open_tabs) <= MaxTabs
  BY <1>1
<1>6. CASE v.app.requests = <<>>
  BY <1>1, <1>2, <1>4, <1>5, <1>6, PlacedDraft DEF x, v
<1>7. CASE v.app.requests # <<>>
  BY <1>1, <1>2, <1>4, <1>5, <1>7, PlacedSelect DEF x, v
<1> QED  BY <1>6, <1>7

LEMMA PlacedSaveTabs ==
  ASSUME NEW E \in Nat, NEW w, Typed(w, E), Placed(w)
  PROVE  Placed(SaveTabsSettings(w))
<1> DEFINE v == SaveTabsSettings(w)
           b == SyncActiveTab(w.app)
           files == w.disk.files
<1>1. /\ SameEditor(w.app, v.app)
      /\ v.app.open_tabs \in {w.app.open_tabs, b.open_tabs}
      /\ v.disk.files = w.disk.files /\ v.disk.recovery = w.disk.recovery
  BY SaveTabsFacts
<1>2. \/ v.disk.tabs = w.disk.tabs
      \/ \E ks : /\ \A i \in ks : i \in 1 .. Len(b.open_tabs) /\ b.open_tabs[i].path # NoPath
                 /\ v.disk.tabs.paths = Picked([i \in DOMAIN b.open_tabs |-> b.open_tabs[i].path], ks)
  BY SaveTabsFacts
<1>3. TypedApp(w.app, E)
  BY DEF Typed
<1>4. /\ FiledTabs(b.open_tabs, files) /\ Tied(b) /\ OwnRequests(b, files) /\ TypedApp(b, E)
      /\ SameEditor(w.app, b)
  BY <1>3, FiledSync, SyncFacts DEF Placed
<1> HIDE DEF v, b
<1>5. FiledTabs(v.app.open_tabs, v.disk.files) /\ Tied(v.app) /\ OwnRequests(v.app, v.disk.files)
  <2>1. FiledTabs(w.app.open_tabs, files) /\ Tied(w.app) /\ OwnRequests(w.app, files)
    BY DEF Placed
  <2>2. OwnRequests(v.app, files)
    BY <1>1, <2>1, SMTT(30) DEF OwnRequests, SameEditor
  <2>3. CASE v.app.open_tabs = w.app.open_tabs
    BY <1>1, <2>1, <2>2, <2>3 DEF Tied, SameEditor
  <2>4. CASE v.app.open_tabs = b.open_tabs
    BY <1>1, <1>4, <2>2, <2>4 DEF Tied, SameEditor
  <2> QED  BY <1>1, <2>3, <2>4
<1>6. CASE v.disk.tabs = w.disk.tabs
  BY <1>1, <1>5, <1>6 DEF Placed, FiledDisk, v
<1>7. CASE \E ks : /\ \A i \in ks : i \in 1 .. Len(b.open_tabs) /\ b.open_tabs[i].path # NoPath
                   /\ v.disk.tabs.paths = Picked([i \in DOMAIN b.open_tabs |-> b.open_tabs[i].path], ks)
  <2> DEFINE s == [i \in DOMAIN b.open_tabs |-> b.open_tabs[i].path]
             n == Len(b.open_tabs)
  <2>1. PICK ks : /\ \A i \in ks : i \in 1 .. n /\ b.open_tabs[i].path # NoPath
                  /\ v.disk.tabs.paths = Picked(s, ks)
    BY <1>7
  <2>2. b.open_tabs \in Seq(TabE(E)) /\ n \in Nat /\ DOMAIN b.open_tabs = 1 .. n
    BY <1>4 DEF TypedApp, AppE
  <2>3. \A i \in 1 .. n : s[i] = b.open_tabs[i].path
    BY <2>2
  <2> HIDE DEF s, n
  <2>4. /\ \A k \in 1 .. Cardinality(ks) : Nth(ks, k) \in ks /\ Picked(s, ks)[k] = s[Nth(ks, k)]
        /\ \A k, l \in 1 .. Cardinality(ks) : k # l => Nth(ks, k) # Nth(ks, l)
    BY <2>1, <2>2, PickedFacts
  <2>5. Len(Picked(s, ks)) = Cardinality(ks)
    <3>1. \A i \in ks : i \in 1 .. n
      BY <2>1
    <3>2. n \in Nat
      BY <2>2
    <3> QED  BY <3>1, <3>2, PickedLength
  <2>6. ASSUME NEW i \in 1 .. Cardinality(ks), NEW j \in 1 .. Cardinality(ks), i # j
        PROVE  Picked(s, ks)[i] # Picked(s, ks)[j]
    <3> DEFINE x == Nth(ks, i)
               y == Nth(ks, j)
    <3>1. x \in ks /\ y \in ks /\ x # y /\ Picked(s, ks)[i] = s[x] /\ Picked(s, ks)[j] = s[y]
      BY <2>4, <2>6
    <3> HIDE DEF x, y
    <3>2. b.open_tabs[x].path # b.open_tabs[y].path
      BY <1>4, <2>1, <3>1 DEF FiledTabs, n
    <3> QED  BY <2>1, <2>3, <3>1, <3>2
  <2>7. FiledDisk(v.disk)
    BY <1>1, <2>1, <2>5, <2>6 DEF Placed, FiledDisk
  <2> QED  BY <1>5, <2>7 DEF Placed, v
<1> QED  BY <1>2, <1>6, <1>7

LEMMA PlacedEnd ==
  ASSUME NEW E \in Nat, NEW w, Typed(w, E), Len(w.app.open_tabs) <= MaxTabs, Placed(w)
  PROVE  Placed(EndOfFrame(w))
<1> DEFINE u == [w EXCEPT !.app = SyncActiveTab(@)]
           v == SaveTabsSettings(u)
<1>1. Typed(u, E) /\ u.app = SyncActiveTab(w.app) /\ u.disk = w.disk
  BY SyncTyped
<1>2. TypedApp(w.app, E)
  BY DEF Typed
<1>3. Placed(u)
  BY <1>1, <1>2, FiledSync DEF Placed
<1>4. EndOfFrame(w) = IF RecoveryDue(v) THEN PersistRecovery(v) ELSE v
  BY DEF EndOfFrame
<1>5. Len(u.app.open_tabs) = Len(w.app.open_tabs)
  BY <1>1, <1>2, SyncFacts
<1> HIDE DEF u
<1>6. /\ Typed(v, E) /\ v.app.open_tabs \in {u.app.open_tabs, SyncActiveTab(u.app).open_tabs}
  BY <1>1, SaveTabsFacts
<1>7. Placed(v)
  BY <1>1, <1>3, PlacedSaveTabs
<1>8. Len(v.app.open_tabs) <= MaxTabs
  <2>1. Len(SyncActiveTab(u.app).open_tabs) = Len(u.app.open_tabs)
    BY <1>1, SyncFacts DEF Typed
  <2> QED  BY <1>5, <1>6, <2>1
<1> HIDE DEF v
<1>9. PersistFrom(v, PersistRecovery(v))
  BY <1>6, <1>8, PersistFacts
<1>10. Placed(PersistRecovery(v))
  BY <1>6, <1>7, <1>8, <1>9, PlacedPersist
<1> QED  BY <1>4, <1>7, <1>10

LEMMA PlacedSwitch ==
  ASSUME NEW E \in Nat, Whole(world, E), Placed(world), unreadable = {},
         NEW i \in DOMAIN app.open_tabs
  PROVE  Placed(SwitchWorld(i))
<1> DEFINE v == PersistIfDirty(world)
           s == SyncActiveTab(v.app)
           x == SwitchWorld(i)
<1>1. /\ Whole(x, E) /\ SyncFails(app) => x = world
      /\ ~SyncFails(app) => x.disk = v.disk /\ Shows(s, disk.files, i, x.app)
  BY SwitchWhole
<1>2. /\ Whole(x, E)
      /\ SyncFails(app) => x = world
      /\ ~SyncFails(app) => x.disk = v.disk /\ Shows(s, disk.files, i, x.app)
  BY SwitchWhole
<1>3. /\ Typed(world, E) /\ Len(world.app.open_tabs) <= MaxTabs /\ world.disk = disk
      /\ DOMAIN app.open_tabs = 1 .. Len(app.open_tabs) /\ world.app = app
      /\ disk.files \in [Path -> DocE(E) \cup {NoDoc}]
  BY WholeFacts, WorldIs
<1>4. Typed(v, E) /\ PersistFrom(world, v) /\ Len(v.app.open_tabs) = Len(app.open_tabs)
  BY <1>3, PersistIfDirtyFacts
<1> HIDE DEF v, x
<1>5. Placed(v) /\ v.disk.files = disk.files /\ TypedApp(v.app, E)
  BY <1>3, <1>4, PlacedPersist DEF PersistFrom, Typed
<1>6. /\ FiledTabs(s.open_tabs, disk.files) /\ TypedApp(s, E)
      /\ Len(s.open_tabs) = Len(v.app.open_tabs)
  BY <1>5, FiledSync, SyncFacts DEF Placed
<1>7. i \in 1 .. Len(s.open_tabs) /\ s.open_tabs # <<>>
  <2>1. s.open_tabs \in Seq(TabE(E)) /\ i \in 1 .. Len(s.open_tabs)
    BY <1>3, <1>4, <1>6 DEF TypedApp, AppE
  <2> QED  BY <2>1
<1> HIDE DEF s
<1>8. CASE SyncFails(app)
  BY <1>2, <1>8 DEF x
<1>9. CASE ~SyncFails(app)
  <2>1. x.app.selected_collection \in Collections
    BY <1>2, WholeFacts
  <2>2. FiledTabs(x.app.open_tabs, disk.files) /\ Tied(x.app) /\ OwnRequests(x.app, disk.files)
    BY <1>2, <1>3, <1>6, <1>7, <1>9, <2>1, PlacedShown
  <2> QED  BY <1>2, <1>5, <1>9, <2>2 DEF Placed, x
<1> QED  BY <1>8, <1>9

(* A tab taken out leaves the others filed.                                    *)
LEMMA FiledRemove ==
  ASSUME NEW S, NEW s \in Seq(S), NEW files, FiledTabs(s, files), NEW i \in 1 .. Len(s)
  PROVE  FiledTabs(RemoveAt(s, i), files)
<1> DEFINE r == RemoveAt(s, i)
           f == [j \in 1 .. Len(r) |-> IF j < i THEN j ELSE j + 1]
<1>1. /\ r \in Seq(S) /\ Len(r) = Len(s) - 1 /\ Len(s) \in Nat
      /\ \A j \in 1 .. Len(r) : r[j] = IF j < i THEN s[j] ELSE s[j + 1]
  BY RemoveAtFacts
<1> HIDE DEF r
<1>2. \A j \in 1 .. Len(r) : f[j] \in 1 .. Len(s) /\ r[j] = s[f[j]]
  BY <1>1
<1>3. \A j, k \in 1 .. Len(r) : j # k => f[j] # f[k]
  BY <1>1
<1> HIDE DEF f
<1>4. FiledTabs(r, files)
  BY <1>2, <1>3, FiledPart
<1> QED  BY <1>4 DEF r

LEMMA PlacedFresh ==
  ASSUME NEW E \in Nat, NEW a, a.selected_collection \in Collections, NEW b, FreshDraft(a, b),
         NEW files, OwnRequests(a, files)
  PROVE  FiledTabs(b.open_tabs, files) /\ Tied(b) /\ OwnRequests(b, files)
<1>1. /\ b.open_tabs = <<DraftTab(a.selected_collection)>> /\ b.request_path = NoPath
      /\ b.selected_collection = a.selected_collection /\ b.requests = a.requests
  BY DEF FreshDraft
<1> DEFINE tabs == b.open_tabs
<1>2. Len(tabs) = 1 /\ tabs[1].path = NoPath
  BY <1>1 DEF DraftTab
<1> HIDE DEF tabs
<1>3. FiledTabs(tabs, files)
  BY <1>2 DEF FiledTabs
<1> QED  BY <1>1, <1>3 DEF Tied, OwnRequests, tabs

LEMMA PlacedClose ==
  ASSUME NEW E \in Nat, Whole(world, E), Placed(world), unreadable = {},
         NEW i \in DOMAIN app.open_tabs,
         RemoveAt(app.open_tabs, i) = <<>> => NewDoc \in DocE(E)
  PROVE  Placed(CloseWorld(i))
<1> DEFINE x == CloseWorld(i)
           rest == RemoveAt(app.open_tabs, i)
           a == [app EXCEPT !.open_tabs = rest]
<1>1. Whole(x, E)
  BY CloseWhole
<1>2. /\ x.disk = disk
      /\ rest = <<>> => FreshDraft(app, x.app)
      /\ rest # <<>> => \E next \in 1 .. Len(rest) : Shows(a, disk.files, next, x.app)
  BY CloseWhole
<1>3. /\ app \in AppE(E) /\ app.open_tabs \in Seq(TabE(E)) /\ i \in 1 .. Len(app.open_tabs)
      /\ world.disk = disk /\ world.app = app /\ app.selected_collection \in Collections
      /\ disk.files \in [Path -> DocE(E) \cup {NoDoc}]
  BY WholeFacts, WorldIs
<1>4. /\ FiledTabs(app.open_tabs, disk.files) /\ OwnRequests(app, disk.files) /\ FiledDisk(disk)
  BY <1>3 DEF Placed
<1>5. FiledTabs(rest, disk.files) /\ rest \in Seq(TabE(E))
  BY <1>3, <1>4, FiledRemove, RemoveAtFacts
<1> HIDE DEF x, rest
<1>6. a.open_tabs = rest
  BY <1>3 DEF AppE
<1> HIDE DEF a
<1>7. FiledTabs(x.app.open_tabs, disk.files) /\ Tied(x.app) /\ OwnRequests(x.app, disk.files)
  <2>1. CASE rest = <<>>
    BY <1>2, <1>3, <1>4, <2>1, PlacedFresh
  <2>2. CASE rest # <<>>
    <3>1. PICK next \in 1 .. Len(rest) : Shows(a, disk.files, next, x.app)
      BY <1>2, <2>2
    <3>2. x.app.selected_collection \in Collections
      BY <1>1, WholeFacts
    <3> QED  BY <1>3, <1>5, <1>6, <2>2, <3>1, <3>2, PlacedShown
  <2> QED  BY <2>1, <2>2
<1> QED  BY <1>2, <1>4, <1>7 DEF Placed, x

LEMMA PlacedCloseOthers ==
  ASSUME NEW E \in Nat, Whole(world, E), Placed(world), unreadable = {},
         Len(app.open_tabs) > 1
  PROVE  Placed(CloseOthersWorld)
<1> DEFINE x == CloseOthersWorld
           p == app.active_tab
           tabs == <<app.open_tabs[p]>>
<1>1. /\ x.disk = disk /\ Rearranged(app, x.app)
      /\ x.app.open_tabs = tabs /\ x.app.active_tab = 1
  BY CloseOthersWhole
<1>2. /\ app.open_tabs \in Seq(TabE(E)) /\ p \in 1 .. Len(app.open_tabs)
      /\ world.disk = disk /\ world.app = app
  <2>1. app.open_tabs # <<>>
    OBVIOUS
  <2> QED  BY <2>1, WholeFacts, WorldIs
<1>3. FiledTabs(app.open_tabs, disk.files) /\ OwnRequests(app, disk.files) /\ FiledDisk(disk) /\ Tied(app)
  BY <1>2 DEF Placed
<1>4. Len(tabs) = 1 /\ tabs[1] = app.open_tabs[p] /\ tabs # <<>>
  OBVIOUS
<1> HIDE DEF x, tabs
<1>5. FiledTabs(tabs, disk.files)
  BY <1>2, <1>3, <1>4 DEF FiledTabs
<1>6. Tied(x.app) /\ OwnRequests(x.app, disk.files)
  BY <1>1, <1>3, <1>4 DEF Rearranged, Tied, OwnRequests
<1> QED  BY <1>1, <1>3, <1>5, <1>6 DEF Placed, x

LEMMA PlacedMove ==
  ASSUME NEW E \in Nat, Whole(world, E), Placed(world), NEW target \in DOMAIN app.open_tabs
  PROVE  Placed(MoveWorld(target))
<1> DEFINE x == MoveWorld(target)
           p == app.active_tab
           n == Len(app.open_tabs)
           tabs == x.app.open_tabs
           f == [i \in 1 .. n |-> IF i = target THEN p ELSE IF i = p THEN target ELSE i]
<1>1. /\ x.disk = disk /\ Rearranged(app, x.app)
      /\ x.app.active_tab = target /\ Len(tabs) = n
      /\ p \in 1 .. n
      /\ \A i \in 1 .. n :
           tabs[i] = IF i = target THEN app.open_tabs[p]
                     ELSE IF i = p THEN app.open_tabs[target] ELSE app.open_tabs[i]
  BY MoveWhole
<1>2. /\ target \in 1 .. n /\ n \in Nat /\ world.disk = disk /\ world.app = app
  BY WholeFacts, WorldIs
<1>3. FiledTabs(app.open_tabs, disk.files) /\ OwnRequests(app, disk.files) /\ FiledDisk(disk) /\ Tied(app)
  BY <1>2 DEF Placed
<1> HIDE DEF x
<1>4. \A i \in 1 .. n : f[i] \in 1 .. n /\ tabs[i] = app.open_tabs[f[i]]
  BY <1>1, <1>2
<1>5. \A i, j \in 1 .. n : i # j => f[i] # f[j]
  BY <1>1, <1>2
<1> HIDE DEF f, tabs
<1>6. FiledTabs(tabs, disk.files)
  <2> DEFINE s == app.open_tabs
             m == Len(tabs)
  <2>1. m = n /\ n = Len(s) /\ FiledTabs(s, disk.files)
    BY <1>1, <1>3 DEF tabs
  <2>2. /\ \A i \in 1 .. n : f[i] \in 1 .. n /\ tabs[i] = s[f[i]]
    BY <1>4
  <2> HIDE DEF s, m, n
  <2>3. \A i \in 1 .. m : f[i] \in 1 .. Len(s) /\ tabs[i] = s[f[i]]
    BY <2>1, <2>2
  <2>4. \A i, j \in 1 .. m : i # j => f[i] # f[j]
    BY <1>5, <2>1
  <2>5. /\ \A i \in 1 .. Len(tabs) : f[i] \in 1 .. Len(s) /\ tabs[i] = s[f[i]]
        /\ \A i, j \in 1 .. Len(tabs) : i # j => f[i] # f[j]
    BY <2>3, <2>4 DEF m
  <2>6. FiledTabs(s, disk.files)
    BY <2>1
  <2> QED  BY <2>5, <2>6, FiledPart
<1>8. Tied(x.app) /\ OwnRequests(x.app, disk.files)
  <2>1. tabs[target] = app.open_tabs[p]
    BY <1>1, <1>2
  <2>2. tabs # <<>>
    BY <1>1, <1>2
  <2>3. OwnRequests(x.app, disk.files)
    BY <1>1, <1>3 DEF Rearranged, OwnRequests
  <2>4. Tied(x.app)
    BY <1>1, <1>3, <2>1, <2>2 DEF Rearranged, Tied, tabs
  <2> QED  BY <2>3, <2>4
<1>9. FiledTabs(x.app.open_tabs, disk.files)
  BY <1>6 DEF tabs
<1> QED  BY <1>1, <1>3, <1>8, <1>9 DEF Placed, x

(* Commands that leave tabs and listing as they are.                           *)
LEMMA PlacedSame ==
  ASSUME Placed(world), NEW x, x.disk = disk, x.app.open_tabs = app.open_tabs,
         x.app.active_tab = app.active_tab, x.app.requests = app.requests,
         x.app.selected_collection = app.selected_collection,
         x.app.request_path \in {NoPath, app.request_path}
  PROVE  Placed(x)
BY WorldIs DEF Placed, Tied, OwnRequests

LEMMA PlacedCollection ==
  ASSUME NEW E \in Nat, Whole(world, E), Placed(world), unreadable = {}, NEW c \in Collections,
         NewDoc \in DocE(E), NEW preferred
  PROVE  Placed(RefreshRequests(SelectedWorld(c), preferred)) /\ Placed(CollectionWorld(c))
<1> DEFINE w == SelectedWorld(c)
<1>1. Whole(w, E) /\ w.disk = disk /\ Turned(app, w.app, c)
  BY SelectedWhole
<1> HIDE DEF w
<1>2. FiledTabs(w.app.open_tabs, w.disk.files) /\ Tied(w.app) /\ FiledDisk(w.disk)
  BY <1>1, WorldIs DEF Placed, Turned, Tied
<1>3. \A p : Placed(RefreshRequests(w, p))
  BY <1>1, <1>2, PlacedRefresh DEF Whole
<1>4. ~RefreshFails(w)
  BY DEF RefreshFails
<1> QED  BY <1>3, <1>4 DEF CollectionWorld, w

LEMMA PlacedHistory ==
  ASSUME NEW E \in Nat, Whole(world, E), Placed(world), unreadable = {}, NEW id \in Ids,
         Found(id) # {}
  PROVE  Placed(HistoryWorld(id))
<1> DEFINE l == HistoryListing(id)
           k == Min({j \in DOMAIN l : l[j].doc.id = id})
           c == HistoryCollection(id)
           w == ListedWorld(id)
<1>1. /\ c \in Collections /\ Whole(w, E) /\ w.disk = disk /\ w.app.requests = l
      /\ w.app.selected_collection = c /\ w.app.open_tabs = app.open_tabs
      /\ w.app.active_tab = app.active_tab /\ w.app.request_path = app.request_path
      /\ k \in 1 .. Len(l)
  BY HistoryFacts
<1>2. disk.files \in [Path -> DocE(E) \cup {NoDoc}] /\ world.app = app /\ world.disk = disk
  BY WholeFacts, WorldIs
<1>3. l = Listing(disk.files, c)
  BY DEF HistoryListing
<1> HIDE DEF w, c
<1>4. OwnRequests(w.app, disk.files)
  <2>1. \A j \in 1 .. Len(Listing(disk.files, c)) :
          LET e == Listing(disk.files, c)[j]
          IN e.path \in Path /\ e.path[1] = c /\ disk.files[e.path] = e.doc /\ e.doc # NoDoc
    BY <1>1, <1>2, ListingFacts
  <2> QED  BY <1>1, <1>3, <2>1 DEF OwnRequests
<1> HIDE DEF l, k
<1>5. Placed(w)
  BY <1>1, <1>2, <1>4 DEF Placed, Tied
<1>6. k \in 1 .. Len(w.app.requests) /\ Typed(w, E) /\ Len(w.app.open_tabs) <= MaxTabs
  BY <1>1 DEF Whole
<1>7. Placed(SelectEntry(w, k))
  BY <1>5, <1>6, PlacedSelect
<1>8. HistoryWorld(id) = SelectEntry(w, k)
  BY DEF HistoryWorld, w, k, l
<1> QED  BY <1>7, <1>8

(* A copy is written to a free path of the selected collection.                *)
LEMMA PlacedDuplicate ==
  ASSUME NEW E \in Nat, Whole(world, E), Placed(world), unreadable = {},
         NEW p \in Targets(app.selected_collection, NoPath), NewDoc \in DocE(E),
         Len(app.open_tabs) < MaxTabs
  PROVE  Placed(DuplicateWorld(p))
<1> DEFINE w == CopiedWorld(p)
           v == RefreshRequests(w, p)
           b == [Saved(v.app) EXCEPT !.dirty = FALSE, !.recovery_restored = FALSE]
           x == SettingsChanged(RemoveRecovery([v EXCEPT !.app = SyncActiveTab(b)]))
           copy == [NewDoc EXCEPT !.edit = app.request.edit]
<1>1. p \in Path
  BY DEF Targets
<1>2. /\ Whole(w, E) /\ w.app = app /\ w.disk.tabs = disk.tabs
      /\ w.disk.recovery = disk.recovery /\ w.disk.files = [disk.files EXCEPT ![p] = copy]
      /\ copy \in DocE(E)
  BY <1>1, CopiedWhole
<1>3. /\ disk.files \in [Path -> DocE(E) \cup {NoDoc}] /\ world.app = app /\ world.disk = disk
      /\ app.open_tabs \in Seq(TabE(E))
  BY WholeFacts, WorldIs
<1> HIDE DEF w, copy
<1>4. \A q \in Path : disk.files[q] # NoDoc => w.disk.files[q] # NoDoc
  BY <1>1, <1>2, <1>3, NoDocFacts
<1>5. FiledTabs(w.app.open_tabs, w.disk.files) /\ Tied(w.app) /\ FiledDisk(w.disk)
  <2>1. FiledTabs(app.open_tabs, disk.files) /\ Tied(app) /\ FiledDisk(disk)
    BY <1>3 DEF Placed
  <2>2. FiledDisk(w.disk)
    BY <1>2, <2>1 DEF FiledDisk
  <2>3. \A i \in 1 .. Len(app.open_tabs) : app.open_tabs[i].path \in Path \cup {NoPath}
    <3>1. \A i \in 1 .. Len(app.open_tabs) : app.open_tabs[i] \in TabE(E)
      BY <1>3
    <3> QED  BY <3>1 DEF TabE
  <2>4. FiledTabs(app.open_tabs, w.disk.files)
    BY <1>4, <2>1, <2>3 DEF FiledTabs
  <2> QED  BY <1>2, <2>1, <2>2, <2>4
<1>6. Placed(v) /\ Whole(v, E)
  <2>1. Typed(w, E) /\ Len(w.app.open_tabs) < MaxTabs
    BY <1>2 DEF Whole
  <2>2. Whole(v, E)
    BY <1>2, <2>1, WholeRefresh
  <2>3. Placed(v)
    BY <1>2, <1>5, PlacedRefresh DEF Whole
  <2> QED  BY <2>2, <2>3
<1> HIDE DEF v
<1>7. /\ TypedApp(b, E) /\ SaveFrom(v.app, b, v.app.request_path)
      /\ SameButSaved(SyncActiveTab(b), x.app)
      /\ x.disk.recovery.drafts = <<>> /\ x.disk.tabs = v.disk.tabs
      /\ x.disk.files = v.disk.files
  BY <1>6, DuplicatedFacts
<1> HIDE DEF b, x
<1>8. FiledTabs(b.open_tabs, v.disk.files) /\ Tied(b) /\ OwnRequests(b, v.disk.files)
  <2>1. /\ b.open_tabs = v.app.open_tabs /\ b.active_tab = v.app.active_tab
        /\ b.request_path = v.app.request_path
        /\ b.requests = v.app.requests /\ b.selected_collection = v.app.selected_collection
    BY <1>7 DEF SaveFrom
  <2>2. /\ FiledTabs(v.app.open_tabs, v.disk.files) /\ Tied(v.app)
        /\ OwnRequests(v.app, v.disk.files)
    BY <1>6 DEF Placed
  <2>3. Tied(b)
    BY <2>1, <2>2, TiedSame
  <2>4. OwnRequests(b, v.disk.files)
    BY <2>1, <2>2, OwnSame
  <2> QED  BY <2>1, <2>2, <2>3, <2>4
<1> DEFINE s == SyncActiveTab(b)
<1>9. FiledTabs(s.open_tabs, v.disk.files) /\ Tied(s) /\ OwnRequests(s, v.disk.files)
  BY <1>7, <1>8, FiledSync
<1> HIDE DEF s
<1>10. SameButSaved(s, x.app)
  BY <1>7 DEF s
<1>11. FiledTabs(x.app.open_tabs, v.disk.files) /\ Tied(x.app) /\ OwnRequests(x.app, v.disk.files)
  BY <1>9, <1>10 DEF SameButSaved, SameEditor, Tied, OwnRequests
<1>12. FiledDisk(x.disk)
  <2>1. Len(x.disk.recovery.drafts) = 0
    BY <1>7
  <2> QED  BY <1>6, <1>7, <2>1 DEF Placed, FiledDisk
<1>13. ~RefreshFails(w)
  BY DEF RefreshFails
<1>14. DuplicateWorld(p) = x
  BY <1>13 DEF DuplicateWorld, x, b, v, w
<1> QED  BY <1>7, <1>11, <1>12, <1>14 DEF Placed

LEMMA PlacedDelete ==
  ASSUME NEW E \in Nat, Whole(world, E), Placed(world), unreadable = {},
         app.request_path \in Path, NewDoc \in DocE(E), Len(app.open_tabs) < MaxTabs
  PROVE  Placed(DeleteWorld)
<1> DEFINE w == DeletedWorld
           p == app.request_path
           i == DeletedTab
           rest == TabsLeft
           n == Len(app.open_tabs)
           v == RefreshRequests(w, NoPath)
<1>1. /\ Whole(w, E) /\ DeletedFrom(app, w.app, rest)
      /\ rest \in Seq(TabE(E)) /\ Len(rest) <= n
      /\ i \in 0 .. n
      /\ i # 0 => app.open_tabs[i].path = p
      /\ i = 0 => \A j \in DOMAIN app.open_tabs : app.open_tabs[j].path # p
      /\ w.disk.tabs = disk.tabs /\ w.disk.recovery = disk.recovery
      /\ w.disk.files = [disk.files EXCEPT ![p] = NoDoc]
  BY DeletedWhole
<1>2. /\ disk.files \in [Path -> DocE(E) \cup {NoDoc}] /\ world.app = app /\ world.disk = disk
      /\ app.open_tabs \in Seq(TabE(E)) /\ n \in Nat /\ DOMAIN app.open_tabs = 1 .. n
      /\ p # NoPath
  BY WholeFacts, WorldIs, PathFacts
<1>3. FiledTabs(app.open_tabs, disk.files) /\ Tied(app) /\ FiledDisk(disk)
  BY <1>2 DEF Placed
<1> HIDE DEF w, i
<1>4. FiledTabs(rest, disk.files) /\ \A j \in 1 .. Len(rest) : rest[j].path # p
  <2>1. CASE i = 0
    <3>1. rest = app.open_tabs
      BY <2>1 DEF TabsLeft, i
    <3> QED  BY <1>1, <1>2, <1>3, <2>1, <3>1
  <2>2. CASE i # 0
    <3>1. i \in 1 .. n /\ rest = RemoveAt(app.open_tabs, i)
      BY <1>1, <1>2, <2>2 DEF TabsLeft, i
    <3>2. FiledTabs(rest, disk.files)
      BY <1>2, <1>3, <3>1, FiledRemove
    <3>3. /\ Len(rest) = n - 1
          /\ \A j \in 1 .. Len(rest) : rest[j] = IF j < i THEN app.open_tabs[j] ELSE app.open_tabs[j + 1]
      <4> DEFINE tabs == app.open_tabs
                 r == RemoveAt(tabs, i)
      <4>1. tabs \in Seq(TabE(E)) /\ i \in 1 .. Len(tabs)
        BY <1>2, <3>1
      <4> HIDE DEF tabs
      <4>2. /\ r \in Seq(TabE(E)) /\ Len(r) = Len(tabs) - 1
            /\ \A j \in 1 .. Len(r) : r[j] = IF j < i THEN tabs[j] ELSE tabs[j + 1]
        BY <4>1, RemoveAtFacts
      <4> QED  BY <3>1, <4>2 DEF tabs
    <3>4. ASSUME NEW j \in 1 .. Len(rest) PROVE rest[j].path # p
      <4> DEFINE m == IF j < i THEN j ELSE j + 1
      <4>1. m \in 1 .. n /\ m # i /\ rest[j] = app.open_tabs[m]
        BY <1>2, <3>1, <3>3
      <4> HIDE DEF m
      <4>2. app.open_tabs[i].path = p
        BY <1>1, <2>2
      <4> QED  BY <1>2, <1>3, <3>1, <4>1, <4>2 DEF FiledTabs
    <3> QED  BY <3>2, <3>4
  <2> QED  BY <2>1, <2>2
<1> HIDE DEF rest
<1>5. FiledTabs(w.app.open_tabs, w.disk.files) /\ Tied(w.app) /\ FiledDisk(w.disk)
  <2>1. FiledTabs(rest, w.disk.files)
    <3>1. \A j \in 1 .. Len(rest) : rest[j].path \in Path \cup {NoPath}
      <4>1. \A j \in 1 .. Len(rest) : rest[j] \in TabE(E)
        BY <1>1
      <4> QED  BY <4>1 DEF TabE
    <3>2. \A q \in Path : q # p => w.disk.files[q] = disk.files[q]
      BY <1>1, <1>2
    <3>3. ASSUME NEW j \in 1 .. Len(rest), rest[j].path # NoPath
          PROVE  rest[j].coll = rest[j].path[1] /\ w.disk.files[rest[j].path] # NoDoc
      <4>1. rest[j].path \in Path /\ rest[j].path # p
        BY <1>4, <3>1, <3>3
      <4> QED  BY <1>4, <3>2, <3>3, <4>1 DEF FiledTabs
    <3> QED  BY <1>4, <3>3 DEF FiledTabs
  <2>2. w.app.open_tabs = rest /\ w.app.request_path = NoPath
    BY <1>1 DEF DeletedFrom
  <2>3. FiledDisk(w.disk)
    BY <1>1, <1>3 DEF FiledDisk
  <2> QED  BY <2>1, <2>2, <2>3 DEF Tied
<1>6. Placed(v) /\ Whole(v, E)
  <2>1. Typed(w, E) /\ Len(w.app.open_tabs) < MaxTabs
    BY <1>1, <1>2, DesktopAssumption DEF Whole, DeletedFrom
  <2>2. Whole(v, E)
    BY <1>1, <2>1, WholeRefresh
  <2>3. Placed(v)
    BY <1>1, <1>5, PlacedRefresh DEF Whole
  <2> QED  BY <2>2, <2>3
<1> HIDE DEF v
<1> DEFINE x == SettingsChanged(RemoveRecovery([v EXCEPT
                    !.app = [Saved(@) EXCEPT !.recovery_restored = FALSE]]))
<1>7. /\ x.app.open_tabs = v.app.open_tabs
      /\ x.app.active_tab = v.app.active_tab
      /\ x.app.selected_collection = v.app.selected_collection
      /\ x.app.requests = v.app.requests /\ x.app.request_path = v.app.request_path
      /\ x.disk.recovery.drafts = <<>> /\ x.disk.tabs = v.disk.tabs
      /\ x.disk.files = v.disk.files
  BY <1>6, DeletedEnd
<1> HIDE DEF x
<1>8. Placed(x)
  <2>1. Len(x.disk.recovery.drafts) = 0
    BY <1>7
  <2>2. FiledDisk(x.disk)
    BY <1>6, <1>7, <2>1 DEF Placed, FiledDisk
  <2> QED  BY <1>6, <1>7, <2>2 DEF Placed, Tied, OwnRequests
<1>9. ~RefreshFails(w)
  BY DEF RefreshFails
<1> QED  BY <1>8, <1>9 DEF DeleteWorld, x, v, w

(* After a save the tab of the saved request may still have the collection it     *)
(* was opened in; the listing that follows puts it right.                       *)
(* The file of another tab is not the one a save writes, nor the one it moves.  *)
LEMMA OtherFiles ==
  ASSUME NEW E \in Nat, Whole(world, E), Placed(world),
         NEW p \in Targets(app.selected_collection, app.request_path),
         app.open_tabs # <<>>, NEW i \in 1 .. Len(app.open_tabs), i # app.active_tab,
         app.open_tabs[i].path # NoPath
  PROVE  /\ app.open_tabs[i].path \in Path /\ app.open_tabs[i].path # p
         /\ app.open_tabs[i].path # app.request_path
         /\ app.open_tabs[i].coll = app.open_tabs[i].path[1]
         /\ disk.files[app.open_tabs[i].path] # NoDoc
<1> DEFINE m == app.active_tab
           n == Len(app.open_tabs)
           q == app.open_tabs[i].path
<1>1. /\ app.open_tabs \in Seq(TabE(E)) /\ m \in 1 .. n
      /\ world.app = app /\ world.disk = disk
  BY WholeFacts, WorldIs
<1>2. /\ FiledTabs(app.open_tabs, disk.files) /\ Tied(app)
      /\ p = app.request_path \/ disk.files[p] = NoDoc
  BY <1>1 DEF Placed, Targets
<1>3. q \in Path
  <2>1. app.open_tabs[i] \in TabE(E)
    BY <1>1
  <2> QED  BY <2>1 DEF TabE
<1>4. app.open_tabs[i].coll = q[1] /\ disk.files[q] # NoDoc
  BY <1>2 DEF FiledTabs
<1>5. app.request_path # NoPath => app.open_tabs[m].path = app.request_path
  BY <1>2 DEF Tied
<1>6. q # app.request_path
  <2>1. q # app.open_tabs[m].path
    BY <1>1, <1>2 DEF FiledTabs
  <2> QED  BY <1>5, <2>1
<1>7. q # p
  BY <1>2, <1>4, <1>6
<1> QED  BY <1>3, <1>4, <1>6, <1>7

LEMMA FiledSaved ==
  ASSUME NEW E \in Nat, Whole(world, E), Placed(world), app.valid,
         NEW p \in Targets(app.selected_collection, app.request_path),
         NEW b, TypedApp(b, E), SaveFrom(app, b, p),
         NEW a, TypedApp(a, E), SameButSaved(SyncActiveTab(b), a),
         NEW files, \A q \in Path : files[q] = IF q = p THEN app.request
                       ELSE IF q = app.request_path THEN NoDoc ELSE disk.files[q],
         NEW u, TypedApp(u, E), u.open_tabs = a.open_tabs, u.active_tab = a.active_tab,
         u.selected_collection = a.selected_collection, u.request_path = a.request_path,
         u.valid = a.valid, Positions(u.requests, p) # {}
  PROVE  FiledTabs(SyncActiveTab(u).open_tabs, files) /\ ~SyncFails(u)
<1> DEFINE m == app.active_tab
           n == Len(app.open_tabs)
           old == app.request_path
           s == SyncActiveTab(u)
           t == SyncActiveTab(b)
<1>1. /\ app.open_tabs \in Seq(TabE(E)) /\ n \in Nat /\ world.app = app /\ world.disk = disk
      /\ app.open_tabs # <<>> => m \in 1 .. n
      /\ old \in Path \cup {NoPath} /\ app.request \in DocE(E)
  BY WholeFacts, WorldIs
<1>2. /\ FiledTabs(app.open_tabs, disk.files) /\ Tied(app)
      /\ p \in Path /\ p[1] = app.selected_collection /\ (p = old \/ disk.files[p] = NoDoc)
      /\ p # NoPath
  BY <1>1, PathFacts DEF Placed, Targets
<1>3. /\ SameEditor(b, t) /\ Len(t.open_tabs) = Len(b.open_tabs)
      /\ \A i \in 1 .. Len(b.open_tabs) : i # b.active_tab => t.open_tabs[i] = b.open_tabs[i]
  BY SyncFacts
<1>4. /\ SameEditor(u, s) /\ Len(s.open_tabs) = Len(u.open_tabs)
      /\ s.open_tabs = <<>> <=> u.open_tabs = <<>>
      /\ \A i \in 1 .. Len(u.open_tabs) : i # u.active_tab => s.open_tabs[i] = u.open_tabs[i]
      /\ u.open_tabs # <<>> /\ u.valid =>
           /\ s.open_tabs[u.active_tab].path = u.request_path
           /\ s.open_tabs[u.active_tab].coll =
                IF Positions(u.requests, u.request_path) # {} THEN u.selected_collection
                ELSE u.open_tabs[u.active_tab].coll
  BY SyncFacts
<1> HIDE DEF s, t
<1>5. /\ u.open_tabs = t.open_tabs /\ u.active_tab = m /\ u.selected_collection = p[1]
      /\ u.request_path = p /\ u.valid /\ b.open_tabs = app.open_tabs /\ b.active_tab = m
  BY <1>2, <1>3 DEF SaveFrom, SameButSaved, SameEditor, t
<1>6. /\ Len(s.open_tabs) = n
      /\ \A i \in 1 .. n : i # m => s.open_tabs[i] = app.open_tabs[i]
  BY <1>3, <1>4, <1>5
<1>7. CASE app.open_tabs = <<>>
  <2>1. n = 0
    BY <1>7
  <2> QED  BY <1>5, <1>6, <2>1 DEF FiledTabs, SyncFails, s
<1>8. CASE app.open_tabs # <<>>
  <2>1. m \in 1 .. n /\ u.open_tabs # <<>>
    <3>1. Len(u.open_tabs) = n /\ n # 0
      BY <1>1, <1>3, <1>5, <1>8
    <3> QED  BY <1>1, <1>8, <3>1
  <2>2. s.open_tabs[m].path = p /\ s.open_tabs[m].coll = p[1]
    BY <1>4, <1>5, <2>1
  <2>3. files[p] # NoDoc
    BY <1>1, <1>2, NoDocFacts
  <2>4. ASSUME NEW i \in 1 .. n, i # m, app.open_tabs[i].path # NoPath
        PROVE  /\ app.open_tabs[i].coll = app.open_tabs[i].path[1]
               /\ files[app.open_tabs[i].path] # NoDoc /\ app.open_tabs[i].path # p
    BY <1>8, <2>4, OtherFiles
  <2>5. ASSUME NEW i \in 1 .. n, s.open_tabs[i].path # NoPath
        PROVE  s.open_tabs[i].coll = s.open_tabs[i].path[1] /\ files[s.open_tabs[i].path] # NoDoc
    BY <1>6, <2>2, <2>3, <2>4, <2>5
  <2>6. ASSUME NEW i \in 1 .. n, NEW j \in 1 .. n, i # j, s.open_tabs[i].path # NoPath
        PROVE  s.open_tabs[i].path # s.open_tabs[j].path
    <3>1. CASE i = m
      <4>1. s.open_tabs[j] = app.open_tabs[j]
        BY <1>6, <2>6, <3>1
      <4>2. app.open_tabs[j].path # p
        BY <1>2, <2>4, <2>6, <3>1
      <4> QED  BY <2>2, <3>1, <4>1, <4>2
    <3>2. CASE j = m
      <4>1. s.open_tabs[i] = app.open_tabs[i]
        BY <1>6, <2>6, <3>2
      <4>2. app.open_tabs[i].path # p
        BY <2>4, <2>6, <3>2, <4>1
      <4> QED  BY <2>2, <3>2, <4>1, <4>2
    <3>3. CASE i # m /\ j # m
      <4>1. s.open_tabs[i] = app.open_tabs[i] /\ s.open_tabs[j] = app.open_tabs[j]
        BY <1>6, <3>3
      <4> QED  BY <1>2, <2>6, <4>1 DEF FiledTabs
    <3> QED  BY <3>1, <3>2, <3>3
  <2>7. FiledTabs(s.open_tabs, files)
    BY <1>6, <2>5, <2>6 DEF FiledTabs
  <2> QED  BY <1>5, <2>7 DEF SyncFails, s
<1> QED  BY <1>7, <1>8

LEMMA PlacedSave ==
  ASSUME NEW E \in Nat, Whole(world, E), Placed(world), unreadable = {}, app.valid,
         NEW p \in Targets(app.selected_collection, app.request_path), NewDoc \in DocE(E),
         Len(app.open_tabs) < MaxTabs
  PROVE  Placed(SaveWorld(p))
<1> DEFINE v == SavedWorld(p)
           b == [Saved(app) EXCEPT !.request_path = p, !.dirty = FALSE,
                                   !.recovery_restored = FALSE]
           u == Listing1(v)
           x == RefreshRequests(v, p)
           files == v.disk.files
           old == app.request_path
           s == SyncActiveTab(u.app)
<1>1. p \in Path /\ p[1] = app.selected_collection /\ app.request \in DocE(E)
  BY WholeFacts, WorldIs DEF Targets
<1>2. /\ Whole(v, E) /\ TypedApp(b, E) /\ SaveFrom(app, b, p)
      /\ SameButSaved(SyncActiveTab(b), v.app)
      /\ v.disk.recovery.drafts = <<>> /\ v.disk.tabs = disk.tabs
      /\ files = [q \in Path |-> IF q = p THEN app.request
                                 ELSE IF q = old THEN NoDoc ELSE disk.files[q]]
  BY <1>1, SavedWhole
<1> HIDE DEF v, b
<1>3. /\ Typed(u, E) /\ u.disk = v.disk
      /\ u.app.requests = Listing(files, v.app.selected_collection)
      /\ u.app.requests \in Seq(EntryE(E))
      /\ u.app.open_tabs = v.app.open_tabs /\ u.app.active_tab = v.app.active_tab
      /\ u.app.selected_collection = v.app.selected_collection
      /\ u.app.request_path = v.app.request_path
      /\ u.app.valid = v.app.valid /\ u.app.dirty = v.app.dirty
  BY <1>2, ListedFacts DEF Whole
<1>4. /\ u.app.requests = <<>> => x = OpenDraft(u)
      /\ u.app.requests # <<>> =>
           \E k \in 1 .. Len(u.app.requests) : x = SelectEntry(u, k)
  BY <1>2, RefreshIs DEF Whole
<1>5. /\ v.app.selected_collection = p[1] /\ v.app.dirty = FALSE /\ v.app.request_path = p
      /\ files \in [Path -> DocE(E) \cup {NoDoc}] /\ TypedApp(v.app, E) /\ TypedApp(u.app, E)
      /\ Len(v.app.open_tabs) <= MaxTabs
  <2>1. SameEditor(b, SyncActiveTab(b))
    BY <1>2, SyncFacts
  <2>2. v.app.selected_collection = p[1] /\ v.app.dirty = FALSE /\ v.app.request_path = p
    BY <1>1, <1>2, <2>1 DEF SaveFrom, SameButSaved, SameEditor
  <2>3. TypedApp(v.app, E) /\ TypedApp(u.app, E)
    BY <1>2, <1>3, WholeFacts DEF Typed
  <2> QED  BY <1>2, <2>2, <2>3, WholeFacts
<1> HIDE DEF u, x
<1>6. OwnRequests(u.app, files) /\ Positions(u.app.requests, p) # {} /\ u.app.requests # <<>>
  <2> DEFINE c == v.app.selected_collection
             l == Listing(files, c)
  <2>1. c \in Collections /\ files[p] # NoDoc /\ c = p[1]
    BY <1>1, <1>2, <1>5, PathFacts, NoDocFacts
  <2>2. /\ l \in Seq(EntryE(E))
        /\ \A k \in 1 .. Len(l) :
             /\ l[k].path \in Path /\ l[k].path[1] = c
             /\ files[l[k].path] = l[k].doc /\ l[k].doc # NoDoc
        /\ \A q \in Path : q[1] = c /\ files[q] # NoDoc => \E k \in 1 .. Len(l) : l[k].path = q
    BY <1>5, <2>1, ListingFacts
  <2>3. u.app.requests = l /\ u.app.selected_collection = c
    BY <1>3
  <2> HIDE DEF l, c, files
  <2>4. PICK k \in 1 .. Len(l) : l[k].path = p
    BY <1>1, <2>1, <2>2
  <2>5. k \in Positions(l, p) /\ l # <<>>
    BY <2>2, <2>4 DEF Positions
  <2> QED  BY <2>2, <2>3, <2>5 DEF OwnRequests
<1>7. PICK k \in 1 .. Len(u.app.requests) : x = SelectEntry(u, k)
  BY <1>4, <1>6
<1>8. FiledTabs(s.open_tabs, files) /\ ~SyncFails(u.app)
  <2> DEFINE a == v.app
             ua == u.app
  <2>1. /\ TypedApp(a, E) /\ SameButSaved(SyncActiveTab(b), a) /\ TypedApp(ua, E)
        /\ ua.open_tabs = a.open_tabs /\ ua.active_tab = a.active_tab
        /\ ua.selected_collection = a.selected_collection /\ ua.request_path = a.request_path
        /\ ua.valid = a.valid /\ Positions(ua.requests, p) # {}
    BY <1>2, <1>3, <1>5, <1>6
  <2>2. \A q \in Path : files[q] = IF q = p THEN app.request
                       ELSE IF q = app.request_path THEN NoDoc ELSE disk.files[q]
    BY <1>2
  <2> HIDE DEF a, ua, files
  <2>3. FiledTabs(SyncActiveTab(ua).open_tabs, files) /\ ~SyncFails(ua)
    BY <1>2, <2>1, <2>2, FiledSaved, ZenonT(30)
  <2> QED  BY <2>3 DEF ua
<1>9. /\ Typed(x, E) /\ x.disk = u.disk /\ SelectedFrom(s, files, k, x.app)
  <2>1. PersistIfDirty(u) = u
    BY <1>3, <1>5 DEF PersistIfDirty
  <2>2. Len(u.app.open_tabs) <= MaxTabs
    BY <1>3, <1>5
  <2>3. Typed(x, E)
    BY <1>3, <1>7, <2>2, SelectEntryFacts
  <2>4. /\ SelectEntry(u, k).disk = PersistIfDirty(u).disk
        /\ ~SyncFails(u.app) => SelectedFrom(SyncActiveTab(PersistIfDirty(u).app),
                                     PersistIfDirty(u).disk.files, k, SelectEntry(u, k).app)
    BY <1>3, <2>2, SelectEntryFacts
  <2> QED  BY <1>3, <1>7, <1>8, <2>1, <2>3, <2>4
<1>10. TypedApp(s, E) /\ SameEditor(u.app, s)
  BY <1>5, SyncFacts
<1>11. OwnRequests(s, files) /\ k \in 1 .. Len(s.requests)
  BY <1>6, <1>7, <1>10, SMTT(30) DEF OwnRequests, SameEditor
<1>12. TypedApp(x.app, E)
  BY <1>9 DEF Typed
<1> HIDE DEF s, files
<1>13. FiledTabs(x.app.open_tabs, files) /\ Tied(x.app) /\ OwnRequests(x.app, files)
  BY <1>5, <1>8, <1>9, <1>10, <1>11, <1>12, PlacedSelected
<1>14. FiledDisk(x.disk)
  <2>1. Len(x.disk.recovery.drafts) = 0 /\ x.disk.tabs = disk.tabs
    BY <1>2, <1>3, <1>9
  <2> QED  BY <2>1, WorldIs DEF Placed, FiledDisk
<1>15. Placed(x)
  BY <1>3, <1>9, <1>13, <1>14 DEF Placed, files
<1>16. ~RefreshFails(v)
  BY DEF RefreshFails
<1> QED  BY <1>15, <1>16 DEF SaveWorld, x, v

LEMMA PlacedDiscard ==
  ASSUME NEW E \in Nat, Whole(world, E), Placed(world), unreadable = {}, NewDoc \in DocE(E)
  PROVE  Placed(DiscardWorld)
<1> DEFINE x == DiscardWorld
           rest == TabsKept
           ks == {i \in DOMAIN app.open_tabs : ~app.open_tabs[i].recovered}
           n == Len(app.open_tabs)
           tabs == app.open_tabs
<1>1. /\ Whole(x, E) /\ x.disk.recovery.drafts = <<>>
      /\ x.disk.files = disk.files /\ x.disk.tabs = disk.tabs
      /\ rest \in Seq(TabE(E))
  BY DiscardWhole
<1>2. \E left : /\ KeptFrom(app, left)
                /\ rest = <<>> => FreshDraft(left, x.app)
                /\ rest # <<>> =>
                     \E next \in 1 .. Len(rest) : Shows(left, disk.files, next, x.app)
  BY DiscardWhole
<1> HIDE DEF x
<1>3. /\ app.open_tabs \in Seq(TabE(E)) /\ n \in Nat /\ DOMAIN app.open_tabs = 1 .. n
      /\ world.disk = disk /\ world.app = app /\ app.selected_collection \in Collections
      /\ disk.files \in [Path -> DocE(E) \cup {NoDoc}] /\ x.app.selected_collection \in Collections
  BY <1>1, WholeFacts, WorldIs
<1>4. FiledTabs(tabs, disk.files) /\ OwnRequests(app, disk.files) /\ FiledDisk(disk)
  BY <1>3 DEF Placed
<1>5. FiledTabs(rest, disk.files)
  <2>1. \A i \in ks : i \in 1 .. n
    BY <1>3
  <2>2. rest = Picked(tabs, ks)
    BY DEF TabsKept
  <2> HIDE DEF ks, rest, tabs
  <2>3. /\ \A k \in 1 .. Cardinality(ks) : Nth(ks, k) \in ks /\ Picked(tabs, ks)[k] = tabs[Nth(ks, k)]
        /\ \A k, l \in 1 .. Cardinality(ks) : k # l => Nth(ks, k) # Nth(ks, l)
    BY <1>3, <2>1, PickedFacts
  <2>4. Len(rest) = Cardinality(ks)
    <3>1. DOMAIN rest = 1 .. Cardinality(ks) /\ Cardinality(ks) \in Nat
      BY <1>3, <2>1, <2>2, PickedFacts
    <3>2. rest \in Seq(TabE(E))
      BY <1>1
    <3>3. DOMAIN rest = 1 .. Len(rest) /\ Len(rest) \in Nat
      BY <3>2
    <3> QED  BY <3>1, <3>3
  <2> DEFINE f == [k \in 1 .. Len(rest) |-> Nth(ks, k)]
  <2>5. \A k \in 1 .. Len(rest) : f[k] \in 1 .. Len(tabs) /\ rest[k] = tabs[f[k]]
    BY <2>1, <2>2, <2>3, <2>4 DEF tabs
  <2>6. \A k, l \in 1 .. Len(rest) : k # l => f[k] # f[l]
    BY <2>3, <2>4
  <2> HIDE DEF f
  <2> QED  BY <1>4, <2>5, <2>6, FiledPart
<1>6. PICK left : /\ KeptFrom(app, left)
                  /\ rest = <<>> => FreshDraft(left, x.app)
                  /\ rest # <<>> =>
                       \E next \in 1 .. Len(rest) : Shows(left, disk.files, next, x.app)
  BY <1>2
<1>7. /\ left.open_tabs = rest /\ left.selected_collection \in Collections
      /\ OwnRequests(left, disk.files)
  BY <1>3, <1>4, <1>6 DEF KeptFrom, OwnRequests
<1> HIDE DEF rest
<1>8. FiledTabs(x.app.open_tabs, disk.files) /\ Tied(x.app) /\ OwnRequests(x.app, disk.files)
  <2>1. CASE rest = <<>>
    BY <1>6, <1>7, <2>1, PlacedFresh
  <2>2. CASE rest # <<>>
    <3>1. PICK next \in 1 .. Len(rest) : Shows(left, disk.files, next, x.app)
      BY <1>6, <2>2
    <3> QED  BY <1>3, <1>5, <1>7, <2>2, <3>1, PlacedShown
  <2> QED  BY <2>1, <2>2
<1>9. FiledDisk(x.disk)
  <2>1. Len(x.disk.recovery.drafts) = 0
    BY <1>1
  <2> QED  BY <1>1, <1>4, <2>1 DEF FiledDisk
<1> QED  BY <1>1, <1>8, <1>9 DEF Placed, x

LEMMA PlacedGives ==
  ASSUME edits \in Nat, Whole(world, edits), Placed(world), unreadable = {},
         NEW w, NEW new, Gives(w, new)
  PROVE  Placed(w)
<1> DEFINE E == edits
<1>0. E \in Nat /\ Whole(world, E)
  OBVIOUS
<1>1. MayCreate => NewDoc \in DocE(E) /\ Len(app.open_tabs) < MaxTabs
  BY <1>0, NewDocFacts DEF MayCreate
<1>2. Ids \ UsedIds # {} => NewDoc \in DocE(E)
  BY <1>0, NewDocFacts
<1> HIDE DEF E
<1>9. Typed(world, E) /\ Len(world.app.open_tabs) <= MaxTabs
  BY <1>0, WholeFacts
<1>3. ASSUME Leaves(w) PROVE Placed(w)
  <2>1. CASE w = world
    BY <2>1
  <2>2. CASE \E i \in 1 .. MaxTabs : i \in DOMAIN app.open_tabs /\ i # app.active_tab /\ w = SwitchWorld(i)
    BY <1>0, <2>2, PlacedSwitch
  <2>3. CASE \E i \in 1 .. MaxTabs :
               /\ i \in DOMAIN app.open_tabs /\ ~app.open_tabs[i].dirty
               /\ RemoveAt(app.open_tabs, i) = <<>> => MayCreate
               /\ w = CloseWorld(i)
    BY <1>0, <1>1, <2>3, PlacedClose
  <2>4. CASE /\ Len(app.open_tabs) > 1
             /\ \A i \in DOMAIN app.open_tabs : i # app.active_tab => ~app.open_tabs[i].dirty
             /\ w = CloseOthersWorld
    BY <1>0, <2>4, PlacedCloseOthers
  <2>5. CASE \E t \in 1 .. MaxTabs :
               /\ t \in DOMAIN app.open_tabs /\ t \in {app.active_tab - 1, app.active_tab + 1}
               /\ w = MoveWorld(t)
    BY <1>0, <2>5, PlacedMove
  <2>6. CASE MayCreate /\ w = OpenDraft(world)
    BY <1>0, <1>1, <1>9, <2>6, PlacedDraft
  <2>7. CASE \E k \in 1 .. MaxFiles :
               k \in DOMAIN app.requests /\ Len(app.open_tabs) < MaxTabs /\ w = SelectEntry(world, k)
    <3>1. PICK k \in DOMAIN app.requests : w = SelectEntry(world, k)
      BY <2>7
    <3>2. k \in 1 .. Len(world.app.requests)
      <4>1. app.requests \in Seq(EntryE(E))
        BY <1>0, WholeFacts, WorldIs
      <4> QED  BY <3>1, <4>1, WorldIs
    <3> QED  BY <1>0, <1>9, <3>1, <3>2, PlacedSelect
  <2>8. CASE \E c \in Collections : MayCreate /\ w = CollectionWorld(c)
    BY <1>0, <1>1, <2>8, PlacedCollection
  <2>9. CASE \E p \in Path :
               /\ unreadable = {} /\ disk.files[p] # NoDoc /\ MayCreate
               /\ w = RefreshRequests(SelectedWorld(p[1]), p)
    BY <1>0, <1>1, <2>9, PlacedCollection, PathFacts
  <2>10. CASE \E id \in Ids :
               /\ Found(id) # {} /\ Len(app.open_tabs) < MaxTabs
               /\ \A b \in 1 .. HistoryCollection(id) : b \notin unreadable
               /\ w = HistoryWorld(id)
    BY <1>0, <2>10, PlacedHistory
  <2>11. CASE \E p \in Targets(app.selected_collection, app.request_path) :
                app.valid /\ MayCreate /\ w = SaveWorld(p)
    BY <1>0, <1>1, <2>11, PlacedSave
  <2>12. CASE \E p \in Targets(app.selected_collection, NoPath) :
                app.request_path # NoPath /\ app.valid /\ MayCreate /\ w = DuplicateWorld(p)
    BY <1>0, <1>1, <2>12, PlacedDuplicate
  <2>13. CASE app.recovery_restored /\ MayCreate /\ w = DiscardWorld
    BY <1>0, <1>1, <2>13, PlacedDiscard
  <2>14. CASE app.pending = 0 /\ app.valid /\ w = SendWorld
    BY <1>0, <2>14, SendWhole, PlacedSame DEF Awaits
  <2>15. CASE \E answer \in {app.pending, app.response} : app.pending # 0 /\ w = PollWorld(answer)
    <3>1. PICK answer \in {app.pending, app.response} : w = PollWorld(answer)
      BY <2>15
    <3>2. PollWorld(answer).disk = disk /\ Awaits(app, PollWorld(answer).app)
      BY <1>0, PollWhole
    <3> QED  BY <3>1, <3>2, PlacedSame DEF Awaits
  <2> QED  BY <1>3, <2>1, <2>2, <2>3, <2>4, <2>5, <2>6, <2>7, <2>8, <2>9, <2>10, <2>11,
              <2>12, <2>13, <2>14, <2>15 DEF Leaves
<1>4. ASSUME Imports(w) PROVE Placed(w)
  BY <1>0, <1>2, <1>4, ImportWhole, PlacedSame DEF Imports, ResetFrom
<1>5. ASSUME Deletes(w) PROVE Placed(w)
  <2>1. app.request_path \in Path
    BY <1>0, <1>5, WholeFacts, WorldIs DEF Deletes
  <2> QED  BY <1>0, <1>1, <1>5, <2>1, PlacedDelete DEF Deletes
<1>6. ASSUME Edits(w) PROVE Placed(w)
  <2>1. PICK v \in BOOLEAN : w = EditWorld(v)
    BY <1>6 DEF Edits
  <2>2. EditWorld(v).disk = disk /\ EditedFrom(app, EditWorld(v).app, edits + 1, v)
    BY EditWhole
  <2> QED  BY <2>1, <2>2, PlacedSame DEF EditedFrom
<1> QED  BY <1>3, <1>4, <1>5, <1>6 DEF Gives

LEMMA PlacedRestoreTabs ==
  ASSUME NEW E \in Nat, NEW w, Typed(w, E), Placed(w), unreadable = {}
  PROVE  Placed(RestoreTabs(w))
<1> DEFINE x == RestoreTabs(w)
           paths == FoundPaths(w)
           files == w.disk.files
           saved == w.disk.tabs.paths
           ks == Kinds(w)
<1>1. Typed(x, E) /\ x.disk = w.disk
  BY RestoreTabsFacts
<1>2. /\ paths = <<>> => x = w
      /\ paths # <<>> => RestoredFrom(w, x) /\ x.app.open_tabs # <<>>
  BY RestoreTabsFacts
<1> HIDE DEF x
<1>3. CASE paths = <<>>
  BY <1>2, <1>3 DEF x
<1>4. CASE paths # <<>>
  <2>1. PICK a : \E next \in 1 .. Len(paths) :
           /\ a.open_tabs = [i \in DOMAIN paths |-> SavedTab(files, paths[i])]
           /\ Shows(a, files, next, x.app)
    BY <1>2, <1>4 DEF RestoredFrom
  <2>2. PICK next \in 1 .. Len(paths) :
           /\ a.open_tabs = [i \in DOMAIN paths |-> SavedTab(files, paths[i])]
           /\ Shows(a, files, next, x.app)
    BY <2>1
  <2>3. /\ paths \in Seq(Path) /\ Len(paths) \in Nat /\ DOMAIN paths = 1 .. Len(paths)
        /\ \A i \in 1 .. Len(paths) : paths[i] \in Path /\ files[paths[i]] \in DocE(E)
        /\ \A i \in 1 .. Len(paths) : SavedTab(files, paths[i]) \in TabE(E)
    BY FoundPathsFacts
  <2>4. \A i, j \in 1 .. Len(paths) : i # j => paths[i] # paths[j]
    <3>1. saved \in Seq(Path) /\ DOMAIN saved = 1 .. Len(saved) /\ Len(saved) \in Nat
      BY DEF Typed, DiskE
    <3>2. \A i \in ks : i \in 1 .. Len(saved) /\ saved[i] \in Path
      BY <3>1 DEF Kinds
    <3>3. paths = Picked(saved, ks)
      BY DEF FoundPaths
    <3>4. \A i, j \in 1 .. Len(saved) : i # j => saved[i] # saved[j]
      BY DEF Placed, FiledDisk
    <3> HIDE DEF ks, saved, paths
    <3>5. \A i \in ks : i \in 1 .. Len(saved)
      BY <3>2
    <3>6. /\ \A k \in 1 .. Cardinality(ks) : Nth(ks, k) \in ks /\ Picked(saved, ks)[k] = saved[Nth(ks, k)]
          /\ \A k, l \in 1 .. Cardinality(ks) : k # l => Nth(ks, k) # Nth(ks, l)
      BY <3>1, <3>5, PickedFacts
    <3>7. Len(Picked(saved, ks)) = Cardinality(ks)
      BY <3>1, <3>2, <3>5, PickedIsSequence
    <3> QED  BY <3>3, <3>4, <3>5, <3>6, <3>7
  <2> HIDE DEF paths, files
  <2>5. /\ DOMAIN a.open_tabs = 1 .. Len(paths) /\ Len(a.open_tabs) = Len(paths)
        /\ a.open_tabs # <<>>
        /\ \A i \in 1 .. Len(paths) : a.open_tabs[i] = SavedTab(files, paths[i])
    BY <1>4, <2>2, <2>3
  <2>6. \A i \in 1 .. Len(paths) :
          /\ a.open_tabs[i].path = paths[i] /\ a.open_tabs[i].coll = paths[i][1]
          /\ files[paths[i]] # NoDoc
    <3>1. NoDoc \notin DocE(E)
      BY NoDocFacts
    <3>2. ASSUME NEW i \in 1 .. Len(paths)
          PROVE  /\ a.open_tabs[i].path = paths[i] /\ a.open_tabs[i].coll = paths[i][1]
                 /\ files[paths[i]] # NoDoc
      <4>1. a.open_tabs[i] = SavedTab(files, paths[i]) /\ files[paths[i]] \in DocE(E)
        BY <2>3, <2>5
      <4> QED  BY <3>1, <4>1 DEF SavedTab
    <3> QED  BY <3>2
  <2>7. FiledTabs(a.open_tabs, files)
    BY <2>4, <2>5, <2>6 DEF FiledTabs
  <2>8. x.app.selected_collection \in Collections /\ files \in [Path -> DocE(E) \cup {NoDoc}]
    BY <1>1 DEF Typed, AppE, DiskE, files
  <2>9. FiledTabs(x.app.open_tabs, files) /\ Tied(x.app) /\ OwnRequests(x.app, files)
    BY <2>2, <2>5, <2>7, <2>8, PlacedShown
  <2> QED  BY <1>1, <2>9 DEF Placed, x, files
<1> QED  BY <1>3, <1>4

LEMMA PlacedRestoreRecovery ==
  ASSUME NEW E \in Nat, NEW w, Typed(w, E), Placed(w), unreadable = {}
  PROVE  Placed(RestoreRecovery(w))
<1> DEFINE x == RestoreRecovery(w)
           drafts == w.disk.recovery.drafts
           files == w.disk.files
           new == [i \in DOMAIN drafts |-> DraftedTab(drafts[i])]
           s == w.app.open_tabs
           m == Len(s)
           q == s \o new
<1>1. Typed(x, E) /\ x.disk = w.disk
  BY RestoreRecoveryFacts
<1>2. /\ drafts = <<>> => x = w
      /\ drafts # <<>> => RecoveredFrom(w, x) /\ x.app.open_tabs # <<>>
  BY RestoreRecoveryFacts
<1> HIDE DEF x
<1>3. CASE drafts = <<>>
  BY <1>2, <1>3 DEF x
<1>4. CASE drafts # <<>>
  <2>1. PICK a, next, b :
           /\ next \in m + 1 .. m + Len(drafts) /\ a.open_tabs = q
           /\ Shows(a, files, next, b) /\ SameButSaved(b, x.app)
    BY <1>2, <1>4 DEF RecoveredFrom
  <2>2. /\ drafts \in Seq(DraftE(E)) /\ Len(drafts) \in Nat /\ DOMAIN drafts = 1 .. Len(drafts)
        /\ s \in Seq(TabE(E)) /\ m \in Nat
    BY DEF Typed, AppE, DiskE
  <2>3. new \in Seq(TabE(E)) /\ Len(new) = Len(drafts) /\ \A i \in 1 .. Len(new) : new[i].path = NoPath
    <3>1. \A d \in DraftE(E) : DraftedTab(d) \in TabE(E) /\ DraftedTab(d).path = NoPath
      BY DEF DraftE, TabE, DraftedTab
    <3>2. \A i \in 1 .. Len(drafts) : drafts[i] \in DraftE(E)
      BY <2>2
    <3> QED  BY <2>2, <3>1, <3>2
  <2> HIDE DEF new, drafts, s, q
  <2>4. /\ q \in Seq(TabE(E)) /\ Len(q) = m + Len(new)
        /\ \A k \in 1 .. Len(q) : q[k] = IF k <= m THEN s[k] ELSE new[k - m]
    <3>1. /\ s \o new \in Seq(TabE(E)) /\ Len(s \o new) = Len(s) + Len(new)
          /\ \A k \in 1 .. Len(s) + Len(new) :
               (s \o new)[k] = IF k <= Len(s) THEN s[k] ELSE new[k - Len(s)]
      <4>1. s \in Seq(TabE(E)) /\ new \in Seq(TabE(E))
        BY <2>2, <2>3
      <4> QED  BY <4>1, ConcatFacts
    <3> QED  BY <3>1 DEF q
  <2> HIDE DEF m
  <2>5. \A k \in 1 .. Len(q) : q[k].path # NoPath => k \in 1 .. m /\ q[k] = s[k]
    <3> SUFFICES ASSUME NEW k \in 1 .. Len(q), q[k].path # NoPath
                 PROVE  k \in 1 .. m /\ q[k] = s[k]
      OBVIOUS
    <3>1. CASE k <= m
      BY <2>2, <2>4, <3>1
    <3>2. CASE ~(k <= m)
      <4>1. k - m \in 1 .. Len(new)
        BY <2>2, <2>3, <2>4, <3>2
      <4> QED  BY <2>3, <2>4, <3>2, <4>1
    <3> QED  BY <3>1, <3>2
  <2>6. FiledTabs(s, files)
    BY DEF Placed, s
  <2>7. FiledTabs(q, files)
    <3>1. ASSUME NEW k \in 1 .. Len(q), q[k].path # NoPath
          PROVE  q[k].coll = q[k].path[1] /\ files[q[k].path] # NoDoc
      BY <2>5, <2>6, <3>1 DEF FiledTabs, m
    <3>2. ASSUME NEW i \in 1 .. Len(q), NEW j \in 1 .. Len(q), i # j, q[i].path # NoPath
          PROVE  q[i].path # q[j].path
      <4>1. CASE q[j].path = NoPath
        BY <3>2, <4>1
      <4>2. CASE q[j].path # NoPath
        BY <2>5, <2>6, <3>2, <4>2 DEF FiledTabs, m
      <4> QED  BY <4>1, <4>2
    <3> QED  BY <3>1, <3>2 DEF FiledTabs
  <2>8. next \in 1 .. Len(q) /\ q # <<>>
    BY <2>1, <2>2, <2>3, <2>4
  <2>9. b.selected_collection \in Collections /\ files \in [Path -> DocE(E) \cup {NoDoc}]
    <3>1. x.app.selected_collection \in Collections
      BY <1>1 DEF Typed, AppE
    <3>2. b.selected_collection = x.app.selected_collection
      BY <2>1 DEF SameButSaved, SameEditor
    <3> QED  BY <3>1, <3>2 DEF Typed, DiskE
  <2> HIDE DEF files
  <2>10. FiledTabs(b.open_tabs, files) /\ Tied(b) /\ OwnRequests(b, files)
    BY <2>1, <2>7, <2>8, <2>9, PlacedShown
  <2>11. FiledTabs(x.app.open_tabs, files) /\ Tied(x.app) /\ OwnRequests(x.app, files)
    BY <2>1, <2>10 DEF SameButSaved, SameEditor, Tied, OwnRequests
  <2> QED  BY <1>1, <2>11 DEF Placed, x, files
<1> QED  BY <1>3, <1>4

LEMMA PlacedBlank ==
  ASSUME NEW d, FiledDisk(d)
  PROVE  Placed([app |-> Blank, disk |-> d])
<1>1. Blank.open_tabs = <<>> /\ Blank.requests = <<>> /\ Blank.request_path = NoPath
  BY DEF Blank
<1>2. Len(Blank.open_tabs) = 0 /\ Len(Blank.requests) = 0
  BY <1>1
<1> QED  BY <1>1, <1>2 DEF Placed, FiledTabs, Tied, OwnRequests

LEMMA PlacedOpen ==
  ASSUME TabsTyped, OpenApp, Placed(world), unreadable = {}
  PROVE  Placed(EndOfFrame(OpenedWorld))
<1>1. /\ edits \in Nat /\ Typed(world, edits) /\ NewDoc \in DocE(edits)
      /\ Len(world.app.open_tabs) <= MaxTabs
  BY NewDocFacts, WorldIs DEF TabsTyped, OpenApp
<1>2. Placed(Listed0)
  BY <1>1, PlacedRefresh DEF Placed, Listed0
<1>3. Typed(Listed0, edits) /\ Typed(RestoreTabs(Listed0), edits) /\ Whole(OpenedWorld, edits)
  BY OpenWhole DEF Whole
<1>4. Placed(RestoreTabs(Listed0))
  BY <1>1, <1>2, <1>3, PlacedRestoreTabs
<1>5. Placed(OpenedWorld)
  BY <1>1, <1>3, <1>4, PlacedRestoreRecovery DEF OpenedWorld
<1> QED  BY <1>1, <1>3, <1>5, PlacedEnd DEF Whole

(* While every file parses, all things are in their places.                    *)
TabsPlaced == unreadable = {} => Placed(world)

LEMMA TabsPlacedInit == Init => TabsPlaced
<1> SUFFICES ASSUME Init PROVE Placed(world)
  BY DEF TabsPlaced
<1>1. app = Blank /\ disk.tabs.paths = <<>> /\ disk.recovery.drafts = <<>>
  BY DEF Init, NoSnapshot
<1>2. Len(disk.tabs.paths) = 0 /\ Len(disk.recovery.drafts) = 0
  BY <1>1
<1> QED  BY <1>1, <1>2, PlacedBlank DEF FiledDisk, world

LEMMA TabsPlacedNext ==
  ASSUME TabsTyped, TabsPlaced, [Next]_vars
  PROVE  TabsPlaced'
<1>1. unreadable' = unreadable
  <2>1. ASSUME TabCommand PROVE unreadable' = unreadable
    BY <2>1, CommandCases DEF TabsTyped, Frame
  <2> QED  BY <2>1 DEF Next, SecondPasses, OnExit, Crash, OpenApp, vars
<1> SUFFICES ASSUME unreadable = {} PROVE Placed([app |-> app', disk |-> disk'])
  BY <1>1 DEF TabsPlaced, world
<1>2. Placed(world) /\ Typed(world, edits) /\ edits \in Nat /\ Len(world.app.open_tabs) <= MaxTabs
  BY WorldIs DEF TabsPlaced, TabsTyped
<1>3. \A x : Placed(x) /\ app' = x.app /\ disk' = x.disk => Placed([app |-> app', disk |-> disk'])
  BY DEF Placed
<1>4. \A x : Placed(x) /\ app' = Blank /\ disk' = x.disk => Placed([app |-> app', disk |-> disk'])
  BY PlacedBlank DEF Placed
<1>5. CASE TabCommand
  <2>1. PICK w, new : Frame(w, new) /\ Gives(w, new)
    BY <1>5, CommandCases DEF TabsTyped, Gives
  <2>2. Whole(world, edits)
    BY <2>1, TabsTypedWhole DEF Frame
  <2>3. Placed(w)
    BY <1>2, <2>1, <2>2, PlacedGives
  <2>4. Whole(w, edits + Cardinality(new)) /\ edits + Cardinality(new) \in Nat
    <3>1. Whole(w, edits + Cardinality(new)) /\ Cardinality(new) \in {0, 1}
      BY <1>2, <2>1, <2>2, WholeGives
    <3> QED  BY <1>2, <3>1
  <2>5. Placed(EndOfFrame(w))
    BY <2>3, <2>4, PlacedEnd DEF Whole
  <2> QED  BY <1>3, <1>4, <2>1, <2>3, <2>5 DEF Frame, Become, Stop
<1>6. CASE SecondPasses
  <2>1. app \in AppE(edits)
    BY <1>2, WorldIs DEF Typed
  <2>2. app' = [app EXCEPT !.recovery_last_saved = "due"] /\ disk' = disk
    BY <1>6 DEF SecondPasses
  <2>3. /\ app'.open_tabs = app.open_tabs /\ app'.active_tab = app.active_tab
        /\ app'.requests = app.requests /\ app'.request_path = app.request_path
        /\ app'.selected_collection = app.selected_collection
    BY <2>1, <2>2 DEF AppE
  <2> DEFINE x == [app |-> app', disk |-> disk']
  <2>4. x.app = app' /\ x.disk = disk
    BY <2>2
  <2> HIDE DEF x
  <2>5. Placed(x)
    BY <1>2, <2>3, <2>4, PlacedSame
  <2> QED  BY <2>5 DEF x
<1>7. CASE OnExit
  <2> DEFINE v == IF HasDirtyWork(app) THEN PersistRecovery(world) ELSE world
             w == SaveTabsSettings(v)
  <2>1. running /\ app' = Blank /\ disk' = w.disk
    BY <1>7 DEF OnExit, Stop
  <2>2. Typed(v, edits)
    BY <2>1, OnExitTyped
  <2>3. Placed(v)
    <3>1. PersistFrom(world, PersistRecovery(world))
      BY <1>2, PersistFacts
    <3>2. Placed(PersistRecovery(world))
      BY <1>2, <3>1, PlacedPersist
    <3> QED  BY <1>2, <3>2
  <2> HIDE DEF v
  <2>4. Placed(w)
    BY <1>2, <2>2, <2>3, PlacedSaveTabs
  <2> HIDE DEF w
  <2> QED  BY <1>4, <2>1, <2>4
<1>8. CASE Crash
  <2>1. app' = Blank /\ disk' = disk
    BY <1>8 DEF Crash, Stop
  <2> QED  BY <1>2, <1>4, <2>1, WorldIs
<1>9. CASE OpenApp
  <2>1. Become(EndOfFrame(OpenedWorld))
    BY <1>9 DEF OpenApp, OpenedWorld, Listed0
  <2>2. Placed(EndOfFrame(OpenedWorld))
    BY <1>2, <1>9, PlacedOpen
  <2> QED  BY <1>3, <2>1, <2>2 DEF Become
<1>10. CASE UNCHANGED vars
  BY <1>2, <1>3, <1>10, WorldIs DEF vars
<1> QED  BY <1>5, <1>6, <1>7, <1>8, <1>9, <1>10 DEF Next

(* The places of tabs, requests and drafts agree in every reachable world.     *)
THEOREM TabsPlacedInvariant == Spec => []TabsPlaced
<1>1. TabsTyped /\ TabsPlaced /\ [Next]_vars => TabsPlaced'
  BY TabsPlacedNext
<1> QED  BY TabsTypedInvariant, TabsPlacedInit, <1>1, PTL DEF Spec

(* Two tabs never show the same file, in whatever order tabs are opened, saved, *)
(* moved, closed, deleted and restored.                                        *)
THEOREM TabsShowDistinctFiles == Spec => []OneTabPerFile
<1>1. TabsTyped /\ TabsPlaced => OneTabPerFile
  <2> SUFFICES ASSUME TabsTyped, TabsPlaced, unreadable = {} PROVE
          \A i, j \in DOMAIN app.open_tabs :
            i # j /\ app.open_tabs[i].path # NoPath =>
              app.open_tabs[i].path # app.open_tabs[j].path
    BY DEF OneTabPerFile
  <2>1. app.open_tabs \in Seq(TabE(edits))
    BY WorldIs DEF TabsTyped, Typed, AppE
  <2>2. FiledTabs(app.open_tabs, disk.files)
    BY WorldIs DEF TabsPlaced, Placed
  <2> QED  BY <2>1, <2>2 DEF FiledTabs
<1> QED  BY TabsTypedInvariant, TabsPlacedInvariant, <1>1, PTL

(* Every tab of a file, and every draft in the snapshot, has the collection of  *)
(* its file.                                                                   *)
THEOREM TabsStayInCollection == Spec => []TabsKeepCollection
<1>1. TabsTyped /\ TabsPlaced => TabsKeepCollection
  <2> SUFFICES ASSUME TabsTyped, TabsPlaced, unreadable = {} PROVE
        /\ \A i \in DOMAIN app.open_tabs :
             app.open_tabs[i].path # NoPath =>
               app.open_tabs[i].coll = app.open_tabs[i].path[1]
        /\ \A i \in DOMAIN disk.recovery.drafts :
             disk.recovery.drafts[i].file # NoPath =>
               disk.recovery.drafts[i].coll = disk.recovery.drafts[i].file[1]
    BY DEF TabsKeepCollection
  <2>1. app.open_tabs \in Seq(TabE(edits)) /\ disk.recovery.drafts \in Seq(DraftE(edits))
    BY WorldIs DEF TabsTyped, Typed, AppE, DiskE
  <2>2. FiledTabs(app.open_tabs, disk.files) /\ FiledDisk(disk)
    BY WorldIs DEF TabsPlaced, Placed
  <2>3. ASSUME NEW i \in DOMAIN app.open_tabs, app.open_tabs[i].path # NoPath
        PROVE  app.open_tabs[i].coll = app.open_tabs[i].path[1]
    BY <2>1, <2>2, <2>3 DEF FiledTabs
  <2> DEFINE drafts == disk.recovery.drafts
  <2>4. ASSUME NEW i \in DOMAIN drafts, drafts[i].file # NoPath
        PROVE  drafts[i].coll = drafts[i].file[1]
    <3>1. i \in 1 .. Len(drafts)
      BY <2>1, <2>4
    <3> QED  BY <3>1, <2>2, <2>4 DEF FiledDisk
  <2> QED  BY <2>3, <2>4
<1> QED  BY TabsTypedInvariant, TabsPlacedInvariant, <1>1, PTL

-----------------------------------------------------------------------------
(* What a restart brings back.  An edit is safe if it is in the snapshot or    *)
(* newer than the last due one (F); the edits of unsaved work are covered if   *)
(* they are all safe.                                                         *)
DraftEdits(d) == {d.recovery.drafts[k].doc.edit : k \in DOMAIN d.recovery.drafts}
Safe(d, F) == F \cup DraftEdits(d) \cup {0}
CoveredTabs(tabs, G) == \A i \in 1 .. Len(tabs) : tabs[i].dirty => tabs[i].doc.edit \in G
Covered(a, G) == CoveredTabs(a.open_tabs, G) /\ (a.dirty => a.request.edit \in G)

(* A snapshot exists only while there is unsaved work to restore from it.      *)
SomeDirty(tabs) == \E i \in 1 .. Len(tabs) : tabs[i].dirty
DirtyShown(a) ==
  a.valid /\ a.open_tabs # <<>> /\ a.open_tabs[a.active_tab].dirty => a.dirty
Backed(w, F) ==
  /\ w.app.open_tabs # <<>>
  /\ w.app.recovery_last_saved = "none" \/ Covered(w.app, Safe(w.disk, F))
  /\ w.disk.recovery.drafts # <<>> => SomeDirty(w.app.open_tabs)
  /\ DirtyShown(w.app)

(* The active tab and the editor agree.                                       *)
Synced(a) ==
  a.valid /\ a.open_tabs # <<>> =>
    LET t == a.open_tabs[a.active_tab]
    IN /\ t.path = a.request_path /\ t.doc = a.request /\ t.dirty = a.dirty
       /\ t.recovered = a.recovery_restored

LEMMA SyncCovered ==
  ASSUME NEW E \in Nat, NEW a, TypedApp(a, E), a.open_tabs # <<>>
  PROVE  LET b == SyncActiveTab(a)
         IN /\ b.open_tabs # <<>> /\ DirtyShown(b) /\ Synced(b)
            /\ \A G : Covered(a, G) => Covered(b, G)
            /\ SomeDirty(a.open_tabs) /\ DirtyShown(a) => SomeDirty(b.open_tabs)
<1> DEFINE b == SyncActiveTab(a)
           n == Len(a.open_tabs)
<1>1. /\ SameEditor(a, b) /\ Len(b.open_tabs) = n
      /\ b.open_tabs = <<>> <=> a.open_tabs = <<>>
      /\ ~a.valid => b = a
      /\ \A i \in 1 .. n : i # a.active_tab => b.open_tabs[i] = a.open_tabs[i]
      /\ a.valid => LET t == b.open_tabs[a.active_tab]
                    IN /\ t.path = a.request_path /\ t.doc = a.request /\ t.dirty = a.dirty
                       /\ t.recovered = a.recovery_restored
  BY SyncFacts
<1>2. /\ SameEditor(a, b) /\ Len(b.open_tabs) = n
      /\ (b.open_tabs = <<>> <=> a.open_tabs = <<>>)
      /\ (~a.valid => b = a)
      /\ \A i \in 1 .. n : i # a.active_tab => b.open_tabs[i] = a.open_tabs[i]
  BY SyncFacts
<1>3. a.active_tab \in 1 .. n
  BY DEF TypedApp
<1> HIDE DEF b
<1>4. CASE ~a.valid
  <2>1. b = a
    BY <1>2, <1>4
  <2> QED  BY <1>4, <2>1 DEF DirtyShown, Synced, b
<1>5. CASE a.valid
  <2> DEFINE t == b.open_tabs[a.active_tab]
  <2>1. /\ t.path = a.request_path /\ t.doc = a.request /\ t.dirty = a.dirty
        /\ t.recovered = a.recovery_restored
    BY <1>1, <1>5
  <2>2. /\ b.request_path = a.request_path /\ b.request = a.request /\ b.dirty = a.dirty
        /\ b.recovery_restored = a.recovery_restored /\ b.active_tab = a.active_tab
    BY <1>2 DEF SameEditor
  <2>3. DirtyShown(b) /\ Synced(b)
    BY <2>1, <2>2 DEF DirtyShown, Synced
  <2>4. ASSUME NEW G, Covered(a, G) PROVE Covered(b, G)
    <3>1. ASSUME NEW i \in 1 .. n, b.open_tabs[i].dirty PROVE b.open_tabs[i].doc.edit \in G
      <4>1. CASE i = a.active_tab
        BY <2>1, <2>4, <3>1, <4>1 DEF Covered
      <4>2. CASE i # a.active_tab
        BY <1>2, <2>4, <3>1, <4>2 DEF Covered, CoveredTabs
      <4> QED  BY <4>1, <4>2
    <3> QED  BY <1>2, <2>2, <2>4, <3>1 DEF Covered, CoveredTabs
  <2>5. ASSUME SomeDirty(a.open_tabs), DirtyShown(a) PROVE SomeDirty(b.open_tabs)
    <3>1. PICK i \in 1 .. n : a.open_tabs[i].dirty
      BY <2>5 DEF SomeDirty
    <3>2. CASE i = a.active_tab
      BY <1>2, <1>3, <1>5, <2>1, <2>5, <3>1, <3>2 DEF SomeDirty, DirtyShown
    <3>3. CASE i # a.active_tab
      BY <1>2, <3>1, <3>3 DEF SomeDirty
    <3> QED  BY <3>2, <3>3
  <2> QED  BY <1>2, <2>3, <2>4, <2>5 DEF b
<1> QED  BY <1>4, <1>5

(* Drafts(b) holds the edits of the dirty tabs, all of them and no other.      *)
EditsOf(tabs) == {tabs[i].doc.edit : i \in {j \in 1 .. Len(tabs) : tabs[j].dirty}}
LEMMA DraftsCover ==
  ASSUME NEW E \in Nat, NEW b, TypedApp(b, E), b.open_tabs # <<>>, NEW d,
         d.recovery.drafts = Drafts(b)
  PROVE  /\ DraftEdits(d) = EditsOf(b.open_tabs)
         /\ Drafts(b) = <<>> <=> ~SomeDirty(b.open_tabs)
<1> DEFINE tabs == b.open_tabs
<1>1. tabs \in Seq(TabE(E)) /\ DOMAIN tabs = 1 .. Len(tabs)
  BY DEF TypedApp, AppE
<1>2. \A i \in DirtyTabs(b) : i \in 1 .. Len(tabs) /\ tabs[i].dirty
  BY <1>1 DEF DirtyTabs
<1>3. \A i \in 1 .. Len(tabs) : tabs[i].dirty => i \in DirtyTabs(b)
  BY <1>1 DEF DirtyTabs
<1>4. /\ (Drafts(b) = <<>> <=> DirtyTabs(b) = {})
      /\ \A k \in DOMAIN Drafts(b) : \E i \in DirtyTabs(b) : Drafts(b)[k] = DraftOf(tabs[i])
      /\ \A i \in DirtyTabs(b) : \E k \in DOMAIN Drafts(b) : Drafts(b)[k] = DraftOf(tabs[i])
  BY DraftsFacts
<1>5. \A i \in 1 .. Len(tabs) : DraftOf(tabs[i]).doc = tabs[i].doc
  BY <1>1 DEF DraftOf
<1> HIDE DEF tabs
<1>6. Drafts(b) = <<>> <=> ~SomeDirty(tabs)
  BY <1>2, <1>3, <1>4 DEF SomeDirty
<1>7. ASSUME NEW e \in DraftEdits(d) PROVE e \in EditsOf(tabs)
  <2>1. PICK k \in DOMAIN Drafts(b) : e = Drafts(b)[k].doc.edit
    BY <1>7 DEF DraftEdits
  <2>2. PICK i \in DirtyTabs(b) : Drafts(b)[k] = DraftOf(tabs[i])
    BY <1>4, <2>1
  <2> QED  BY <1>2, <1>5, <2>1, <2>2 DEF EditsOf
<1>8. ASSUME NEW e \in EditsOf(tabs) PROVE e \in DraftEdits(d)
  <2>1. PICK i \in 1 .. Len(tabs) : tabs[i].dirty /\ e = tabs[i].doc.edit
    BY <1>8 DEF EditsOf
  <2>2. PICK k \in DOMAIN Drafts(b) : Drafts(b)[k] = DraftOf(tabs[i])
    BY <1>3, <1>4, <2>1
  <2> QED  BY <1>5, <2>1, <2>2 DEF DraftEdits
<1> QED  BY <1>6, <1>7, <1>8 DEF tabs

LEMMA CoveredGrows ==
  ASSUME NEW a, NEW G, NEW H, Covered(a, G), G \subseteq H
  PROVE  Covered(a, H)
BY DEF Covered, CoveredTabs

LEMMA SafeGrows ==
  ASSUME NEW d, NEW F, NEW H, F \subseteq H
  PROVE  Safe(d, F) \subseteq Safe(d, H)
BY DEF Safe

LEMMA BackedGrows ==
  ASSUME NEW w, NEW F, NEW H, F \subseteq H, Backed(w, F)
  PROVE  Backed(w, H)
<1>1. Safe(w.disk, F) \subseteq Safe(w.disk, H)
  BY SafeGrows
<1> QED  BY <1>1, CoveredGrows DEF Backed

(* The editor of an app in which every tab is synced is covered by its tabs.   *)
LEMMA CoveredByTabs ==
  ASSUME NEW E \in Nat, NEW a, TypedApp(a, E), a.open_tabs # <<>>, a.valid, NEW b,
         b = SyncActiveTab(a), NEW c, c.open_tabs = b.open_tabs, c.request = a.request,
         c.dirty = a.dirty, NEW G, CoveredTabs(b.open_tabs, G)
  PROVE  Covered(c, G)
<1> DEFINE t == b.open_tabs[a.active_tab]
<1>1. /\ t.doc = a.request /\ t.dirty = a.dirty /\ Len(b.open_tabs) = Len(a.open_tabs)
  BY SyncFacts
<1>2. a.active_tab \in 1 .. Len(a.open_tabs)
  BY DEF TypedApp
<1> QED  BY <1>1, <1>2 DEF Covered, CoveredTabs

LEMMA EditsCover ==
  ASSUME NEW tabs, NEW d, DraftEdits(d) = EditsOf(tabs), NEW F
  PROVE  CoveredTabs(tabs, Safe(d, F))
BY DEF CoveredTabs, Safe, EditsOf

LEMMA NoDirtyCovered ==
  ASSUME NEW tabs, ~SomeDirty(tabs), NEW G
  PROVE  CoveredTabs(tabs, G)
BY DEF CoveredTabs, SomeDirty

(* A snapshot keeps what was covered, and one that is written covers all.      *)
LEMMA BackedPersist ==
  ASSUME NEW E \in Nat, NEW w, Typed(w, E), Len(w.app.open_tabs) <= MaxTabs, NEW F,
         Backed(w, F), NEW v, PersistFrom(w, v)
  PROVE  Backed(v, F)
<1> DEFINE b == SyncActiveTab(w.app)
<1>1. TypedApp(w.app, E) /\ w.app.open_tabs # <<>> /\ DirtyShown(w.app)
  BY DEF Typed, Backed
<1>2. /\ b.open_tabs # <<>> /\ DirtyShown(b)
      /\ \A G : Covered(w.app, G) => Covered(b, G)
      /\ SomeDirty(w.app.open_tabs) => SomeDirty(b.open_tabs)
  BY <1>1, SyncCovered
<1>3. SameEditor(w.app, b) /\ TypedApp(b, E) /\ b.recovery_last_saved = w.app.recovery_last_saved
  BY <1>1, SyncFacts
<1>4. CASE v = w
  BY <1>4
<1>5. CASE v # w
  <2>1. /\ w.app.valid /\ v.app.open_tabs = b.open_tabs /\ SameEditor(w.app, v.app)
        /\ \/ v.disk = w.disk /\ v.app = b
           \/ /\ v.disk.recovery.drafts = Drafts(b) /\ v.disk.recovery.drafts # <<>>
              /\ v.app.recovery_last_saved = "recent"
    BY <1>5 DEF PersistFrom
  <2>2. DirtyShown(v.app)
    BY <1>2, <1>3, <2>1 DEF DirtyShown, SameEditor
  <2>3. CASE v.disk = w.disk /\ v.app = b
    <3>1. v.app.recovery_last_saved = "none" \/ Covered(v.app, Safe(v.disk, F))
      BY <1>2, <1>3, <2>3 DEF Backed
    <3> QED  BY <1>2, <2>2, <2>3, <3>1 DEF Backed
  <2>4. CASE v.disk.recovery.drafts = Drafts(b) /\ v.disk.recovery.drafts # <<>>
    <3>1. DraftEdits(v.disk) = EditsOf(b.open_tabs) /\ SomeDirty(b.open_tabs)
      BY <1>2, <1>3, <2>4, DraftsCover
    <3>2. CoveredTabs(b.open_tabs, Safe(v.disk, F))
      BY <3>1, EditsCover
    <3>3. v.app.request = w.app.request /\ v.app.dirty = w.app.dirty
      BY <2>1 DEF SameEditor
    <3>4. Covered(v.app, Safe(v.disk, F))
      BY <1>1, <2>1, <3>2, <3>3, CoveredByTabs
    <3> QED  BY <1>2, <2>1, <2>2, <3>1, <3>4 DEF Backed
  <2> QED  BY <2>1, <2>3, <2>4
<1> QED  BY <1>4, <1>5

LEMMA PersistedCovered ==
  ASSUME NEW E \in Nat, NEW w, Typed(w, E), w.app.open_tabs # <<>>, w.app.valid
  PROVE  LET v == PersistRecovery(w)
         IN Covered(v.app, Safe(v.disk, {}))
<1> DEFINE b == SyncActiveTab(w.app)
           v == PersistRecovery(w)
<1>1. TypedApp(w.app, E)
  BY DEF Typed
<1>2. b.open_tabs # <<>> /\ TypedApp(b, E) /\ SameEditor(w.app, b)
  BY <1>1, SyncFacts
<1> HIDE DEF b
<1>3. b.request = w.app.request /\ b.dirty = w.app.dirty
  BY <1>2 DEF SameEditor
<1>4. CASE Drafts(b) = <<>>
  <2>1. v = [w EXCEPT !.app = b]
    BY <1>4 DEF PersistRecovery, b
  <2>2. v.app = b
    BY <2>1 DEF Typed
  <2>3. ~SomeDirty(b.open_tabs)
    <3> DEFINE d == [recovery |-> [drafts |-> Drafts(b)]]
    <3>1. d.recovery.drafts = Drafts(b)
      OBVIOUS
    <3> QED  BY <1>2, <1>4, <3>1, DraftsCover
  <2>4. CoveredTabs(b.open_tabs, Safe(v.disk, {}))
    BY <2>3, NoDirtyCovered
  <2>5. Covered(b, Safe(v.disk, {}))
    BY <1>1, <1>3, <2>4, CoveredByTabs DEF b
  <2> QED  BY <2>2, <2>5
<1>5. CASE Drafts(b) # <<>>
  <2>1. v = [app |-> [b EXCEPT !.recovery_last_saved = "recent"],
             disk |-> [w.disk EXCEPT !.recovery =
                         [drafts |-> Drafts(b), active |-> ActiveDraft(b)]]]
    BY <1>5 DEF PersistRecovery, b
  <2>2. v.disk.recovery.drafts = Drafts(b)
    BY <2>1 DEF Typed, DiskE
  <2>3. /\ v.app.open_tabs = b.open_tabs /\ v.app.request = b.request /\ v.app.dirty = b.dirty
    <3>1. b \in AppE(E) /\ v.app = [b EXCEPT !.recovery_last_saved = "recent"]
      BY <1>2, <2>1 DEF TypedApp
    <3> HIDE DEF v
    <3> QED  BY <3>1 DEF AppE
  <2> HIDE DEF v
  <2>4. DraftEdits(v.disk) = EditsOf(b.open_tabs)
    BY <1>2, <2>2, DraftsCover
  <2>5. CoveredTabs(b.open_tabs, Safe(v.disk, {}))
    BY <2>4, EditsCover
  <2>6. Covered(v.app, Safe(v.disk, {}))
    BY <1>1, <1>3, <2>3, <2>5, CoveredByTabs DEF b
  <2> QED  BY <2>6 DEF v
<1> QED  BY <1>4, <1>5

(* A tab that is shown: the editor is its own.                                *)
LEMMA ShownCovered ==
  ASSUME NEW a, NEW files, NEW i \in 1 .. Len(a.open_tabs), a.open_tabs # <<>>, NEW b,
         Shows(a, files, i, b)
  PROVE  /\ b.open_tabs # <<>> /\ DirtyShown(b) /\ Synced(b)
         /\ \A G : CoveredTabs(a.open_tabs, G) => Covered(b, G)
         /\ SomeDirty(a.open_tabs) => SomeDirty(b.open_tabs)
<1>1. /\ b.open_tabs = a.open_tabs /\ b.active_tab = i /\ b.request_path = a.open_tabs[i].path
      /\ b.request = a.open_tabs[i].doc /\ b.dirty = a.open_tabs[i].dirty
      /\ b.recovery_restored = a.open_tabs[i].recovered
  BY DEF Shows
<1>2. \A G : CoveredTabs(a.open_tabs, G) => Covered(b, G)
  BY <1>1 DEF Covered, CoveredTabs
<1> QED  BY <1>1, <1>2 DEF DirtyShown, Synced

LEMMA AppendCovered ==
  ASSUME NEW S, NEW s \in Seq(S), NEW t \in S
  PROVE  /\ \A G : CoveredTabs(s, G) /\ (t.dirty => t.doc.edit \in G) => CoveredTabs(Append(s, t), G)
         /\ SomeDirty(s) \/ t.dirty => SomeDirty(Append(s, t))
<1> DEFINE q == Append(s, t)
<1>1. /\ Len(q) = Len(s) + 1 /\ Len(s) \in Nat /\ q[Len(s) + 1] = t
      /\ \A i \in 1 .. Len(s) : q[i] = s[i]
      /\ \A i \in 1 .. Len(q) : i \in 1 .. Len(s) \/ i = Len(s) + 1
  <2>1. /\ q \in Seq(S) /\ Len(q) = Len(s) + 1 /\ Len(s) \in Nat /\ q[Len(s) + 1] = t
        /\ \A i \in 1 .. Len(s) : q[i] = s[i]
        /\ \A i \in 1 .. Len(q) : i \in 1 .. Len(s) \/ i = Len(s) + 1
    BY AppendTabFacts
  <2> QED  BY <2>1
<1> HIDE DEF q
<1>2. ASSUME NEW G, CoveredTabs(s, G), t.dirty => t.doc.edit \in G PROVE CoveredTabs(q, G)
  BY <1>1, <1>2 DEF CoveredTabs
<1>3. ASSUME SomeDirty(s) \/ t.dirty PROVE SomeDirty(q)
  <2>1. CASE SomeDirty(s)
    <3>1. PICK i \in 1 .. Len(s) : s[i].dirty
      BY <2>1 DEF SomeDirty
    <3>2. i \in 1 .. Len(q) /\ q[i].dirty
      BY <1>1, <3>1
    <3> QED  BY <3>2 DEF SomeDirty
  <2>2. CASE t.dirty
    <3>1. Len(s) + 1 \in 1 .. Len(q)
      BY <1>1
    <3> QED  BY <1>1, <2>2, <3>1 DEF SomeDirty
  <2> QED  BY <1>3, <2>1, <2>2
<1> QED  BY <1>2, <1>3 DEF q

(* select_request, for a listing as it stands.                                *)
LEMMA SelectedBacked ==
  ASSUME NEW E \in Nat, NEW s, TypedApp(s, E), NEW files, NEW k \in 1 .. Len(s.requests),
         NEW b, SelectedFrom(s, files, k, b)
  PROVE  /\ b.open_tabs # <<>> /\ DirtyShown(b) /\ Synced(b)
         /\ b.recovery_last_saved = s.recovery_last_saved
         /\ \A G : CoveredTabs(s.open_tabs, G) => Covered(b, G)
         /\ SomeDirty(s.open_tabs) => SomeDirty(b.open_tabs)
<1>0. s.open_tabs \in Seq(TabE(E))
  BY DEF TypedApp, AppE
<1>1. CASE \E i \in 1 .. Len(s.open_tabs) :
             s.open_tabs[i].path = s.requests[k].path /\ Shows(s, files, i, b)
  <2>1. PICK i \in 1 .. Len(s.open_tabs) : Shows(s, files, i, b)
    BY <1>1
  <2>2. s.open_tabs # <<>> /\ b.recovery_last_saved = s.recovery_last_saved
    BY <2>1 DEF Shows
  <2> QED  BY <2>1, <2>2, ShownCovered
<1>2. CASE Shows(Opened(s, k), files, Len(s.open_tabs) + 1, b)
  <2> DEFINE o == Opened(s, k)
             t == FileTab(s.selected_collection, s.requests[k])
  <2>1. s \in AppE(E) /\ s.selected_collection \in Collections /\ s.requests[k] \in EntryE(E)
    <3>1. s \in AppE(E) /\ s.selected_collection \in Collections /\ s.requests \in Seq(EntryE(E))
      BY DEF TypedApp, AppE
    <3> QED  BY <3>1
  <2>2. /\ o.open_tabs = Append(s.open_tabs, t) /\ t \in TabE(E) /\ t.dirty = FALSE
        /\ o.recovery_last_saved = s.recovery_last_saved
    <3>1. t \in TabE(E) /\ t.dirty = FALSE
      BY <2>1 DEF FileTab, TabE, EntryE
    <3> HIDE DEF t
    <3>2. o.open_tabs = Append(s.open_tabs, t) /\ o.recovery_last_saved = s.recovery_last_saved
      BY <2>1 DEF Opened, AppE, t
    <3> QED  BY <3>1, <3>2
  <2> HIDE DEF o, t
  <2>3. /\ \A G : CoveredTabs(s.open_tabs, G) => CoveredTabs(o.open_tabs, G)
        /\ SomeDirty(s.open_tabs) => SomeDirty(o.open_tabs)
    BY <1>0, <2>2, AppendCovered
  <2>4. o.open_tabs # <<>> /\ Len(s.open_tabs) + 1 \in 1 .. Len(o.open_tabs)
    <3>1. Append(s.open_tabs, t) \in Seq(TabE(E)) /\ Append(s.open_tabs, t) # <<>>
          /\ Len(Append(s.open_tabs, t)) = Len(s.open_tabs) + 1 /\ Len(s.open_tabs) \in Nat
      BY <1>0, <2>2, AppendTabFacts
    <3> QED  BY <2>2, <3>1
  <2>5. /\ b.open_tabs # <<>> /\ DirtyShown(b) /\ Synced(b)
        /\ \A G : CoveredTabs(o.open_tabs, G) => Covered(b, G)
        /\ SomeDirty(o.open_tabs) => SomeDirty(b.open_tabs)
    BY <1>2, <2>4, ShownCovered DEF o
  <2>6. b.recovery_last_saved = o.recovery_last_saved
    BY <1>2 DEF Shows, o
  <2> QED  BY <2>2, <2>3, <2>5, <2>6
<1> QED  BY <1>1, <1>2 DEF SelectedFrom

LEMMA BackedSelect ==
  ASSUME NEW E \in Nat, NEW w, Typed(w, E), Len(w.app.open_tabs) <= MaxTabs, NEW F,
         Backed(w, F), NEW k \in 1 .. Len(w.app.requests)
  PROVE  Backed(SelectEntry(w, k), F)
<1> DEFINE v == PersistIfDirty(w)
           s == SyncActiveTab(v.app)
           x == SelectEntry(w, k)
<1>1. /\ x.disk = v.disk
      /\ SyncFails(w.app) => x = w
      /\ ~SyncFails(w.app) => SelectedFrom(s, v.disk.files, k, x.app)
  BY SelectEntryFacts
<1>2. Typed(v, E) /\ PersistFrom(w, v)
  BY PersistIfDirtyFacts
<1> HIDE DEF v, x
<1>3. Backed(v, F)
  BY <1>2, BackedPersist
<1>4. TypedApp(v.app, E) /\ v.app.open_tabs # <<>> /\ DirtyShown(v.app)
  BY <1>2, <1>3 DEF Typed, Backed
<1>5. /\ TypedApp(s, E) /\ SameEditor(v.app, s) /\ s.recovery_last_saved = v.app.recovery_last_saved
  BY <1>4, SyncFacts
<1>6. /\ \A G : Covered(v.app, G) => Covered(s, G)
      /\ SomeDirty(v.app.open_tabs) => SomeDirty(s.open_tabs)
  BY <1>4, SyncCovered
<1>7. k \in 1 .. Len(s.requests)
  BY <1>2, <1>5 DEF PersistFrom, SameEditor
<1> HIDE DEF s
<1>8. CASE SyncFails(w.app)
  BY <1>1, <1>8 DEF x
<1>9. CASE ~SyncFails(w.app)
  <2>2. /\ x.app.open_tabs # <<>> /\ DirtyShown(x.app)
        /\ x.app.recovery_last_saved = s.recovery_last_saved
        /\ \A G : CoveredTabs(s.open_tabs, G) => Covered(x.app, G)
        /\ SomeDirty(s.open_tabs) => SomeDirty(x.app.open_tabs)
    <3>1. SelectedFrom(s, v.disk.files, k, x.app)
      BY <1>1, <1>9
    <3>2. TypedApp(s, E)
      BY <1>5
    <3> DEFINE y == x.app
               files == v.disk.files
    <3> HIDE DEF v, x, s, y, files
    <3>3. SelectedFrom(s, files, k, y)
      BY <3>1 DEF y, files
    <3>4. /\ y.open_tabs # <<>> /\ DirtyShown(y) /\ Synced(y)
          /\ y.recovery_last_saved = s.recovery_last_saved
          /\ \A G : CoveredTabs(s.open_tabs, G) => Covered(y, G)
          /\ SomeDirty(s.open_tabs) => SomeDirty(y.open_tabs)
      BY <1>7, <3>2, <3>3, SelectedBacked
    <3> QED  BY <3>4 DEF y
  <2>3. x.app.recovery_last_saved = "none" \/ Covered(x.app, Safe(x.disk, F))
    BY <1>1, <1>3, <1>5, <1>6, <2>2 DEF Backed, Covered
  <2>4. x.disk.recovery.drafts # <<>> => SomeDirty(x.app.open_tabs)
    BY <1>1, <1>3, <1>6, <2>2 DEF Backed
  <2> QED  BY <2>2, <2>3, <2>4 DEF Backed, x
<1> QED  BY <1>8, <1>9

LEMMA BackedDraft ==
  ASSUME NEW E \in Nat, NEW w, Typed(w, E), Len(w.app.open_tabs) <= MaxTabs, NEW F,
         Backed(w, F), NewDoc \in DocE(E), NewDoc.edit = 0
  PROVE  Backed(OpenDraft(w), F)
<1> DEFINE v == PersistIfDirty(w)
           s == SyncActiveTab(v.app)
           x == OpenDraft(w)
           tab == DraftTab(w.app.selected_collection)
<1>1. x.disk = v.disk /\ OpensTab(s, x.app, tab)
  BY OpenDraftFacts
<1>2. Typed(v, E) /\ PersistFrom(w, v)
  BY PersistIfDirtyFacts
<1> HIDE DEF v, x
<1>3. Backed(v, F)
  BY <1>2, BackedPersist
<1>4. TypedApp(v.app, E) /\ v.app.open_tabs # <<>> /\ DirtyShown(v.app)
  BY <1>2, <1>3 DEF Typed, Backed
<1>5. TypedApp(s, E) /\ s.recovery_last_saved = v.app.recovery_last_saved
  BY <1>4, SyncFacts
<1>6. \A G : Covered(v.app, G) => Covered(s, G)
  BY <1>4, SyncCovered
<1> HIDE DEF s
<1>7. tab \in TabE(E) /\ tab.dirty = TRUE /\ tab.doc.edit = 0
  <2>1. w.app.selected_collection \in Collections
    BY DEF Typed, AppE
  <2> QED  BY <2>1 DEF DraftTab, TabE
<1> HIDE DEF tab
<1>8. s.open_tabs \in Seq(TabE(E))
  BY <1>5 DEF TypedApp, AppE
<1>9. /\ x.app.open_tabs = Append(s.open_tabs, tab) /\ x.app.dirty = TRUE
      /\ x.app.request = tab.doc /\ x.app.recovery_last_saved = s.recovery_last_saved
  BY <1>1, <1>7 DEF OpensTab
<1>10. x.app.open_tabs # <<>>
  <2>1. Append(s.open_tabs, tab) \in Seq(TabE(E)) /\ Append(s.open_tabs, tab) # <<>>
    BY <1>7, <1>8, AppendTabFacts
  <2> QED  BY <1>9, <2>1
<1>11. /\ \A G : CoveredTabs(s.open_tabs, G) /\ 0 \in G => CoveredTabs(x.app.open_tabs, G)
       /\ SomeDirty(x.app.open_tabs)
  BY <1>7, <1>8, <1>9, AppendCovered
<1>12. 0 \in Safe(x.disk, F)
  BY DEF Safe
<1>13. x.app.recovery_last_saved = "none" \/ Covered(x.app, Safe(x.disk, F))
  BY <1>1, <1>3, <1>5, <1>6, <1>7, <1>9, <1>11, <1>12 DEF Backed, Covered
<1> QED  BY <1>9, <1>10, <1>11, <1>13 DEF Backed, DirtyShown, x

LEMMA BackedRefresh ==
  ASSUME NEW E \in Nat, NEW w, Typed(w, E), Len(w.app.open_tabs) <= MaxTabs, NEW F,
         Backed(w, F), NewDoc \in DocE(E), NewDoc.edit = 0, NEW preferred
  PROVE  Backed(RefreshRequests(w, preferred), F)
<1> DEFINE v == Listing1(w)
           x == RefreshRequests(w, preferred)
<1>1. /\ Typed(v, E) /\ v.disk = w.disk
      /\ v.app.open_tabs = w.app.open_tabs /\ v.app.active_tab = w.app.active_tab
      /\ v.app.request = w.app.request /\ v.app.valid = w.app.valid
      /\ v.app.dirty = w.app.dirty /\ v.app.recovery_last_saved = w.app.recovery_last_saved
  BY ListedFacts
<1>2. /\ v.app.requests = <<>> => x = OpenDraft(v)
      /\ v.app.requests # <<>> => \E k \in 1 .. Len(v.app.requests) : x = SelectEntry(v, k)
  BY RefreshIs
<1> HIDE DEF v, x
<1>3. Backed(v, F)
  BY <1>1 DEF Backed, Covered, DirtyShown
<1>4. Len(v.app.open_tabs) <= MaxTabs
  BY <1>1
<1>5. CASE v.app.requests = <<>>
  BY <1>1, <1>2, <1>3, <1>4, <1>5, BackedDraft DEF x
<1>6. CASE v.app.requests # <<>>
  BY <1>1, <1>2, <1>3, <1>4, <1>6, BackedSelect DEF x
<1> QED  BY <1>5, <1>6

(* The same requests in the same tabs, unsaved and restored as they were.      *)
Alike(a, b) ==
  /\ Len(b.open_tabs) = Len(a.open_tabs)
  /\ \A i \in 1 .. Len(a.open_tabs) :
       /\ b.open_tabs[i].doc = a.open_tabs[i].doc
       /\ b.open_tabs[i].dirty = a.open_tabs[i].dirty
       /\ b.open_tabs[i].recovered = a.open_tabs[i].recovered

LEMMA AlikeTwice ==
  ASSUME NEW a, NEW b, NEW c, Alike(a, b), Alike(b, c)
  PROVE  Alike(a, c)
BY DEF Alike

LEMMA SyncedShown ==
  ASSUME NEW a, Synced(a)
  PROVE  DirtyShown(a)
BY DEF Synced, DirtyShown

LEMMA SyncAlike ==
  ASSUME NEW E \in Nat, NEW a, TypedApp(a, E), a.open_tabs # <<>>, Synced(a)
  PROVE  Alike(a, SyncActiveTab(a))
<1> DEFINE b == SyncActiveTab(a)
           n == Len(a.open_tabs)
<1>1. /\ Len(b.open_tabs) = n
      /\ (~a.valid => b = a)
      /\ \A i \in 1 .. n : i # a.active_tab => b.open_tabs[i] = a.open_tabs[i]
  BY SyncFacts
<1>2. a.valid => /\ b.open_tabs[a.active_tab].doc = a.request
                 /\ b.open_tabs[a.active_tab].dirty = a.dirty
                 /\ b.open_tabs[a.active_tab].recovered = a.recovery_restored
  BY SyncFacts
<1> HIDE DEF b
<1>3. ASSUME NEW i \in 1 .. n
      PROVE  /\ b.open_tabs[i].doc = a.open_tabs[i].doc
             /\ b.open_tabs[i].dirty = a.open_tabs[i].dirty
             /\ b.open_tabs[i].recovered = a.open_tabs[i].recovered
  <2>1. CASE ~a.valid \/ i # a.active_tab
    BY <1>1, <2>1
  <2>2. CASE a.valid /\ i = a.active_tab
    BY <1>2, <2>2 DEF Synced
  <2> QED  BY <2>1, <2>2
<1> QED  BY <1>1, <1>3 DEF Alike, b

(* What a later sync makes of tabs in step with the editor.                    *)
LEMMA FollowsCovered ==
  ASSUME NEW E \in Nat, NEW a, TypedApp(a, E), a.open_tabs # <<>>, Synced(a),
         NEW b, SameEditor(a, b), b.open_tabs \in {a.open_tabs, SyncActiveTab(a).open_tabs}
  PROVE  /\ b.open_tabs # <<>> /\ Synced(b) /\ Alike(a, b)
         /\ \A G : Covered(a, G) => Covered(b, G)
         /\ SomeDirty(a.open_tabs) => SomeDirty(b.open_tabs)
<1> DEFINE s == SyncActiveTab(a)
<1>1. /\ s.open_tabs # <<>> /\ Synced(s)
      /\ \A G : Covered(a, G) => Covered(s, G)
      /\ SomeDirty(a.open_tabs) /\ DirtyShown(a) => SomeDirty(s.open_tabs)
  BY SyncCovered
<1>2. SameEditor(a, s) /\ DirtyShown(a) /\ Alike(a, s)
  BY SyncFacts, SyncedShown, SyncAlike
<1> HIDE DEF s
<1>3. CASE b.open_tabs = a.open_tabs
  BY <1>3 DEF SameEditor, Synced, Alike, Covered
<1>4. CASE b.open_tabs = s.open_tabs
  BY <1>1, <1>2, <1>4 DEF SameEditor, Synced, Alike, Covered
<1> QED  BY <1>3, <1>4 DEF s

LEMMA NothingDirty ==
  ASSUME NEW E \in Nat, NEW a, TypedApp(a, E), ~HasDirtyWork(a), NEW G
  PROVE  Covered(a, G)
<1>1. a.open_tabs \in Seq(TabE(E))
  BY DEF TypedApp, AppE
<1>2. DOMAIN a.open_tabs = 1 .. Len(a.open_tabs)
  BY <1>1
<1> QED  BY <1>2 DEF HasDirtyWork, Covered, CoveredTabs

(* The end of a frame: the tab in step with the editor, and what is not in the  *)
(* snapshot newer than the last due one - but for an editor that does not parse *)
(* before the first snapshot.                                                  *)
Settled(w, F) ==
  /\ w.app.open_tabs # <<>> /\ Synced(w.app)
  /\ w.disk.recovery.drafts # <<>> => SomeDirty(w.app.open_tabs)
  /\ \/ Covered(w.app, Safe(w.disk, F))
     \/ w.app.recovery_last_saved = "none" /\ ~w.app.valid

LEMMA SettledBacked ==
  ASSUME NEW w, NEW F, Settled(w, F)
  PROVE  Backed(w, F)
BY SyncedShown DEF Settled, Backed

LEMMA BackedEnd ==
  ASSUME NEW E \in Nat, NEW w, Typed(w, E), Len(w.app.open_tabs) <= MaxTabs, NEW F,
         Backed(w, F)
  PROVE  /\ Settled(EndOfFrame(w), F)
         /\ RecoveryDue(w) /\ w.app.valid => Settled(EndOfFrame(w), {})
         /\ Synced(w.app) => Alike(w.app, EndOfFrame(w).app)
<1> DEFINE u == [w EXCEPT !.app = SyncActiveTab(@)]
           v == SaveTabsSettings(u)
           x == EndOfFrame(w)
<1>1. Typed(u, E) /\ u.app = SyncActiveTab(w.app) /\ u.disk = w.disk
  BY SyncTyped
<1>2. TypedApp(w.app, E) /\ w.app.open_tabs # <<>> /\ DirtyShown(w.app)
  BY DEF Typed, Backed
<1>3. x = IF RecoveryDue(v) THEN PersistRecovery(v) ELSE v
  BY DEF EndOfFrame
<1> HIDE DEF u
<1>4. /\ u.app.open_tabs # <<>> /\ Synced(u.app)
      /\ \A G : Covered(w.app, G) => Covered(u.app, G)
      /\ SomeDirty(w.app.open_tabs) => SomeDirty(u.app.open_tabs)
  BY <1>1, <1>2, SyncCovered
<1>5. /\ TypedApp(u.app, E) /\ SameEditor(w.app, u.app)
      /\ u.app.recovery_last_saved = w.app.recovery_last_saved
      /\ Len(u.app.open_tabs) = Len(w.app.open_tabs)
  BY <1>1, <1>2, SyncFacts
<1>6. Synced(w.app) => Alike(w.app, u.app)
  BY <1>1, <1>2, SyncAlike
<1>7. /\ Typed(v, E) /\ SameEditor(u.app, v.app)
      /\ v.app.recovery_last_saved = u.app.recovery_last_saved
      /\ v.app.open_tabs \in {u.app.open_tabs, SyncActiveTab(u.app).open_tabs}
      /\ v.disk.recovery = u.disk.recovery
  BY <1>1, SaveTabsFacts
<1> HIDE DEF v, x
<1>8. /\ v.app.open_tabs # <<>> /\ Synced(v.app) /\ Alike(u.app, v.app)
      /\ \A G : Covered(u.app, G) => Covered(v.app, G)
      /\ SomeDirty(u.app.open_tabs) => SomeDirty(v.app.open_tabs)
  BY <1>4, <1>5, <1>7, FollowsCovered
<1>9. /\ v.disk.recovery = w.disk.recovery /\ v.app.valid = w.app.valid
      /\ v.app.recovery_last_saved = w.app.recovery_last_saved
      /\ Len(v.app.open_tabs) <= MaxTabs /\ TypedApp(v.app, E)
      /\ \A G : Safe(v.disk, G) = Safe(w.disk, G)
  <2>1. v.app.valid = w.app.valid
    BY <1>5, <1>7 DEF SameEditor
  <2>2. Len(v.app.open_tabs) <= MaxTabs
    BY <1>5, <1>8 DEF Alike
  <2>3. v.disk.recovery = w.disk.recovery
    BY <1>1, <1>7
  <2> QED  BY <1>5, <1>7, <2>1, <2>2, <2>3 DEF Typed, Safe, DraftEdits
<1>10. w.disk.recovery.drafts # <<>> => SomeDirty(v.app.open_tabs)
  BY <1>4, <1>8 DEF Backed
<1>11. Backed(v, F)
  <2>1. v.app.recovery_last_saved = "none" \/ Covered(v.app, Safe(v.disk, F))
    BY <1>4, <1>8, <1>9 DEF Backed
  <2>2. DirtyShown(v.app)
    BY <1>8, SyncedShown
  <2> QED  BY <1>8, <1>9, <1>10, <2>1, <2>2 DEF Backed
<1>12. CASE ~RecoveryDue(v)
  <2>1. x = v
    BY <1>3, <1>12
  <2>2. ~HasDirtyWork(v.app) \/ v.app.recovery_last_saved = "recent"
    BY <1>12 DEF RecoveryDue
  <2>3. ~HasDirtyWork(v.app) => \A G : Covered(v.app, G)
    BY <1>9, NothingDirty
  <2>4. Covered(v.app, Safe(v.disk, F))
    BY <1>11, <2>2, <2>3 DEF Backed
  <2>5. RecoveryDue(w) => Covered(v.app, Safe(v.disk, {}))
    BY <1>9, <2>2, <2>3 DEF RecoveryDue
  <2>6. Settled(v, F) /\ (RecoveryDue(w) => Settled(v, {}))
    BY <1>8, <1>9, <1>10, <2>4, <2>5 DEF Settled
  <2>7. Synced(w.app) => Alike(w.app, v.app)
    BY <1>6, <1>8, AlikeTwice
  <2> QED  BY <2>1, <2>6, <2>7 DEF x
<1>13. CASE RecoveryDue(v)
  <2>1. x = PersistRecovery(v)
    BY <1>3, <1>13
  <2>2. Typed(x, E) /\ PersistFrom(v, x) /\ (~v.app.valid => x = v)
    BY <1>7, <1>9, <2>1, PersistFacts
  <2>3. Backed(x, F)
    BY <1>7, <1>9, <1>11, <2>2, BackedPersist
  <2>4. SameEditor(v.app, x.app) /\ x.app.open_tabs \in {v.app.open_tabs, SyncActiveTab(v.app).open_tabs}
    BY <2>2 DEF PersistFrom
  <2>5. x.app.open_tabs # <<>> /\ Synced(x.app) /\ Alike(v.app, x.app)
    BY <1>8, <1>9, <2>4, FollowsCovered
  <2>6. Synced(w.app) => Alike(w.app, x.app)
    BY <1>6, <1>8, <2>5, AlikeTwice
  <2>7. x.disk.recovery.drafts # <<>> => SomeDirty(x.app.open_tabs)
    BY <2>3 DEF Backed
  <2>8. CASE v.app.valid
    <3>1. Covered(x.app, Safe(x.disk, {}))
      BY <1>7, <1>8, <2>1, <2>8, PersistedCovered
    <3>2. {} \subseteq F
      OBVIOUS
    <3>3. Safe(x.disk, {}) \subseteq Safe(x.disk, F)
      BY <3>2, SafeGrows
    <3>4. Covered(x.app, Safe(x.disk, F))
      BY <3>1, <3>3, CoveredGrows
    <3>5. Settled(x, F) /\ Settled(x, {})
      BY <2>5, <2>7, <3>1, <3>4 DEF Settled
    <3> QED  BY <2>6, <3>5 DEF x
  <2>9. CASE ~v.app.valid
    <3>1. x = v /\ ~w.app.valid
      BY <1>9, <2>2, <2>9
    <3>2. Settled(x, F)
      BY <2>3, <2>5, <2>7, <2>9, <3>1 DEF Settled, Backed
    <3> QED  BY <2>6, <3>1, <3>2 DEF x
  <2> QED  BY <2>8, <2>9
<1> QED  BY <1>12, <1>13

LEMMA BackedFrom ==
  ASSUME NEW w, NEW F, Backed(w, F), NEW x, x.disk.recovery = w.disk.recovery,
         x.app.recovery_last_saved = w.app.recovery_last_saved,
         x.app.open_tabs # <<>>, DirtyShown(x.app),
         \A G : Covered(w.app, G) /\ 0 \in G => Covered(x.app, G),
         SomeDirty(w.app.open_tabs) => SomeDirty(x.app.open_tabs)
  PROVE  Backed(x, F)
<1>1. Safe(x.disk, F) = Safe(w.disk, F) /\ 0 \in Safe(x.disk, F)
  BY DEF Safe, DraftEdits
<1> QED  BY <1>1 DEF Backed

(* A command that forgets the snapshot makes the next one due.                 *)
LEMMA BackedCleared ==
  ASSUME NEW x, x.disk.recovery.drafts = <<>>, x.app.recovery_last_saved = "none",
         x.app.open_tabs # <<>>, DirtyShown(x.app), NEW F
  PROVE  Backed(x, F)
BY DEF Backed

LEMMA BackedWhole ==
  ASSUME NEW E \in Nat, Whole(world, E), NEW F, Backed(world, F)
  PROVE  /\ Typed(world, E) /\ Len(world.app.open_tabs) <= MaxTabs /\ TypedApp(app, E)
         /\ world.app = app /\ world.disk = disk
         /\ app.open_tabs # <<>> /\ DirtyShown(app) /\ app.open_tabs \in Seq(TabE(E))
         /\ app.active_tab \in 1 .. Len(app.open_tabs)
         /\ DOMAIN app.open_tabs = 1 .. Len(app.open_tabs) /\ Len(app.open_tabs) \in Nat
<1>1. world.app = app /\ world.disk = disk
  BY WorldIs
<1>2. app.open_tabs # <<>> /\ DirtyShown(app)
  BY <1>1 DEF Backed
<1> QED  BY <1>1, <1>2, WholeFacts

LEMMA BackedSwitch ==
  ASSUME NEW E \in Nat, Whole(world, E), NEW F, Backed(world, F),
         NEW i \in DOMAIN app.open_tabs
  PROVE  Backed(SwitchWorld(i), F)
<1> DEFINE v == PersistIfDirty(world)
           s == SyncActiveTab(v.app)
           x == SwitchWorld(i)
<1>1. /\ SyncFails(app) => x = world
      /\ ~SyncFails(app) => x.disk = v.disk /\ Shows(s, disk.files, i, x.app)
  <2>1. /\ Whole(x, E)
        /\ SyncFails(app) => x = world
        /\ ~SyncFails(app) => x.disk = v.disk /\ Shows(s, disk.files, i, x.app)
    BY SwitchWhole
  <2> QED  BY <2>1
<1>2. /\ Typed(world, E) /\ Len(world.app.open_tabs) <= MaxTabs /\ world.app = app
      /\ DOMAIN app.open_tabs = 1 .. Len(app.open_tabs)
  BY BackedWhole
<1>3. Typed(v, E) /\ PersistFrom(world, v) /\ Len(v.app.open_tabs) = Len(app.open_tabs)
  BY <1>2, PersistIfDirtyFacts
<1> HIDE DEF v, x
<1>4. Backed(v, F)
  BY <1>2, <1>3, BackedPersist
<1>5. TypedApp(v.app, E) /\ v.app.open_tabs # <<>> /\ DirtyShown(v.app)
  BY <1>3, <1>4 DEF Typed, Backed
<1>6. /\ s.open_tabs # <<>>
      /\ \A G : Covered(v.app, G) => Covered(s, G)
      /\ SomeDirty(v.app.open_tabs) => SomeDirty(s.open_tabs)
  BY <1>5, SyncCovered
<1>7. /\ s.recovery_last_saved = v.app.recovery_last_saved
      /\ Len(s.open_tabs) = Len(v.app.open_tabs)
  BY <1>5, SyncFacts
<1> HIDE DEF s
<1>8. CASE SyncFails(app)
  BY <1>1, <1>8 DEF x
<1>9. CASE ~SyncFails(app)
  <2>1. i \in 1 .. Len(s.open_tabs) /\ Shows(s, disk.files, i, x.app) /\ x.disk = v.disk
    BY <1>1, <1>2, <1>3, <1>7, <1>9
  <2>2. /\ x.app.open_tabs # <<>> /\ DirtyShown(x.app)
        /\ \A G : CoveredTabs(s.open_tabs, G) => Covered(x.app, G)
        /\ SomeDirty(s.open_tabs) => SomeDirty(x.app.open_tabs)
    BY <1>6, <2>1, ShownCovered
  <2>3. x.app.recovery_last_saved = v.app.recovery_last_saved
    BY <1>7, <2>1 DEF Shows
  <2>4. \A G : Covered(v.app, G) => Covered(x.app, G)
    BY <1>6, <2>2 DEF Covered
  <2> QED  BY <1>4, <1>6, <2>1, <2>2, <2>3, <2>4, BackedFrom DEF x
<1> QED  BY <1>8, <1>9

(* A tab without unsaved work is taken out.                                    *)
LEMMA RemoveDirty ==
  ASSUME NEW S, NEW s \in Seq(S), NEW i \in 1 .. Len(s)
  PROVE  /\ \A G : CoveredTabs(s, G) => CoveredTabs(RemoveAt(s, i), G)
         /\ SomeDirty(s) /\ ~s[i].dirty => SomeDirty(RemoveAt(s, i))
<1> DEFINE r == RemoveAt(s, i)
<1>1. /\ r \in Seq(S) /\ Len(r) = Len(s) - 1 /\ Len(s) \in Nat
      /\ \A j \in 1 .. Len(r) : r[j] = IF j < i THEN s[j] ELSE s[j + 1]
  BY RemoveAtFacts
<1> HIDE DEF r
<1>2. \A j \in 1 .. Len(r) : \E k \in 1 .. Len(s) : r[j] = s[k]
  <2> SUFFICES ASSUME NEW j \in 1 .. Len(r) PROVE \E k \in 1 .. Len(s) : r[j] = s[k]
    OBVIOUS
  <2>1. CASE j < i
    BY <1>1, <2>1
  <2>2. CASE ~(j < i)
    BY <1>1, <2>2
  <2> QED  BY <2>1, <2>2
<1>3. \A G : CoveredTabs(s, G) => CoveredTabs(r, G)
  BY <1>2 DEF CoveredTabs
<1>4. ASSUME SomeDirty(s), ~s[i].dirty PROVE SomeDirty(r)
  <2>1. PICK k \in 1 .. Len(s) : s[k].dirty /\ k # i
    BY <1>4 DEF SomeDirty
  <2>2. CASE k < i
    <3>1. k \in 1 .. Len(r) /\ r[k] = s[k]
      BY <1>1, <2>1, <2>2
    <3> QED  BY <2>1, <3>1 DEF SomeDirty
  <2>3. CASE k > i
    <3>1. k - 1 \in 1 .. Len(r) /\ r[k - 1] = s[k]
      BY <1>1, <2>1, <2>3
    <3> QED  BY <2>1, <3>1 DEF SomeDirty
  <2> QED  BY <1>1, <2>1, <2>2, <2>3
<1> QED  BY <1>3, <1>4 DEF r

LEMMA FreshCovered ==
  ASSUME NEW a, NEW b, FreshDraft(a, b), NewDoc.edit = 0
  PROVE  /\ b.open_tabs # <<>> /\ DirtyShown(b) /\ SomeDirty(b.open_tabs)
         /\ b.recovery_last_saved = a.recovery_last_saved
         /\ \A G : 0 \in G => Covered(b, G)
<1>1. /\ b.open_tabs = <<DraftTab(a.selected_collection)>>
      /\ b.request = NewDoc /\ b.dirty = TRUE
      /\ b.recovery_last_saved = a.recovery_last_saved
  BY DEF FreshDraft
<1> DEFINE tabs == b.open_tabs
<1>2. tabs # <<>> /\ Len(tabs) = 1 /\ tabs[1].dirty = TRUE /\ tabs[1].doc = NewDoc
  BY <1>1 DEF DraftTab
<1> HIDE DEF tabs
<1>3. SomeDirty(tabs) /\ \A G : 0 \in G => CoveredTabs(tabs, G)
  BY <1>2 DEF SomeDirty, CoveredTabs
<1> QED  BY <1>1, <1>2, <1>3 DEF DirtyShown, Covered, tabs

LEMMA BackedClose ==
  ASSUME NEW E \in Nat, Whole(world, E), NEW F, Backed(world, F),
         NEW i \in DOMAIN app.open_tabs, ~app.open_tabs[i].dirty,
         RemoveAt(app.open_tabs, i) = <<>> => NewDoc \in DocE(E) /\ NewDoc.edit = 0
  PROVE  Backed(CloseWorld(i), F)
<1> DEFINE x == CloseWorld(i)
           rest == RemoveAt(app.open_tabs, i)
           a == [app EXCEPT !.open_tabs = rest]
<1>1. /\ x.disk = disk
      /\ rest = <<>> => FreshDraft(app, x.app)
      /\ rest # <<>> => \E next \in 1 .. Len(rest) : Shows(a, disk.files, next, x.app)
  BY CloseWhole
<1>2. /\ world.app = app /\ world.disk = disk /\ app.open_tabs \in Seq(TabE(E))
      /\ i \in 1 .. Len(app.open_tabs) /\ app \in AppE(E)
  BY BackedWhole DEF TypedApp
<1>3. /\ rest \in Seq(TabE(E))
      /\ \A G : CoveredTabs(app.open_tabs, G) => CoveredTabs(rest, G)
      /\ SomeDirty(app.open_tabs) => SomeDirty(rest)
  BY <1>2, RemoveAtFacts, RemoveDirty
<1> HIDE DEF x, rest
<1>4. a.open_tabs = rest /\ a.recovery_last_saved = app.recovery_last_saved
  BY <1>2 DEF AppE
<1> HIDE DEF a
<1>5. CASE rest = <<>>
  <2>1. /\ x.app.open_tabs # <<>> /\ DirtyShown(x.app) /\ SomeDirty(x.app.open_tabs)
        /\ x.app.recovery_last_saved = app.recovery_last_saved
        /\ \A G : 0 \in G => Covered(x.app, G)
    <3>1. FreshDraft(app, x.app) /\ NewDoc.edit = 0
      BY <1>1, <1>5 DEF rest
    <3> QED  BY <3>1, FreshCovered
  <2> QED  BY <1>1, <1>2, <2>1, BackedFrom DEF x
<1>6. CASE rest # <<>>
  <2>1. PICK next \in 1 .. Len(rest) : Shows(a, disk.files, next, x.app)
    BY <1>1, <1>6
  <2>2. /\ x.app.open_tabs # <<>> /\ DirtyShown(x.app)
        /\ \A G : CoveredTabs(rest, G) => Covered(x.app, G)
        /\ SomeDirty(rest) => SomeDirty(x.app.open_tabs)
    BY <1>4, <1>6, <2>1, ShownCovered
  <2>3. x.app.recovery_last_saved = app.recovery_last_saved
    BY <1>4, <2>1 DEF Shows
  <2>4. \A G : Covered(world.app, G) => Covered(x.app, G)
    BY <1>2, <1>3, <2>2 DEF Covered
  <2> QED  BY <1>1, <1>2, <1>3, <2>2, <2>3, <2>4, BackedFrom DEF x
<1> QED  BY <1>5, <1>6

LEMMA BackedCloseOthers ==
  ASSUME NEW E \in Nat, Whole(world, E), NEW F, Backed(world, F), Len(app.open_tabs) > 1,
         \A i \in DOMAIN app.open_tabs : i # app.active_tab => ~app.open_tabs[i].dirty
  PROVE  Backed(CloseOthersWorld, F)
<1> DEFINE x == CloseOthersWorld
           p == app.active_tab
           tabs == <<app.open_tabs[p]>>
<1>1. /\ x.disk = disk /\ Rearranged(app, x.app)
      /\ x.app.open_tabs = tabs /\ x.app.active_tab = 1
  BY CloseOthersWhole
<1>2. /\ world.app = app /\ world.disk = disk /\ p \in 1 .. Len(app.open_tabs)
      /\ DOMAIN app.open_tabs = 1 .. Len(app.open_tabs) /\ DirtyShown(app)
      /\ app.open_tabs # <<>>
  BY BackedWhole
<1>3. tabs # <<>> /\ Len(tabs) = 1 /\ tabs[1] = app.open_tabs[p]
  OBVIOUS
<1> HIDE DEF x, tabs
<1>4. \A G : CoveredTabs(app.open_tabs, G) => CoveredTabs(tabs, G)
  BY <1>2, <1>3 DEF CoveredTabs
<1>5. SomeDirty(app.open_tabs) => SomeDirty(tabs)
  BY <1>2, <1>3 DEF SomeDirty
<1>6. /\ x.app.dirty = app.dirty /\ x.app.request = app.request /\ x.app.valid = app.valid
      /\ x.app.recovery_last_saved = app.recovery_last_saved
  BY <1>1 DEF Rearranged
<1>7. DirtyShown(x.app)
  BY <1>1, <1>2, <1>3, <1>6 DEF DirtyShown
<1>8. \A G : Covered(world.app, G) => Covered(x.app, G)
  BY <1>1, <1>2, <1>4, <1>6 DEF Covered
<1> QED  BY <1>1, <1>2, <1>3, <1>5, <1>6, <1>7, <1>8, BackedFrom DEF x

LEMMA BackedMove ==
  ASSUME NEW E \in Nat, Whole(world, E), NEW F, Backed(world, F),
         NEW target \in DOMAIN app.open_tabs
  PROVE  Backed(MoveWorld(target), F)
<1> DEFINE x == MoveWorld(target)
           p == app.active_tab
           n == Len(app.open_tabs)
           tabs == x.app.open_tabs
<1>1. /\ x.disk = disk /\ Rearranged(app, x.app)
      /\ x.app.active_tab = target /\ Len(tabs) = n
      /\ p \in 1 .. n
      /\ \A i \in 1 .. n :
           tabs[i] = IF i = target THEN app.open_tabs[p]
                     ELSE IF i = p THEN app.open_tabs[target] ELSE app.open_tabs[i]
  BY MoveWhole
<1>2. /\ world.app = app /\ world.disk = disk /\ target \in 1 .. n /\ n \in Nat
      /\ DirtyShown(app) /\ app.open_tabs # <<>>
  BY BackedWhole
<1> HIDE DEF x
<1>3. tabs # <<>>
  <2>1. Len(tabs) # 0
    BY <1>1, <1>2
  <2> QED  BY <2>1
<1>4. \A i \in 1 .. n : \E j \in 1 .. n : tabs[i] = app.open_tabs[j]
  BY <1>1, <1>2
<1>5. \A j \in 1 .. n : \E i \in 1 .. n : tabs[i] = app.open_tabs[j]
  <2> SUFFICES ASSUME NEW j \in 1 .. n PROVE \E i \in 1 .. n : tabs[i] = app.open_tabs[j]
    OBVIOUS
  <2>1. CASE j = target
    <3>1. tabs[p] = app.open_tabs[target]
      BY <1>1, <1>2
    <3> QED  BY <1>1, <2>1, <3>1
  <2>2. CASE j = p
    <3>1. tabs[target] = app.open_tabs[p]
      BY <1>1, <1>2
    <3> QED  BY <1>2, <2>2, <3>1
  <2>3. CASE j # target /\ j # p
    BY <1>1, <2>3
  <2> QED  BY <2>1, <2>2, <2>3
<1> HIDE DEF tabs
<1>6. \A G : CoveredTabs(app.open_tabs, G) => CoveredTabs(tabs, G)
  BY <1>1, <1>4 DEF CoveredTabs
<1>7. SomeDirty(app.open_tabs) => SomeDirty(tabs)
  BY <1>1, <1>5 DEF SomeDirty
<1>8. /\ x.app.dirty = app.dirty /\ x.app.request = app.request /\ x.app.valid = app.valid
      /\ x.app.recovery_last_saved = app.recovery_last_saved
  BY <1>1 DEF Rearranged
<1>9. DirtyShown(x.app)
  <2>1. tabs[target] = app.open_tabs[p]
    BY <1>1, <1>2
  <2> QED  BY <1>1, <1>2, <1>8, <2>1 DEF DirtyShown, tabs
<1>10. \A G : Covered(world.app, G) => Covered(x.app, G)
  BY <1>2, <1>6, <1>8 DEF Covered, tabs
<1> QED  BY <1>1, <1>2, <1>3, <1>7, <1>8, <1>9, <1>10, BackedFrom DEF x, tabs

(* The tabs stay, and the editor keeps what it has or has a new draft.         *)
LEMMA BackedSame ==
  ASSUME NEW w, NEW F, Backed(w, F), NEW x, x.disk.recovery = w.disk.recovery,
         x.app.open_tabs = w.app.open_tabs, x.app.active_tab = w.app.active_tab,
         x.app.request = w.app.request, x.app.dirty = w.app.dirty,
         x.app.valid = w.app.valid, x.app.recovery_last_saved = w.app.recovery_last_saved
  PROVE  Backed(x, F)
<1>1. x.app.open_tabs # <<>> /\ DirtyShown(x.app)
  BY DEF Backed, DirtyShown
<1>2. \A G : Covered(w.app, G) => Covered(x.app, G)
  BY DEF Covered
<1> QED  BY <1>1, <1>2, BackedFrom

LEMMA BackedImport ==
  ASSUME NEW E \in Nat, Whole(world, E), NEW F, Backed(world, F), NewDoc \in DocE(E),
         NewDoc.edit = 0
  PROVE  Backed(ImportWorld, F)
<1> DEFINE x == ImportWorld
<1>1. x.disk = disk /\ ResetFrom(app, x.app)
  BY ImportWhole
<1>2. world.app = app /\ world.disk = disk /\ app.open_tabs # <<>>
  BY BackedWhole
<1> HIDE DEF x
<1>3. /\ x.app.open_tabs = app.open_tabs /\ x.app.dirty = TRUE /\ x.app.request = NewDoc
      /\ x.app.recovery_last_saved = app.recovery_last_saved
  BY <1>1 DEF ResetFrom
<1>4. DirtyShown(x.app)
  BY <1>3 DEF DirtyShown
<1>5. \A G : Covered(world.app, G) /\ 0 \in G => Covered(x.app, G)
  BY <1>2, <1>3 DEF Covered
<1> QED  BY <1>1, <1>2, <1>3, <1>4, <1>5, BackedFrom DEF x

(* An edit is safe for a second: it is newer than the last due snapshot.       *)
LEMMA BackedEdit ==
  ASSUME edits \in Nat, Whole(world, edits), NEW F, Backed(world, F), NEW v \in BOOLEAN
  PROVE  Backed(EditWorld(v), F \cup {edits + 1})
<1> DEFINE x == EditWorld(v)
           H == F \cup {edits + 1}
<1>1. x.disk = disk /\ EditedFrom(app, x.app, edits + 1, v)
  BY EditWhole
<1>2. world.app = app /\ world.disk = disk /\ app.open_tabs # <<>>
  BY BackedWhole
<1> HIDE DEF x
<1>3. /\ x.app.open_tabs = app.open_tabs /\ x.app.dirty = TRUE
      /\ x.app.request.edit = edits + 1
      /\ x.app.recovery_last_saved = app.recovery_last_saved
  BY <1>1 DEF EditedFrom
<1>4. DirtyShown(x.app)
  BY <1>3 DEF DirtyShown
<1>5. F \subseteq H /\ edits + 1 \in H
  OBVIOUS
<1>6. edits + 1 \in Safe(x.disk, H)
  BY <1>5 DEF Safe
<1> HIDE DEF H
<1>7. Backed(world, H)
  BY <1>5, BackedGrows
<1>8. Covered(world.app, Safe(world.disk, H)) => Covered(x.app, Safe(x.disk, H))
  BY <1>1, <1>2, <1>3, <1>6 DEF Covered
<1> QED  BY <1>1, <1>2, <1>3, <1>4, <1>7, <1>8 DEF Backed, x, H

LEMMA BackedCollection ==
  ASSUME NEW E \in Nat, Whole(world, E), NEW F, Backed(world, F), unreadable = {},
         NEW c \in Collections, NewDoc \in DocE(E), NewDoc.edit = 0, NEW preferred
  PROVE  /\ Backed(RefreshRequests(SelectedWorld(c), preferred), F)
         /\ Backed(CollectionWorld(c), F)
<1> DEFINE w == SelectedWorld(c)
<1>1. Whole(w, E) /\ w.disk = disk /\ Turned(app, w.app, c)
  BY SelectedWhole
<1>2. world.app = app /\ world.disk = disk
  BY WorldIs
<1> HIDE DEF w
<1>3. Backed(w, F)
  BY <1>1, <1>2, BackedSame DEF Turned
<1>4. Typed(w, E) /\ Len(w.app.open_tabs) <= MaxTabs
  BY <1>1 DEF Whole
<1>5. \A p : Backed(RefreshRequests(w, p), F)
  BY <1>3, <1>4, BackedRefresh
<1>6. ~RefreshFails(w)
  BY DEF RefreshFails
<1> QED  BY <1>5, <1>6 DEF CollectionWorld, w

LEMMA BackedHistory ==
  ASSUME NEW E \in Nat, Whole(world, E), NEW F, Backed(world, F), NEW id \in Ids,
         Found(id) # {}
  PROVE  Backed(HistoryWorld(id), F)
<1> DEFINE l == HistoryListing(id)
           k == Min({j \in DOMAIN l : l[j].doc.id = id})
           w == ListedWorld(id)
<1>1. /\ Whole(w, E) /\ w.disk = disk /\ w.app.requests = l
      /\ w.app.open_tabs = app.open_tabs /\ w.app.active_tab = app.active_tab
      /\ w.app.request = app.request /\ w.app.valid = app.valid /\ w.app.dirty = app.dirty
      /\ w.app.recovery_last_saved = app.recovery_last_saved
      /\ k \in 1 .. Len(l)
  BY HistoryFacts
<1>2. world.app = app /\ world.disk = disk
  BY WorldIs
<1> HIDE DEF w, l, k
<1>3. Backed(w, F)
  BY <1>1, <1>2, BackedSame
<1>4. k \in 1 .. Len(w.app.requests) /\ Typed(w, E) /\ Len(w.app.open_tabs) <= MaxTabs
  BY <1>1 DEF Whole
<1>5. Backed(SelectEntry(w, k), F)
  BY <1>3, <1>4, BackedSelect
<1>6. HistoryWorld(id) = SelectEntry(w, k)
  BY DEF HistoryWorld, w, k, l
<1> QED  BY <1>5, <1>6

LEMMA BackedSave ==
  ASSUME NEW E \in Nat, Whole(world, E), NEW F, Backed(world, F), unreadable = {},
         NEW p \in Path, NewDoc \in DocE(E), NewDoc.edit = 0
  PROVE  Backed(SaveWorld(p), F)
<1> DEFINE v == SavedWorld(p)
           b == [Saved(app) EXCEPT !.request_path = p, !.dirty = FALSE,
                                   !.recovery_restored = FALSE]
           s == SyncActiveTab(b)
<1>1. /\ Whole(v, E) /\ TypedApp(b, E) /\ SaveFrom(app, b, p)
      /\ SameButSaved(s, v.app) /\ v.app.recovery_last_saved = "none"
      /\ v.disk.recovery.drafts = <<>>
  BY SavedWhole
<1>2. app.open_tabs # <<>>
  BY BackedWhole
<1> HIDE DEF v, b
<1>3. b.open_tabs # <<>>
  BY <1>1, <1>2 DEF SaveFrom
<1>4. s.open_tabs # <<>> /\ DirtyShown(s)
  BY <1>1, <1>3, SyncCovered
<1> HIDE DEF s
<1>5. v.app.open_tabs # <<>> /\ DirtyShown(v.app)
  BY <1>1, <1>4 DEF SameButSaved, SameEditor, DirtyShown
<1>6. Backed(v, F)
  BY <1>1, <1>5, BackedCleared
<1>7. Typed(v, E) /\ Len(v.app.open_tabs) <= MaxTabs /\ ~RefreshFails(v)
  BY <1>1 DEF Whole, RefreshFails
<1>8. Backed(RefreshRequests(v, p), F)
  BY <1>6, <1>7, BackedRefresh
<1> QED  BY <1>7, <1>8 DEF SaveWorld, v

LEMMA BackedDuplicate ==
  ASSUME NEW E \in Nat, Whole(world, E), NEW F, Backed(world, F), unreadable = {},
         NEW p \in Path, NewDoc \in DocE(E), NewDoc.edit = 0, Len(app.open_tabs) < MaxTabs
  PROVE  Backed(DuplicateWorld(p), F)
<1> DEFINE w == CopiedWorld(p)
           v == RefreshRequests(w, p)
           b == [Saved(v.app) EXCEPT !.dirty = FALSE, !.recovery_restored = FALSE]
           s == SyncActiveTab(b)
           x == SettingsChanged(RemoveRecovery([v EXCEPT !.app = SyncActiveTab(b)]))
<1>1. Whole(w, E) /\ w.app = app /\ w.disk.recovery = disk.recovery
  BY CopiedWhole
<1>2. world.app = app /\ world.disk = disk
  BY WorldIs
<1> HIDE DEF w
<1>3. Backed(w, F)
  BY <1>1, <1>2, BackedSame
<1>4. Typed(w, E) /\ Len(w.app.open_tabs) < MaxTabs /\ Len(w.app.open_tabs) <= MaxTabs
  BY <1>1 DEF Whole
<1>5. Backed(v, F) /\ Whole(v, E)
  BY <1>1, <1>3, <1>4, BackedRefresh, WholeRefresh
<1> HIDE DEF v
<1>6. /\ TypedApp(b, E) /\ SaveFrom(v.app, b, v.app.request_path)
      /\ SameButSaved(s, x.app) /\ x.app.recovery_last_saved = "none"
      /\ x.disk.recovery.drafts = <<>>
  BY <1>5, DuplicatedFacts
<1>7. v.app.open_tabs # <<>>
  BY <1>5 DEF Backed
<1> HIDE DEF b, x
<1>8. b.open_tabs # <<>>
  BY <1>6, <1>7 DEF SaveFrom
<1>9. s.open_tabs # <<>> /\ DirtyShown(s)
  BY <1>6, <1>8, SyncCovered
<1> HIDE DEF s
<1>10. x.app.open_tabs # <<>> /\ DirtyShown(x.app)
  BY <1>6, <1>9 DEF SameButSaved, SameEditor, DirtyShown
<1>11. Backed(x, F)
  BY <1>6, <1>10, BackedCleared
<1>12. ~RefreshFails(w)
  BY DEF RefreshFails
<1>13. DuplicateWorld(p) = x
  BY <1>12 DEF DuplicateWorld, x, b, v, w
<1> QED  BY <1>11, <1>13

(* Whatever the tabs were, a refresh ends with one that is in the editor.      *)
LEMMA RefreshShown ==
  ASSUME NEW E \in Nat, NEW w, Typed(w, E), Len(w.app.open_tabs) <= MaxTabs,
         NewDoc \in DocE(E), NEW preferred
  PROVE  LET x == RefreshRequests(w, preferred)
         IN x.app.open_tabs # <<>> /\ DirtyShown(x.app)
<1> DEFINE u == Listing1(w)
           x == RefreshRequests(w, preferred)
           v == PersistIfDirty(u)
           s == SyncActiveTab(v.app)
<1>1. Typed(u, E) /\ u.app.open_tabs = w.app.open_tabs
  BY ListedFacts
<1>2. /\ u.app.requests = <<>> => x = OpenDraft(u)
      /\ u.app.requests # <<>> => \E k \in 1 .. Len(u.app.requests) : x = SelectEntry(u, k)
  BY RefreshIs
<1> HIDE DEF u
<1>3. Typed(v, E) /\ PersistFrom(u, v)
  BY <1>1, PersistIfDirtyFacts
<1>4. TypedApp(v.app, E)
  BY <1>3 DEF Typed
<1>5. TypedApp(s, E) /\ SameEditor(v.app, s)
  BY <1>4, SyncFacts
<1>6. s.open_tabs \in Seq(TabE(E)) /\ Len(s.requests) = Len(u.app.requests)
  BY <1>3, <1>5 DEF TypedApp, AppE, PersistFrom, SameEditor
<1>7. CASE u.app.requests = <<>>
  <2> DEFINE tab == DraftTab(u.app.selected_collection)
             y == OpenDraft(u)
  <2>1. Len(u.app.open_tabs) <= MaxTabs
    BY <1>1
  <2>2. OpensTab(s, y.app, tab)
    BY <1>1, <2>1, OpenDraftFacts
  <2>3. tab \in TabE(E) /\ tab.dirty = TRUE
    <3>1. u.app.selected_collection \in Collections
      BY <1>1 DEF Typed, AppE
    <3> QED  BY <3>1 DEF DraftTab, TabE
  <2> HIDE DEF tab, y, s
  <2>4. y.app.open_tabs = Append(s.open_tabs, tab) /\ y.app.dirty = TRUE
    BY <2>2, <2>3 DEF OpensTab
  <2>5. Append(s.open_tabs, tab) \in Seq(TabE(E)) /\ Append(s.open_tabs, tab) # <<>>
    BY <1>6, <2>3, AppendTabFacts
  <2>6. y.app.open_tabs # <<>> /\ DirtyShown(y.app)
    BY <2>4, <2>5 DEF DirtyShown
  <2> QED  BY <1>2, <1>7, <2>6 DEF y
<1>8. CASE u.app.requests # <<>>
  <2>1. PICK k \in 1 .. Len(u.app.requests) : x = SelectEntry(u, k)
    BY <1>2, <1>8
  <2> DEFINE y == SelectEntry(u, k)
  <2>2. Len(u.app.open_tabs) <= MaxTabs
    BY <1>1
  <2>3. /\ SyncFails(u.app) => y = u
        /\ ~SyncFails(u.app) => SelectedFrom(s, v.disk.files, k, y.app)
    <3>1. /\ Typed(y, E) /\ y.disk = v.disk
          /\ SyncFails(u.app) => y = u
          /\ ~SyncFails(u.app) => SelectedFrom(s, v.disk.files, k, y.app)
      BY <1>1, <2>2, SelectEntryFacts
    <3> QED  BY <3>1
  <2> HIDE DEF y, s, v
  <2>4. CASE SyncFails(u.app)
    BY <2>1, <2>3, <2>4 DEF SyncFails, DirtyShown, y
  <2>5. CASE ~SyncFails(u.app)
    <3>1. k \in 1 .. Len(s.requests)
      BY <1>6
    <3>2. y.app.open_tabs # <<>> /\ DirtyShown(y.app)
      BY <1>5, <1>6, <2>3, <2>5, <3>1, SelectedBacked
    <3> QED  BY <2>1, <3>2 DEF y
  <2> QED  BY <2>4, <2>5
<1> QED  BY <1>7, <1>8

LEMMA BackedDelete ==
  ASSUME NEW E \in Nat, Whole(world, E), unreadable = {}, app.request_path \in Path,
         NewDoc \in DocE(E), Len(app.open_tabs) < MaxTabs, NEW F
  PROVE  Backed(DeleteWorld, F)
<1> DEFINE w == DeletedWorld
           v == RefreshRequests(w, NoPath)
           x == SettingsChanged(RemoveRecovery([v EXCEPT
                  !.app = [Saved(@) EXCEPT !.recovery_restored = FALSE]]))
<1>1. /\ Whole(w, E) /\ DeletedFrom(app, w.app, TabsLeft)
      /\ TabsLeft \in Seq(TabE(E)) /\ Len(TabsLeft) <= Len(app.open_tabs)
  BY DeletedWhole
<1>2. Len(w.app.open_tabs) < MaxTabs
  <2>1. w.app.open_tabs = TabsLeft
    BY <1>1 DEF DeletedFrom
  <2>2. app.open_tabs \in Seq(TabE(E)) /\ MaxTabs \in Nat
    BY WholeFacts, WorldIs, DesktopAssumption
  <2> QED  BY <1>1, <2>1, <2>2
<1> HIDE DEF w
<1>3. Typed(w, E) /\ Len(w.app.open_tabs) <= MaxTabs
  BY <1>1 DEF Whole
<1>4. Whole(v, E) /\ v.app.open_tabs # <<>> /\ DirtyShown(v.app)
  BY <1>1, <1>2, <1>3, WholeRefresh, RefreshShown
<1> HIDE DEF v
<1>5. /\ x.app.open_tabs = v.app.open_tabs /\ x.app.active_tab = v.app.active_tab
      /\ x.app.valid = v.app.valid /\ x.app.dirty = v.app.dirty
      /\ x.app.recovery_last_saved = "none" /\ x.disk.recovery.drafts = <<>>
  BY <1>4, DeletedEnd
<1> HIDE DEF x
<1>6. DirtyShown(x.app)
  BY <1>4, <1>5 DEF DirtyShown
<1>7. Backed(x, F)
  BY <1>4, <1>5, <1>6, BackedCleared
<1>8. ~RefreshFails(w)
  BY DEF RefreshFails
<1>9. DeleteWorld = x
  BY <1>8 DEF DeleteWorld, x, v, w
<1> QED  BY <1>7, <1>9

LEMMA BackedDiscard ==
  ASSUME NEW E \in Nat, Whole(world, E), NewDoc \in DocE(E), NewDoc.edit = 0, NEW F
  PROVE  Backed(DiscardWorld, F)
<1> DEFINE x == DiscardWorld
           rest == TabsKept
<1>1. x.disk.recovery.drafts = <<>>
  BY DiscardWhole
<1>2. \E left : /\ KeptFrom(app, left)
                /\ rest = <<>> => FreshDraft(left, x.app)
                /\ rest # <<>> =>
                     \E next \in 1 .. Len(rest) : Shows(left, disk.files, next, x.app)
  BY DiscardWhole
<1> HIDE DEF x, rest
<1>3. PICK left : /\ KeptFrom(app, left)
                  /\ rest = <<>> => FreshDraft(left, x.app)
                  /\ rest # <<>> =>
                       \E next \in 1 .. Len(rest) : Shows(left, disk.files, next, x.app)
  BY <1>2
<1>4. left.open_tabs = rest /\ left.recovery_last_saved = "none"
  BY <1>3 DEF KeptFrom, rest
<1>5. /\ x.app.open_tabs # <<>> /\ DirtyShown(x.app)
      /\ x.app.recovery_last_saved = left.recovery_last_saved
  <2>1. CASE rest = <<>>
    BY <1>3, <2>1, FreshCovered
  <2>2. CASE rest # <<>>
    <3>1. PICK next \in 1 .. Len(rest) : Shows(left, disk.files, next, x.app)
      BY <1>3, <2>2
    <3>2. x.app.open_tabs # <<>> /\ DirtyShown(x.app)
      BY <1>4, <2>2, <3>1, ShownCovered
    <3> QED  BY <3>1, <3>2 DEF Shows
  <2> QED  BY <2>1, <2>2
<1> QED  BY <1>1, <1>4, <1>5, BackedCleared DEF x

LEMMA BackedGives ==
  ASSUME edits \in Nat, Whole(world, edits), NEW F, Backed(world, F), unreadable = {},
         NEW w, NEW new, Gives(w, new)
  PROVE  Backed(w, F \cup new)
<1> DEFINE E == edits
           H == F \cup new
<1>0. E \in Nat /\ Whole(world, E)
  OBVIOUS
<1>1. MayCreate => NewDoc \in DocE(E) /\ NewDoc.edit = 0 /\ Len(app.open_tabs) < MaxTabs
  BY <1>0, NewDocFacts DEF MayCreate
<1>2. Ids \ UsedIds # {} => NewDoc \in DocE(E) /\ NewDoc.edit = 0
  BY <1>0, NewDocFacts
<1> HIDE DEF E, H
<1>9. Typed(world, E) /\ Len(world.app.open_tabs) <= MaxTabs
  BY <1>0, WholeFacts
<1>3. ASSUME Leaves(w) PROVE Backed(w, F)
  <2>1. CASE w = world
    BY <2>1
  <2>2. CASE \E i \in 1 .. MaxTabs : i \in DOMAIN app.open_tabs /\ i # app.active_tab /\ w = SwitchWorld(i)
    BY <1>0, <2>2, BackedSwitch
  <2>3. CASE \E i \in 1 .. MaxTabs :
               /\ i \in DOMAIN app.open_tabs /\ ~app.open_tabs[i].dirty
               /\ RemoveAt(app.open_tabs, i) = <<>> => MayCreate
               /\ w = CloseWorld(i)
    <3>1. PICK i \in DOMAIN app.open_tabs :
            /\ ~app.open_tabs[i].dirty
            /\ RemoveAt(app.open_tabs, i) = <<>> => MayCreate
            /\ w = CloseWorld(i)
      BY <2>3
    <3>2. RemoveAt(app.open_tabs, i) = <<>> => NewDoc \in DocE(E) /\ NewDoc.edit = 0
      BY <1>1, <3>1
    <3> QED  BY <1>0, <3>1, <3>2, BackedClose
  <2>4. CASE /\ Len(app.open_tabs) > 1
             /\ \A i \in DOMAIN app.open_tabs : i # app.active_tab => ~app.open_tabs[i].dirty
             /\ w = CloseOthersWorld
    BY <1>0, <2>4, BackedCloseOthers
  <2>5. CASE \E t \in 1 .. MaxTabs :
               /\ t \in DOMAIN app.open_tabs /\ t \in {app.active_tab - 1, app.active_tab + 1}
               /\ w = MoveWorld(t)
    BY <1>0, <2>5, BackedMove
  <2>6. CASE MayCreate /\ w = OpenDraft(world)
    BY <1>0, <1>1, <1>9, <2>6, BackedDraft
  <2>7. CASE \E k \in 1 .. MaxFiles :
               k \in DOMAIN app.requests /\ Len(app.open_tabs) < MaxTabs /\ w = SelectEntry(world, k)
    <3>1. PICK k \in DOMAIN app.requests : w = SelectEntry(world, k)
      BY <2>7
    <3>2. k \in 1 .. Len(world.app.requests)
      <4>1. app.requests \in Seq(EntryE(E))
        BY <1>0, WholeFacts, WorldIs
      <4> QED  BY <3>1, <4>1, WorldIs
    <3> QED  BY <1>0, <1>9, <3>1, <3>2, BackedSelect
  <2>8. CASE \E c \in Collections : MayCreate /\ w = CollectionWorld(c)
    BY <1>0, <1>1, <2>8, BackedCollection
  <2>9. CASE \E p \in Path :
               /\ unreadable = {} /\ disk.files[p] # NoDoc /\ MayCreate
               /\ w = RefreshRequests(SelectedWorld(p[1]), p)
    BY <1>0, <1>1, <2>9, BackedCollection, PathFacts
  <2>10. CASE \E id \in Ids :
               /\ Found(id) # {} /\ Len(app.open_tabs) < MaxTabs
               /\ \A b \in 1 .. HistoryCollection(id) : b \notin unreadable
               /\ w = HistoryWorld(id)
    BY <1>0, <2>10, BackedHistory
  <2>11. CASE \E p \in Targets(app.selected_collection, app.request_path) :
                app.valid /\ MayCreate /\ w = SaveWorld(p)
    BY <1>0, <1>1, <2>11, BackedSave DEF Targets
  <2>12. CASE \E p \in Targets(app.selected_collection, NoPath) :
                app.request_path # NoPath /\ app.valid /\ MayCreate /\ w = DuplicateWorld(p)
    BY <1>0, <1>1, <2>12, BackedDuplicate DEF Targets
  <2>13. CASE app.recovery_restored /\ MayCreate /\ w = DiscardWorld
    BY <1>0, <1>1, <2>13, BackedDiscard
  <2>14. CASE app.pending = 0 /\ app.valid /\ w = SendWorld
    BY <1>0, <2>14, SendWhole, BackedSame, WorldIs DEF Awaits
  <2>15. CASE \E answer \in {app.pending, app.response} : app.pending # 0 /\ w = PollWorld(answer)
    <3>1. PICK answer \in {app.pending, app.response} : w = PollWorld(answer)
      BY <2>15
    <3>2. PollWorld(answer).disk = disk /\ Awaits(app, PollWorld(answer).app)
      BY <1>0, PollWhole
    <3> QED  BY <3>1, <3>2, BackedSame, WorldIs DEF Awaits
  <2> QED  BY <1>3, <2>1, <2>2, <2>3, <2>4, <2>5, <2>6, <2>7, <2>8, <2>9, <2>10, <2>11,
              <2>12, <2>13, <2>14, <2>15 DEF Leaves
<1>4. ASSUME Imports(w) PROVE Backed(w, F)
  BY <1>0, <1>2, <1>4, BackedImport DEF Imports
<1>5. ASSUME Deletes(w) PROVE Backed(w, F)
  <2>1. app.request_path \in Path
    BY <1>0, <1>5, WholeFacts, WorldIs DEF Deletes
  <2> QED  BY <1>0, <1>1, <1>5, <2>1, BackedDelete DEF Deletes
<1>6. ASSUME Edits(w), new = {edits + 1} PROVE Backed(w, H)
  <2>1. PICK v \in BOOLEAN : w = EditWorld(v)
    BY <1>6 DEF Edits
  <2> QED  BY <1>6, <2>1, BackedEdit DEF H
<1>7. Backed(w, F) => Backed(w, H)
  BY BackedGrows DEF H
<1> QED  BY <1>3, <1>4, <1>5, <1>6, <1>7 DEF Gives, H

LEMMA DraftEditsTyped ==
  ASSUME NEW E \in Nat, NEW w, Typed(w, E)
  PROVE  DraftEdits(w.disk) \subseteq 0 .. E
<1> DEFINE drafts == w.disk.recovery.drafts
<1>1. drafts \in Seq(DraftE(E))
  BY DEF Typed, DiskE
<1> HIDE DEF drafts
<1>2. \A k \in DOMAIN drafts : drafts[k] \in DraftE(E)
  BY <1>1
<1>3. \A k \in DOMAIN drafts : drafts[k].doc.edit \in 0 .. E
  BY <1>2 DEF DraftE, DocE
<1> QED  BY <1>3 DEF DraftEdits, drafts

LEMMA UnsavedIs ==
  ASSUME NEW E \in Nat, NEW a, TypedApp(a, E)
  PROVE  UnsavedEdits(a) = EditsOf(a.open_tabs) \ {0}
<1>1. a.open_tabs \in Seq(TabE(E))
  BY DEF TypedApp, AppE
<1>2. DOMAIN a.open_tabs = 1 .. Len(a.open_tabs)
  BY <1>1
<1> QED  BY <1>2 DEF UnsavedEdits, EditsOf

LEMMA NoDrafts ==
  ASSUME NEW d, d.recovery.drafts = <<>>
  PROVE  DraftEdits(d) = {}
BY DEF DraftEdits

LEMMA NoDirtyEdits ==
  ASSUME NEW tabs, ~SomeDirty(tabs)
  PROVE  EditsOf(tabs) = {}
BY DEF EditsOf, SomeDirty

LEMMA AlikeEdits ==
  ASSUME NEW a, NEW b, Alike(a, b)
  PROVE  EditsOf(b.open_tabs) = EditsOf(a.open_tabs)
<1> DEFINE n == Len(a.open_tabs)
<1>1. /\ Len(b.open_tabs) = n
      /\ \A i \in 1 .. n : /\ b.open_tabs[i].doc = a.open_tabs[i].doc
                           /\ b.open_tabs[i].dirty = a.open_tabs[i].dirty
  BY DEF Alike
<1> HIDE DEF n
<1>2. ASSUME NEW e \in EditsOf(a.open_tabs) PROVE e \in EditsOf(b.open_tabs)
  <2>1. PICK i \in 1 .. n : a.open_tabs[i].dirty /\ e = a.open_tabs[i].doc.edit
    BY <1>2 DEF EditsOf, n
  <2> QED  BY <1>1, <2>1 DEF EditsOf
<1>3. ASSUME NEW e \in EditsOf(b.open_tabs) PROVE e \in EditsOf(a.open_tabs)
  <2>1. PICK i \in 1 .. n : b.open_tabs[i].dirty /\ e = b.open_tabs[i].doc.edit
    BY <1>1, <1>3 DEF EditsOf
  <2> QED  BY <1>1, <2>1 DEF EditsOf, n
<1> QED  BY <1>2, <1>3

(* An exit writes the drafts of all dirty tabs, or finds none to write.        *)
LEMMA ExitDrafts ==
  ASSUME NEW E \in Nat, NEW w, Typed(w, E), NEW F, Settled(w, F), w.app.valid
  PROVE  LET v == IF HasDirtyWork(w.app) THEN PersistRecovery(w) ELSE w
         IN DraftEdits(v.disk) = EditsOf(w.app.open_tabs)
<1> DEFINE tabs == w.app.open_tabs
           b == SyncActiveTab(w.app)
           v == PersistRecovery(w)
<1>1. TypedApp(w.app, E) /\ w.app.open_tabs # <<>> /\ Synced(w.app)
  BY DEF Typed, Settled
<1>2. Alike(w.app, b) /\ TypedApp(b, E) /\ b.open_tabs # <<>>
  BY <1>1, SyncAlike, SyncFacts
<1>3. ~SomeDirty(tabs) => DraftEdits(w.disk) = {} /\ EditsOf(tabs) = {}
  BY NoDrafts, NoDirtyEdits DEF Settled
<1>4. EditsOf(b.open_tabs) = EditsOf(tabs) /\ (SomeDirty(tabs) => SomeDirty(b.open_tabs))
  <2>1. SomeDirty(tabs) => SomeDirty(b.open_tabs)
    BY <1>2 DEF SomeDirty, Alike
  <2> QED  BY <1>2, <2>1, AlikeEdits
<1>5. CASE ~HasDirtyWork(w.app)
  <2>1. DOMAIN tabs = 1 .. Len(tabs)
    BY <1>1 DEF TypedApp, AppE
  <2>2. ~SomeDirty(tabs)
    BY <1>5, <2>1 DEF HasDirtyWork, SomeDirty
  <2> QED  BY <1>3, <1>5, <2>2
<1>6. CASE HasDirtyWork(w.app)
  <2> HIDE DEF b
  <2>1. CASE Drafts(b) = <<>>
    <3>1. v = [w EXCEPT !.app = b]
      BY <2>1 DEF PersistRecovery, b
    <3>2. v.disk = w.disk
      BY <3>1 DEF Typed
    <3>3. ~SomeDirty(b.open_tabs)
      <4> DEFINE d == [recovery |-> [drafts |-> Drafts(b)]]
      <4>1. d.recovery.drafts = Drafts(b)
        OBVIOUS
      <4> HIDE DEF d
      <4> QED  BY <1>2, <2>1, <4>1, DraftsCover
    <3> QED  BY <1>3, <1>4, <1>6, <3>2, <3>3
  <2>2. CASE Drafts(b) # <<>>
    <3>1. v = [app |-> [b EXCEPT !.recovery_last_saved = "recent"],
               disk |-> [w.disk EXCEPT !.recovery =
                           [drafts |-> Drafts(b), active |-> ActiveDraft(b)]]]
      BY <2>2 DEF PersistRecovery, b
    <3>2. v.disk.recovery.drafts = Drafts(b)
      BY <3>1 DEF Typed, DiskE
    <3> HIDE DEF v
    <3>3. DraftEdits(v.disk) = EditsOf(b.open_tabs)
      BY <1>2, <3>2, DraftsCover
    <3> QED  BY <1>4, <1>6, <3>3 DEF v
  <2> QED  BY <2>1, <2>2
<1> QED  BY <1>5, <1>6

(* A start: until the drafts are back, no tab is a restored one, and what is    *)
(* unsaved has no edits.                                                       *)
Opening(w) ==
  /\ w.app.open_tabs # <<>> /\ Synced(w.app) /\ w.app.recovery_last_saved = "none"
  /\ \A i \in 1 .. Len(w.app.open_tabs) :
       LET t == w.app.open_tabs[i]
       IN ~t.recovered /\ (t.dirty => t.doc.edit = 0)
RestoredOf(tabs) == {tabs[i].doc.edit : i \in {j \in 1 .. Len(tabs) : tabs[j].recovered}}

LEMMA OnlyTab ==
  ASSUME NEW S, NEW t \in S, NEW tabs, tabs = Append(<<>>, t)
  PROVE  Len(tabs) = 1 /\ tabs[1] = t /\ tabs # <<>>
<1>1. <<>> \in Seq(S) /\ Len(<<>>) = 0
  OBVIOUS
<1>2. /\ Append(<<>>, t) \in Seq(S) /\ Append(<<>>, t) # <<>>
      /\ Len(Append(<<>>, t)) = Len(<<>>) + 1 /\ Append(<<>>, t)[Len(<<>>) + 1] = t
  BY <1>1, AppendTabFacts
<1> QED  BY <1>1, <1>2

LEMMA OpeningListed ==
  ASSUME TabsTyped, OpenApp
  PROVE  Opening(Listed0) /\ Listed0.disk.recovery = disk.recovery
<1> DEFINE E == edits
           u == Listing1(world)
           s == SyncActiveTab(u.app)
           x == Listed0
<1>1. /\ E \in Nat /\ Typed(world, E) /\ app = Blank /\ NewDoc \in DocE(E) /\ NewDoc.edit = 0
      /\ Len(world.app.open_tabs) <= MaxTabs
  BY NewDocFacts, WorldIs DEF TabsTyped, OpenApp
<1>2. /\ world.app.open_tabs = <<>> /\ world.app.valid = TRUE /\ world.app.dirty = FALSE
      /\ world.app.recovery_last_saved = "none" /\ world.disk = disk
  BY <1>1, WorldIs DEF Blank
<1>3. /\ Typed(u, E) /\ u.disk = disk /\ u.app.open_tabs = <<>> /\ u.app.valid = TRUE
      /\ u.app.dirty = FALSE /\ u.app.recovery_last_saved = "none"
  <2>1. /\ Typed(u, E) /\ u.disk = world.disk
        /\ u.app.open_tabs = world.app.open_tabs /\ u.app.valid = world.app.valid
        /\ u.app.dirty = world.app.dirty
        /\ u.app.recovery_last_saved = world.app.recovery_last_saved
    BY <1>1, ListedFacts
  <2> QED  BY <1>2, <2>1
<1>4. /\ u.app.requests = <<>> => x = OpenDraft(u)
      /\ u.app.requests # <<>> => \E k \in 1 .. Len(u.app.requests) : x = SelectEntry(u, k)
  BY <1>1, RefreshIs DEF Listed0
<1> HIDE DEF E, x, u
<1>5. PersistIfDirty(u) = u /\ s = u.app /\ Len(u.app.open_tabs) <= MaxTabs /\ TypedApp(u.app, E)
  <2>1. Len(u.app.open_tabs) = 0
    BY <1>3
  <2> QED  BY <1>3, <2>1, DesktopAssumption DEF PersistIfDirty, SyncActiveTab, Typed
<1>6. u.app.selected_collection \in Collections /\ u.app \in AppE(E)
  BY <1>5 DEF TypedApp, AppE
<1> SUFFICES ASSUME NEW y, y = x PROVE Opening(y) /\ y.disk.recovery = disk.recovery
  BY DEF x
<1>7. CASE u.app.requests = <<>>
  <2> DEFINE tab == DraftTab(u.app.selected_collection)
  <2>1. x = OpenDraft(u)
    BY <1>4, <1>7
  <2>2. OpenDraft(u).disk = PersistIfDirty(u).disk
        /\ OpensTab(SyncActiveTab(PersistIfDirty(u).app), OpenDraft(u).app, tab)
    BY <1>1, <1>3, <1>5, OpenDraftFacts
  <2>3. y.disk = disk /\ OpensTab(u.app, y.app, tab)
    BY <1>3, <1>5, <2>1, <2>2
  <2>4. /\ tab \in TabE(E) /\ tab.dirty = TRUE /\ tab.doc.edit = 0 /\ tab.recovered = FALSE
    BY <1>1, <1>6 DEF DraftTab, TabE
  <2> HIDE DEF tab
  <2>5. y.app.open_tabs = Append(<<>>, tab)
    BY <1>3, <2>3 DEF OpensTab
  <2>6. Len(y.app.open_tabs) = 1 /\ y.app.open_tabs[1] = tab /\ y.app.open_tabs # <<>>
    BY <2>4, <2>5, OnlyTab
  <2>7. y.app.active_tab = 1 /\ y.app.recovery_last_saved = "none"
    BY <1>3, <2>3 DEF OpensTab
  <2>8. Synced(y.app)
    BY <2>3, <2>6, <2>7 DEF OpensTab, Synced
  <2> QED  BY <2>3, <2>4, <2>6, <2>7, <2>8 DEF Opening
<1>8. CASE u.app.requests # <<>>
  <2>1. PICK k \in 1 .. Len(u.app.requests) : x = SelectEntry(u, k)
    BY <1>4, <1>8
  <2> DEFINE o == Opened(u.app, k)
             tab == FileTab(u.app.selected_collection, u.app.requests[k])
             files == u.disk.files
  <2>2. /\ SelectEntry(u, k).disk = PersistIfDirty(u).disk
        /\ ~SyncFails(u.app) => SelectedFrom(SyncActiveTab(PersistIfDirty(u).app),
                                             PersistIfDirty(u).disk.files, k, SelectEntry(u, k).app)
    BY <1>1, <1>3, <1>5, SelectEntryFacts
  <2>3. ~SyncFails(u.app)
    BY <1>3 DEF SyncFails
  <2>4. y.disk = disk /\ SelectedFrom(u.app, files, k, y.app)
    BY <1>3, <1>5, <2>1, <2>2, <2>3
  <2>5. /\ tab \in TabE(E) /\ tab.dirty = FALSE /\ tab.recovered = FALSE
        /\ o.open_tabs = Append(u.app.open_tabs, tab)
        /\ o.recovery_last_saved = u.app.recovery_last_saved
    <3>1. u.app.requests[k] \in EntryE(E)
      <4>1. u.app.requests \in Seq(EntryE(E))
        BY <1>6 DEF AppE
      <4> QED  BY <4>1
    <3>2. tab \in TabE(E) /\ tab.dirty = FALSE /\ tab.recovered = FALSE
      BY <1>6, <3>1 DEF FileTab, TabE, EntryE
    <3> HIDE DEF tab
    <3>3. /\ o.open_tabs = Append(u.app.open_tabs, tab)
          /\ o.recovery_last_saved = u.app.recovery_last_saved
      BY <1>6 DEF Opened, AppE, tab
    <3> QED  BY <3>2, <3>3
  <2> HIDE DEF files, tab
  <2>6. Len(u.app.open_tabs) = 0
    BY <1>3
  <2>7. Shows(o, files, 1, y.app)
    BY <2>4, <2>6 DEF SelectedFrom
  <2> HIDE DEF o
  <2>8. Len(o.open_tabs) = 1 /\ o.open_tabs[1] = tab /\ o.open_tabs # <<>>
    BY <1>3, <2>5, OnlyTab
  <2>9. 1 \in 1 .. Len(o.open_tabs)
    BY <2>8
  <2>10. y.app.open_tabs # <<>> /\ Synced(y.app)
    BY <2>7, <2>8, <2>9, ShownCovered
  <2>11. y.app.open_tabs = o.open_tabs /\ y.app.recovery_last_saved = "none"
    BY <1>3, <2>5, <2>7 DEF Shows
  <2> QED  BY <2>4, <2>5, <2>8, <2>10, <2>11 DEF Opening
<1> QED  BY <1>7, <1>8

LEMMA OpeningRestored ==
  ASSUME NEW E \in Nat, NEW w, Typed(w, E), Opening(w)
  PROVE  Opening(RestoreTabs(w))
<1> DEFINE x == RestoreTabs(w)
           paths == FoundPaths(w)
           files == w.disk.files
<1>1. /\ paths = <<>> => x = w
      /\ paths # <<>> => RestoredFrom(w, x) /\ x.app.open_tabs # <<>>
  BY RestoreTabsFacts
<1> HIDE DEF x
<1>2. CASE paths = <<>>
  BY <1>1, <1>2 DEF x
<1>3. CASE paths # <<>>
  <2>1. PICK a : \E next \in 1 .. Len(paths) :
           /\ a.open_tabs = [i \in DOMAIN paths |-> SavedTab(files, paths[i])]
           /\ a.recovery_last_saved = w.app.recovery_last_saved
           /\ Shows(a, files, next, x.app)
    BY <1>1, <1>3 DEF RestoredFrom
  <2>2. PICK next \in 1 .. Len(paths) :
           /\ a.open_tabs = [i \in DOMAIN paths |-> SavedTab(files, paths[i])]
           /\ a.recovery_last_saved = w.app.recovery_last_saved
           /\ Shows(a, files, next, x.app)
    BY <2>1
  <2>3. paths \in Seq(Path) /\ Len(paths) \in Nat /\ DOMAIN paths = 1 .. Len(paths)
    BY FoundPathsFacts
  <2>4. \A p : SavedTab(files, p).dirty = FALSE /\ SavedTab(files, p).recovered = FALSE
    BY DEF SavedTab
  <2> HIDE DEF paths, files
  <2>5. /\ Len(a.open_tabs) = Len(paths) /\ a.open_tabs # <<>>
        /\ \A i \in 1 .. Len(paths) : a.open_tabs[i] = SavedTab(files, paths[i])
    BY <1>3, <2>2, <2>3
  <2>6. next \in 1 .. Len(a.open_tabs)
    BY <2>5
  <2>7. x.app.open_tabs # <<>> /\ Synced(x.app)
    BY <2>2, <2>5, <2>6, ShownCovered
  <2>8. x.app.open_tabs = a.open_tabs /\ x.app.recovery_last_saved = "none"
    BY <2>2 DEF Shows, Opening
  <2> QED  BY <2>4, <2>5, <2>7, <2>8 DEF Opening, x
<1> QED  BY <1>2, <1>3

(* The drafts as new tabs: restored are the edits of the snapshot and no other. *)
LEMMA OpeningRecovered ==
  ASSUME NEW E \in Nat, NEW w, Typed(w, E), Opening(w)
  PROVE  LET x == RestoreRecovery(w)
         IN /\ Backed(x, {}) /\ Synced(x.app) /\ x.disk = w.disk
            /\ RestoredOf(x.app.open_tabs) = DraftEdits(w.disk)
<1> DEFINE x == RestoreRecovery(w)
           drafts == w.disk.recovery.drafts
           files == w.disk.files
           new == [i \in DOMAIN drafts |-> DraftedTab(drafts[i])]
           s == w.app.open_tabs
           m == Len(s)
           q == s \o new
<1>1. x.disk = w.disk
  BY RestoreRecoveryFacts
<1>2. /\ drafts = <<>> => x = w
      /\ drafts # <<>> => RecoveredFrom(w, x) /\ x.app.open_tabs # <<>>
  BY RestoreRecoveryFacts
<1> HIDE DEF x
<1>0. \A i \in 1 .. m : ~s[i].recovered /\ (s[i].dirty => s[i].doc.edit = 0)
  BY DEF Opening
<1>3. CASE drafts = <<>>
  <2>1. x = w
    BY <1>2, <1>3
  <2>2. RestoredOf(s) = {}
    BY <1>0 DEF RestoredOf
  <2>3. DraftEdits(w.disk) = {}
    BY <1>3, NoDrafts
  <2>4. s # <<>> /\ Synced(w.app) /\ w.app.recovery_last_saved = "none"
    BY DEF Opening
  <2>5. Backed(w, {})
    BY <1>3, <2>4, SyncedShown DEF Backed
  <2> QED  BY <2>1, <2>2, <2>3, <2>4, <2>5 DEF x
<1>4. CASE drafts # <<>>
  <2>1. PICK a, next, b :
           /\ next \in m + 1 .. m + Len(drafts) /\ a.open_tabs = q
           /\ Shows(a, files, next, b) /\ SameButSaved(b, x.app)
           /\ x.app.recovery_last_saved = "recent"
    BY <1>2, <1>4 DEF RecoveredFrom
  <2>2. /\ drafts \in Seq(DraftE(E)) /\ Len(drafts) \in Nat /\ DOMAIN drafts = 1 .. Len(drafts)
        /\ s \in Seq(TabE(E)) /\ m \in Nat
    BY DEF Typed, AppE, DiskE
  <2>3. /\ new \in Seq(TabE(E)) /\ Len(new) = Len(drafts)
        /\ \A i \in 1 .. Len(drafts) : /\ new[i].doc = drafts[i].doc
                                       /\ new[i].dirty = TRUE /\ new[i].recovered = TRUE
    <3>1. \A d \in DraftE(E) : /\ DraftedTab(d) \in TabE(E) /\ DraftedTab(d).doc = d.doc
                               /\ DraftedTab(d).dirty = TRUE /\ DraftedTab(d).recovered = TRUE
      BY DEF DraftE, TabE, DraftedTab
    <3>2. \A i \in 1 .. Len(drafts) : drafts[i] \in DraftE(E)
      BY <2>2
    <3> QED  BY <2>2, <3>1, <3>2
  <2>4. DraftEdits(w.disk) = {drafts[k].doc.edit : k \in 1 .. Len(drafts)}
    BY <2>2 DEF DraftEdits
  <2> HIDE DEF new, drafts, s, q
  <2>5. /\ q \in Seq(TabE(E)) /\ Len(q) = m + Len(drafts)
        /\ \A k \in 1 .. Len(q) : q[k] = IF k <= m THEN s[k] ELSE new[k - m]
    <3>1. /\ s \o new \in Seq(TabE(E)) /\ Len(s \o new) = Len(s) + Len(new)
          /\ \A k \in 1 .. Len(s) + Len(new) :
               (s \o new)[k] = IF k <= Len(s) THEN s[k] ELSE new[k - Len(s)]
      <4>1. s \in Seq(TabE(E)) /\ new \in Seq(TabE(E))
        BY <2>2, <2>3
      <4> QED  BY <4>1, ConcatFacts
    <3> QED  BY <2>3, <3>1 DEF q
  <2> HIDE DEF m
  <2>6. ASSUME NEW k \in 1 .. Len(q)
        PROVE  \/ ~q[k].recovered /\ (q[k].dirty => q[k].doc.edit = 0)
               \/ \E i \in 1 .. Len(drafts) : q[k].doc = drafts[i].doc
    <3>1. CASE k <= m
      <4>1. k \in 1 .. m /\ q[k] = s[k]
        BY <2>2, <2>5, <3>1
      <4> QED  BY <1>0, <4>1
    <3>2. CASE ~(k <= m)
      <4>1. k - m \in 1 .. Len(drafts) /\ q[k] = new[k - m]
        BY <2>2, <2>5, <3>2
      <4> QED  BY <2>3, <4>1
    <3> QED  BY <3>1, <3>2
  <2>7. ASSUME NEW i \in 1 .. Len(drafts)
        PROVE  \E k \in 1 .. Len(q) : q[k].doc = drafts[i].doc /\ q[k].dirty /\ q[k].recovered
    <3>1. m + i \in 1 .. Len(q) /\ ~(m + i <= m) /\ (m + i) - m = i
      BY <2>2, <2>5
    <3> DEFINE l == m + i
    <3> HIDE DEF l
    <3>2. PICK k \in 1 .. Len(q) : ~(k <= m) /\ k - m = i
      <4>1. l \in 1 .. Len(q) /\ ~(l <= m) /\ l - m = i
        BY <3>1 DEF l
      <4> QED  BY <4>1
    <3>3. q[k] = new[k - m]
      BY <2>5, <3>2
    <3>4. q[k] = new[i]
      BY <3>2, <3>3
    <3> QED  BY <2>3, <3>4
  <2>8. RestoredOf(q) = DraftEdits(w.disk)
    <3>1. ASSUME NEW e \in RestoredOf(q) PROVE e \in DraftEdits(w.disk)
      <4>1. PICK k \in 1 .. Len(q) : q[k].recovered /\ e = q[k].doc.edit
        BY <3>1 DEF RestoredOf
      <4>2. PICK i \in 1 .. Len(drafts) : q[k].doc = drafts[i].doc
        BY <2>6, <4>1
      <4> QED  BY <2>4, <4>1, <4>2
    <3>2. ASSUME NEW e \in DraftEdits(w.disk) PROVE e \in RestoredOf(q)
      <4>1. PICK i \in 1 .. Len(drafts) : e = drafts[i].doc.edit
        BY <2>4, <3>2
      <4>2. PICK k \in 1 .. Len(q) : q[k].doc = drafts[i].doc /\ q[k].recovered
        BY <2>7
      <4> QED  BY <4>1, <4>2 DEF RestoredOf
    <3> QED  BY <3>1, <3>2
  <2>9. CoveredTabs(q, Safe(w.disk, {})) /\ SomeDirty(q)
    <3>1. ASSUME NEW k \in 1 .. Len(q), q[k].dirty PROVE q[k].doc.edit \in Safe(w.disk, {})
      <4>1. q[k].doc.edit = 0 \/ q[k].doc.edit \in DraftEdits(w.disk)
        BY <2>4, <2>6, <3>1
      <4> QED  BY <4>1 DEF Safe
    <3>2. 1 \in 1 .. Len(drafts)
      BY <1>4, <2>2
    <3>3. SomeDirty(q)
      BY <2>7, <3>2 DEF SomeDirty
    <3> QED  BY <3>1, <3>3 DEF CoveredTabs
  <2>10. next \in 1 .. Len(a.open_tabs) /\ a.open_tabs # <<>>
    BY <2>1, <2>2, <2>5
  <2>11. /\ b.open_tabs # <<>> /\ Synced(b) /\ Covered(b, Safe(w.disk, {}))
         /\ b.open_tabs = q
    <3>1. /\ b.open_tabs # <<>> /\ DirtyShown(b) /\ Synced(b)
          /\ \A G : CoveredTabs(a.open_tabs, G) => Covered(b, G)
          /\ SomeDirty(a.open_tabs) => SomeDirty(b.open_tabs)
      BY <2>1, <2>10, ShownCovered
    <3>2. b.open_tabs = a.open_tabs
      BY <2>1 DEF Shows
    <3> QED  BY <2>1, <2>9, <3>1, <3>2
  <2>12. /\ x.app.open_tabs = q /\ q # <<>> /\ Synced(x.app)
         /\ Covered(x.app, Safe(w.disk, {}))
    BY <2>1, <2>11 DEF SameButSaved, SameEditor, Synced, Covered
  <2>13. Safe(x.disk, {}) = Safe(w.disk, {})
    BY <1>1
  <2>14. Backed(x, {})
    BY <2>9, <2>12, <2>13, SyncedShown DEF Backed
  <2> QED  BY <1>1, <2>8, <2>12, <2>14 DEF x
<1> QED  BY <1>3, <1>4

LEMMA AlikeRestored ==
  ASSUME NEW a, NEW b, Alike(a, b)
  PROVE  RestoredOf(b.open_tabs) = RestoredOf(a.open_tabs)
<1> DEFINE n == Len(a.open_tabs)
<1>1. /\ Len(b.open_tabs) = n
      /\ \A i \in 1 .. n : /\ b.open_tabs[i].doc = a.open_tabs[i].doc
                           /\ b.open_tabs[i].recovered = a.open_tabs[i].recovered
  BY DEF Alike
<1> HIDE DEF n
<1>2. ASSUME NEW e \in RestoredOf(a.open_tabs) PROVE e \in RestoredOf(b.open_tabs)
  <2>1. PICK i \in 1 .. n : a.open_tabs[i].recovered /\ e = a.open_tabs[i].doc.edit
    BY <1>2 DEF RestoredOf, n
  <2> QED  BY <1>1, <2>1 DEF RestoredOf
<1>3. ASSUME NEW e \in RestoredOf(b.open_tabs) PROVE e \in RestoredOf(a.open_tabs)
  <2>1. PICK i \in 1 .. n : b.open_tabs[i].recovered /\ e = b.open_tabs[i].doc.edit
    BY <1>1, <1>3 DEF RestoredOf
  <2> QED  BY <1>1, <2>1 DEF RestoredOf, n
<1> QED  BY <1>2, <1>3

LEMMA OpenBacked ==
  ASSUME TabsTyped, OpenApp
  PROVE  /\ Settled(EndOfFrame(OpenedWorld), {})
         /\ RestoredOf(EndOfFrame(OpenedWorld).app.open_tabs) = DraftEdits(disk)
<1> DEFINE u == Listed0
           v == RestoreTabs(u)
           x == OpenedWorld
           y == EndOfFrame(x)
<1>1. Typed(u, edits) /\ Typed(v, edits) /\ Whole(x, edits) /\ edits \in Nat
  BY OpenWhole DEF Whole, TabsTyped
<1>2. Opening(u) /\ u.disk.recovery = disk.recovery
  BY OpeningListed
<1>3. v.disk = u.disk
  BY <1>1, RestoreTabsFacts
<1>4. Opening(v)
  BY <1>1, <1>2, OpeningRestored
<1>5. x = RestoreRecovery(v)
  BY DEF OpenedWorld
<1> HIDE DEF u, v, x
<1>6. Backed(x, {}) /\ Synced(x.app) /\ RestoredOf(x.app.open_tabs) = DraftEdits(v.disk)
  BY <1>1, <1>4, <1>5, OpeningRecovered
<1>7. DraftEdits(v.disk) = DraftEdits(disk)
  BY <1>2, <1>3 DEF DraftEdits
<1>8. Typed(x, edits) /\ Len(x.app.open_tabs) <= MaxTabs
  BY <1>1 DEF Whole
<1>9. Settled(y, {}) /\ Alike(x.app, y.app)
  BY <1>1, <1>6, <1>8, BackedEnd
<1>10. RestoredOf(y.app.open_tabs) = RestoredOf(x.app.open_tabs)
  BY <1>9, AlikeRestored
<1> QED  BY <1>6, <1>7, <1>9, <1>10 DEF x

(* The inductive invariant of RestartRestoresDrafts, while every file parses:   *)
(* in a running program what is unsaved and not newer than the last due        *)
(* snapshot is in it; in a stopped one the snapshot has what it owes, and no    *)
(* more than it may.                                                           *)
DraftsBacked ==
  unreadable = {} =>
    /\ running => Settled(world, fresh)
    /\ ~running => owed \subseteq DraftEdits(disk) /\ DraftEdits(disk) \subseteq allowed \cup {0}

LEMMA DraftsBackedInit == Init => DraftsBacked
<1> SUFFICES ASSUME Init PROVE DraftsBacked
  OBVIOUS
<1>1. disk.recovery = NoSnapshot /\ running = FALSE /\ owed = {}
  BY DEF Init
<1>2. DraftEdits(disk) = {}
  BY <1>1, NoDrafts DEF NoSnapshot
<1> QED  BY <1>1, <1>2 DEF DraftsBacked

(* What a program that stops leaves: all that was settled, or what parses.      *)
LEMMA CrashDrafts ==
  ASSUME NEW E \in Nat, NEW w, Typed(w, E), NEW F, Settled(w, F), w.app.valid
  PROVE  UnsavedEdits(w.app) \ F \subseteq DraftEdits(w.disk)
<1>1. UnsavedEdits(w.app) = EditsOf(w.app.open_tabs) \ {0}
  BY UnsavedIs DEF Typed
<1>2. CoveredTabs(w.app.open_tabs, Safe(w.disk, F))
  BY DEF Settled, Covered
<1>3. EditsOf(w.app.open_tabs) \subseteq Safe(w.disk, F)
  BY <1>2 DEF CoveredTabs, EditsOf
<1> QED  BY <1>1, <1>3 DEF Safe

LEMMA DraftsBackedFrame ==
  ASSUME TabsTyped, DraftsBacked, unreadable = {}, NEW w, NEW new, Gives(w, new),
         Frame(w, new)
  PROVE  DraftsBacked'
<1> DEFINE E == edits + Cardinality(new)
           x == EndOfFrame(w)
<1>1. running /\ Whole(world, edits) /\ edits \in Nat /\ edits' = E
  BY TabsTypedWhole DEF Frame
<1>2. Whole(w, E) /\ E \in Nat
  <2>1. Whole(w, E) /\ Cardinality(new) \in {0, 1}
    BY <1>1, WholeGives
  <2> QED  BY <1>1, <2>1
<1> HIDE DEF E
<1>3. Typed(w, E) /\ Len(w.app.open_tabs) <= MaxTabs
  BY <1>2 DEF Whole
<1>4. Backed(w, fresh \cup new)
  <2>1. Backed(world, fresh)
    BY <1>1, SettledBacked DEF DraftsBacked
  <2> QED  BY <1>1, <2>1, BackedGives
<1>5. /\ Settled(x, fresh \cup new)
      /\ RecoveryDue(w) /\ w.app.valid => Settled(x, {})
  BY <1>2, <1>3, <1>4, BackedEnd
<1> HIDE DEF x
<1>6. CASE /\ Become(EndOfFrame(w))
           /\ fresh' = IF RecoveryDue(w) /\ w.app.valid THEN {} ELSE fresh \cup new
           /\ UNCHANGED <<running, owed, allowed>>
  <2>1. app' = x.app /\ disk' = x.disk /\ running' = running
    BY <1>6 DEF Become, x
  <2>2. Settled(x, fresh')
    BY <1>5, <1>6
  <2>3. Settled([app |-> app', disk |-> disk'], fresh')
    BY <2>1, <2>2 DEF Settled
  <2> QED  BY <1>1, <2>1, <2>3 DEF DraftsBacked, world
<1>7. CASE Stop(w.disk, {}, 1 .. edits')
  <2>1. disk' = w.disk /\ running' = FALSE /\ owed' = {} /\ allowed' = 1 .. E
    BY <1>1, <1>7 DEF Stop
  <2>2. DraftEdits(w.disk) \subseteq 0 .. E
    BY <1>2, <1>3, DraftEditsTyped
  <2>3. DraftEdits(disk') \subseteq allowed' \cup {0}
    BY <1>2, <2>1, <2>2
  <2> QED  BY <2>1, <2>3 DEF DraftsBacked
<1> QED  BY <1>6, <1>7 DEF Frame

LEMMA DraftsBackedNext ==
  ASSUME TabsTyped, DraftsBacked, [Next]_vars
  PROVE  DraftsBacked'
<1>1. unreadable' = unreadable
  <2>1. ASSUME TabCommand PROVE unreadable' = unreadable
    BY <2>1, CommandCases DEF TabsTyped, Frame
  <2> QED  BY <2>1 DEF Next, SecondPasses, OnExit, Crash, OpenApp, vars
<1> SUFFICES ASSUME unreadable = {} PROVE DraftsBacked'
  BY <1>1 DEF DraftsBacked
<1>2. /\ Typed(world, edits) /\ edits \in Nat /\ world.app = app /\ world.disk = disk
      /\ running => Settled(world, fresh)
      /\ ~running => owed \subseteq DraftEdits(disk) /\ DraftEdits(disk) \subseteq allowed \cup {0}
      /\ running \in BOOLEAN
  BY WorldIs DEF DraftsBacked, TabsTyped
<1>3. DraftEdits(disk) \subseteq 0 .. edits
  <2>1. DraftEdits(world.disk) \subseteq 0 .. edits
    BY <1>2, DraftEditsTyped
  <2> QED  BY <1>2, <2>1
<1>4. CASE TabCommand
  <2>1. PICK w, new : Frame(w, new) /\ Gives(w, new)
    BY <1>4, CommandCases DEF TabsTyped, Gives
  <2> QED  BY <2>1, DraftsBackedFrame
<1>5. CASE SecondPasses
  <2>1. /\ running /\ running' = running /\ disk' = disk /\ fresh' = fresh
        /\ app' = [app EXCEPT !.recovery_last_saved = "due"]
        /\ app.recovery_last_saved = "recent"
    BY <1>5 DEF SecondPasses
  <2>2. app \in AppE(edits)
    BY <1>2 DEF Typed
  <2>3. /\ app'.open_tabs = app.open_tabs /\ app'.active_tab = app.active_tab
        /\ app'.request_path = app.request_path /\ app'.request = app.request
        /\ app'.valid = app.valid /\ app'.dirty = app.dirty
        /\ app'.recovery_restored = app.recovery_restored
    BY <2>1, <2>2 DEF AppE
  <2>4. Settled(world, fresh) /\ Covered(app, Safe(disk, fresh))
    BY <1>2, <2>1 DEF Settled
  <2>5. Synced(app') /\ Covered(app', Safe(disk, fresh))
    BY <1>2, <2>3, <2>4 DEF Settled, Synced, Covered
  <2>6. Settled([app |-> app', disk |-> disk'], fresh')
    BY <1>2, <2>1, <2>3, <2>4, <2>5 DEF Settled
  <2> QED  BY <2>1, <2>6 DEF DraftsBacked, world
<1>6. CASE OnExit
  <2> DEFINE v == IF HasDirtyWork(app) THEN PersistRecovery(world) ELSE world
             w == SaveTabsSettings(v)
  <2>1. /\ running /\ disk' = w.disk /\ running' = FALSE
        /\ owed' = IF app.valid THEN UnsavedEdits(app) ELSE {}
        /\ allowed' = IF app.valid THEN UnsavedEdits(app) ELSE 1 .. edits
    BY <1>6 DEF OnExit, Stop
  <2>2. Typed(v, edits) /\ Typed(w, edits)
    BY <2>1, OnExitTyped
  <2>3. app.valid => DraftEdits(v.disk) = EditsOf(app.open_tabs)
    BY <1>2, <2>1, ExitDrafts
  <2> HIDE DEF v
  <2>4. DraftEdits(w.disk) = DraftEdits(v.disk)
    BY <1>2, <2>2, SaveTabsFacts DEF DraftEdits
  <2>5. DraftEdits(w.disk) \subseteq 0 .. edits
    BY <1>2, <2>2, DraftEditsTyped
  <2>6. UnsavedEdits(app) = EditsOf(app.open_tabs) \ {0}
    BY <1>2, UnsavedIs DEF Typed
  <2> HIDE DEF w
  <2>7. owed' \subseteq DraftEdits(disk') /\ DraftEdits(disk') \subseteq allowed' \cup {0}
    <3>1. CASE app.valid
      BY <2>1, <2>3, <2>4, <2>6, <3>1
    <3>2. CASE ~app.valid
      BY <1>2, <2>1, <2>5, <3>2
    <3> QED  BY <3>1, <3>2
  <2> QED  BY <2>1, <2>7 DEF DraftsBacked
<1>7. CASE Crash
  <2>1. /\ running /\ disk' = disk /\ running' = FALSE /\ allowed' = 1 .. edits
        /\ owed' = IF app.valid THEN UnsavedEdits(app) \ fresh ELSE {}
    BY <1>7 DEF Crash, Stop
  <2>2. app.valid => UnsavedEdits(app) \ fresh \subseteq DraftEdits(disk)
    BY <1>2, <2>1, CrashDrafts
  <2>3. DraftEdits(disk') \subseteq allowed' \cup {0}
    BY <1>2, <1>3, <2>1
  <2>4. owed' \subseteq DraftEdits(disk')
    BY <2>1, <2>2
  <2> QED  BY <2>1, <2>3, <2>4 DEF DraftsBacked
<1>8. CASE OpenApp
  <2> DEFINE x == EndOfFrame(OpenedWorld)
  <2>1. app' = x.app /\ disk' = x.disk /\ running' = TRUE /\ fresh' = {}
    BY <1>8 DEF OpenApp, OpenedWorld, Listed0, Become
  <2>2. Settled(x, {})
    BY <1>8, OpenBacked
  <2> HIDE DEF x
  <2>3. Settled([app |-> app', disk |-> disk'], fresh')
    BY <2>1, <2>2 DEF Settled
  <2> QED  BY <2>1, <2>3 DEF DraftsBacked, world
<1>9. CASE UNCHANGED vars
  BY <1>9 DEF DraftsBacked, vars, world
<1> QED  BY <1>4, <1>5, <1>6, <1>7, <1>8, <1>9 DEF Next

(* In every reachable state the snapshot backs the unsaved drafts.             *)
THEOREM DraftsBackedInvariant == Spec => []DraftsBacked
<1>1. TabsTyped /\ DraftsBacked /\ [Next]_vars => DraftsBacked'
  BY DraftsBackedNext
<1> QED  BY TabsTypedInvariant, DraftsBackedInit, <1>1, PTL DEF Spec

(* A restart brings back the drafts that were unsaved at an exit and no other,  *)
(* and after a crash between frames all but those of the last second, whatever  *)
(* was saved, closed, moved, deleted, discarded or imported before.            *)
THEOREM RestartsRestoreDrafts == Spec => RestartRestoresDrafts
<1>1. ASSUME TabsTyped, DraftsBacked, [Next]_vars, ~running, running', unreadable = {}
      PROVE  owed \subseteq Restored /\ Restored \subseteq allowed \cup {0}
  <2>1. OpenApp
    <3>1. ~TabCommand
      BY <1>1, CommandCases DEF TabsTyped, Frame
    <3> QED  BY <1>1, <3>1 DEF Next, SecondPasses, OnExit, Crash, vars
  <2> DEFINE x == EndOfFrame(OpenedWorld)
  <2>2. app' = x.app
    BY <2>1 DEF OpenApp, OpenedWorld, Listed0, Become
  <2>3. RestoredOf(x.app.open_tabs) = DraftEdits(disk)
    BY <1>1, <2>1, OpenBacked
  <2> HIDE DEF x
  <2>4. DOMAIN app'.open_tabs = 1 .. Len(app'.open_tabs)
    <3>1. TabsTyped'
      BY <1>1, TabsTypedNext
    <3>2. Typed([app |-> app', disk |-> disk'], edits')
      BY <3>1 DEF TabsTyped, world
    <3>3. app'.open_tabs \in Seq(TabE(edits'))
      BY <3>2 DEF Typed, AppE
    <3> QED  BY <3>3
  <2>5. Restored = RestoredOf(app'.open_tabs)
    BY <2>4 DEF Restored, RestoredOf
  <2> QED  BY <1>1, <2>2, <2>3, <2>5 DEF DraftsBacked
<1>2. TabsTyped /\ DraftsBacked /\ [Next]_vars
        => [~running /\ running' /\ unreadable = {} =>
              owed \subseteq Restored /\ Restored \subseteq allowed \cup {0}]_vars
  BY <1>1
<1> QED  BY TabsTypedInvariant, DraftsBackedInvariant, <1>2, PTL DEF Spec, RestartRestoresDrafts
-----------------------------------------------------------------------------
(* What looks saved is saved: a clean tab has what its file holds, and while    *)
(* there are tabs so has a clean editor that parses.                           *)
CleanTabs(tabs, files) ==
  \A i \in 1 .. Len(tabs) :
    ~tabs[i].dirty => tabs[i].path # NoPath /\ files[tabs[i].path] = tabs[i].doc
Clean(a, files) ==
  /\ CleanTabs(a.open_tabs, files)
  /\ a.open_tabs # <<>> /\ a.valid /\ ~a.dirty =>
       a.request_path # NoPath /\ files[a.request_path] = a.request

LEMMA CleanSame ==
  ASSUME NEW a, NEW files, Clean(a, files), NEW b, b.open_tabs = a.open_tabs,
         b.valid = a.valid, b.dirty = a.dirty, b.request_path = a.request_path,
         b.request = a.request
  PROVE  Clean(b, files)
BY DEF Clean

(* The tabs stay and the editor is dirty.                                      *)
LEMMA CleanDirty ==
  ASSUME NEW a, NEW files, Clean(a, files), NEW b, b.open_tabs = a.open_tabs, b.dirty = TRUE
  PROVE  Clean(b, files)
BY DEF Clean

LEMMA CleanSync ==
  ASSUME NEW E \in Nat, NEW a, TypedApp(a, E), NEW files, Clean(a, files)
  PROVE  Clean(SyncActiveTab(a), files)
<1> DEFINE b == SyncActiveTab(a)
           n == Len(a.open_tabs)
<1>1. /\ SameEditor(a, b) /\ Len(b.open_tabs) = n
      /\ (b.open_tabs = <<>> <=> a.open_tabs = <<>>)
      /\ (a.open_tabs = <<>> \/ ~a.valid => b = a)
      /\ \A i \in 1 .. n : i # a.active_tab => b.open_tabs[i] = a.open_tabs[i]
  BY SyncFacts
<1>2. a.open_tabs # <<>> /\ a.valid =>
        LET t == b.open_tabs[a.active_tab]
        IN t.path = a.request_path /\ t.doc = a.request /\ t.dirty = a.dirty
  BY SyncFacts
<1> HIDE DEF b
<1>3. CASE a.open_tabs = <<>> \/ ~a.valid
  BY <1>1, <1>3 DEF b
<1>4. CASE a.open_tabs # <<>> /\ a.valid
  <2> DEFINE t == b.open_tabs[a.active_tab]
  <2>1. t.path = a.request_path /\ t.doc = a.request /\ t.dirty = a.dirty
    BY <1>2, <1>4
  <2>2. ASSUME NEW i \in 1 .. n, ~b.open_tabs[i].dirty
        PROVE  /\ b.open_tabs[i].path # NoPath
               /\ files[b.open_tabs[i].path] = b.open_tabs[i].doc
    <3>1. CASE i = a.active_tab
      BY <1>4, <2>1, <2>2, <3>1 DEF Clean
    <3>2. CASE i # a.active_tab
      BY <1>1, <2>2, <3>2 DEF Clean, CleanTabs
    <3> QED  BY <3>1, <3>2
  <2>3. CleanTabs(b.open_tabs, files)
    BY <1>1, <2>2 DEF CleanTabs
  <2>4. Clean(b, files)
    BY <1>1, <2>3 DEF Clean, SameEditor
  <2> QED  BY <2>4 DEF b
<1> QED  BY <1>3, <1>4

LEMMA CleanPersist ==
  ASSUME NEW E \in Nat, NEW w, Typed(w, E), Clean(w.app, w.disk.files), NEW v, PersistFrom(w, v)
  PROVE  Clean(v.app, v.disk.files) /\ v.disk.files = w.disk.files
<1> DEFINE b == SyncActiveTab(w.app)
<1>1. TypedApp(w.app, E)
  BY DEF Typed
<1>2. Clean(b, w.disk.files) /\ SameEditor(w.app, b)
  BY <1>1, CleanSync, SyncFacts
<1>3. /\ v = w \/ v.app.open_tabs = b.open_tabs
      /\ SameEditor(w.app, v.app) /\ v.disk.files = w.disk.files
  BY DEF PersistFrom
<1> HIDE DEF b
<1>4. CASE v = w
  BY <1>4
<1>5. CASE v.app.open_tabs = b.open_tabs
  <2>1. /\ v.app.valid = b.valid /\ v.app.dirty = b.dirty
        /\ v.app.request_path = b.request_path /\ v.app.request = b.request
    BY <1>2, <1>3 DEF SameEditor
  <2>2. Clean(v.app, w.disk.files)
    BY <1>2, <1>5, <2>1, CleanSame
  <2> QED  BY <1>3, <2>2
<1> QED  BY <1>3, <1>4, <1>5

(* A tab that is shown: the editor is its own.                                *)
LEMMA CleanShown ==
  ASSUME NEW a, NEW files, NEW others, NEW i \in 1 .. Len(a.open_tabs), NEW b,
         Shows(a, others, i, b), CleanTabs(a.open_tabs, files)
  PROVE  Clean(b, files)
<1>1. /\ b.open_tabs = a.open_tabs /\ b.request_path = a.open_tabs[i].path
      /\ b.request = a.open_tabs[i].doc /\ b.dirty = a.open_tabs[i].dirty
  BY DEF Shows
<1> QED  BY <1>1 DEF Clean, CleanTabs

LEMMA CleanAppend ==
  ASSUME NEW S, NEW s \in Seq(S), NEW t \in S, NEW files, CleanTabs(s, files),
         ~t.dirty => t.path # NoPath /\ files[t.path] = t.doc
  PROVE  CleanTabs(Append(s, t), files)
<1> DEFINE q == Append(s, t)
<1>1. /\ Len(q) = Len(s) + 1 /\ Len(s) \in Nat /\ q[Len(s) + 1] = t
      /\ \A i \in 1 .. Len(s) : q[i] = s[i]
      /\ \A i \in 1 .. Len(q) : i \in 1 .. Len(s) \/ i = Len(s) + 1
  <2>1. /\ q \in Seq(S) /\ Len(q) = Len(s) + 1 /\ Len(s) \in Nat /\ q[Len(s) + 1] = t
        /\ \A i \in 1 .. Len(s) : q[i] = s[i]
        /\ \A i \in 1 .. Len(q) : i \in 1 .. Len(s) \/ i = Len(s) + 1
    BY AppendTabFacts
  <2> QED  BY <2>1
<1> HIDE DEF q
<1>2. CleanTabs(q, files)
  BY <1>1 DEF CleanTabs
<1> QED  BY <1>2 DEF q

(* select_request, for a listing as it stands: what it opens is from the file.  *)
LEMMA CleanSelected ==
  ASSUME NEW E \in Nat, NEW s, TypedApp(s, E), NEW files, OwnRequests(s, files),
         NEW k \in 1 .. Len(s.requests), NEW b, SelectedFrom(s, files, k, b),
         CleanTabs(s.open_tabs, files)
  PROVE  Clean(b, files)
<1>0. s \in AppE(E) /\ s.open_tabs \in Seq(TabE(E)) /\ Len(s.open_tabs) \in Nat
  BY DEF TypedApp, AppE
<1>1. CASE \E i \in 1 .. Len(s.open_tabs) :
             s.open_tabs[i].path = s.requests[k].path /\ Shows(s, files, i, b)
  <2>1. PICK i \in 1 .. Len(s.open_tabs) : Shows(s, files, i, b)
    BY <1>1
  <2> QED  BY <2>1, CleanShown
<1>2. CASE Shows(Opened(s, k), files, Len(s.open_tabs) + 1, b)
  <2> DEFINE tab == FileTab(s.selected_collection, s.requests[k])
             o == Opened(s, k)
             n == Len(s.open_tabs)
  <2>1. /\ tab \in TabE(E) /\ o.open_tabs = Append(s.open_tabs, tab)
        /\ tab.path = s.requests[k].path /\ tab.doc = s.requests[k].doc
    BY <1>0, OpenedFacts, ZenonT(30)
  <2>2. tab.path # NoPath /\ files[tab.path] = tab.doc
    BY <2>1, PathFacts DEF OwnRequests
  <2> HIDE DEF tab, o
  <2>3. CleanTabs(Append(s.open_tabs, tab), files)
    BY <1>0, <2>1, <2>2, CleanAppend
  <2>4. Len(Append(s.open_tabs, tab)) = n + 1
    BY <1>0, <2>1, AppendTabFacts
  <2>5. Shows(o, files, n + 1, b)
    BY <1>2 DEF o
  <2>6. n + 1 \in 1 .. Len(o.open_tabs) /\ CleanTabs(o.open_tabs, files)
    BY <1>0, <2>1, <2>3, <2>4
  <2> QED  BY <2>5, <2>6, CleanShown
<1> QED  BY <1>1, <1>2 DEF SelectedFrom

LEMMA CleanSelect ==
  ASSUME NEW E \in Nat, NEW w, Typed(w, E), Len(w.app.open_tabs) <= MaxTabs,
         OwnRequests(w.app, w.disk.files), Clean(w.app, w.disk.files),
         NEW k \in 1 .. Len(w.app.requests)
  PROVE  LET x == SelectEntry(w, k)
         IN Clean(x.app, x.disk.files)
<1> DEFINE v == PersistIfDirty(w)
           s == SyncActiveTab(v.app)
           x == SelectEntry(w, k)
           files == w.disk.files
<1>1. /\ x.disk = v.disk
      /\ SyncFails(w.app) => x = w
      /\ ~SyncFails(w.app) => SelectedFrom(s, v.disk.files, k, x.app)
  BY SelectEntryFacts
<1>2. Typed(v, E) /\ PersistFrom(w, v)
  BY PersistIfDirtyFacts
<1> HIDE DEF v, x
<1>3. Clean(v.app, files) /\ v.disk.files = files
  BY <1>2, CleanPersist
<1>4. TypedApp(v.app, E)
  BY <1>2 DEF Typed
<1>5. TypedApp(s, E) /\ SameEditor(v.app, s) /\ Clean(s, files)
  BY <1>3, <1>4, SyncFacts, CleanSync
<1>6. s.requests = w.app.requests /\ s.selected_collection = w.app.selected_collection
  BY <1>2, <1>5 DEF PersistFrom, SameEditor
<1> HIDE DEF s
<1>7. OwnRequests(s, files) /\ k \in 1 .. Len(s.requests)
  BY <1>6, OwnSame
<1>8. CASE SyncFails(w.app)
  BY <1>1, <1>8 DEF x
<1>9. CASE ~SyncFails(w.app)
  <2> DEFINE y == x.app
  <2>1. SelectedFrom(s, files, k, y)
    BY <1>1, <1>3, <1>9
  <2>2. CleanTabs(s.open_tabs, files)
    BY <1>5 DEF Clean
  <2> HIDE DEF y, files
  <2>3. Clean(y, files)
    BY <1>5, <1>7, <2>1, <2>2, CleanSelected
  <2> QED  BY <1>1, <1>3, <2>3 DEF y, x, files
<1> QED  BY <1>8, <1>9

LEMMA CleanDraft ==
  ASSUME NEW E \in Nat, NEW w, Typed(w, E), Len(w.app.open_tabs) <= MaxTabs,
         Clean(w.app, w.disk.files), NewDoc \in DocE(E)
  PROVE  LET x == OpenDraft(w)
         IN Clean(x.app, x.disk.files)
<1> DEFINE v == PersistIfDirty(w)
           s == SyncActiveTab(v.app)
           x == OpenDraft(w)
           tab == DraftTab(w.app.selected_collection)
           files == w.disk.files
<1>1. x.disk = v.disk /\ OpensTab(s, x.app, tab)
  BY OpenDraftFacts
<1>2. Typed(v, E) /\ PersistFrom(w, v)
  BY PersistIfDirtyFacts
<1> HIDE DEF v, x
<1>3. Clean(v.app, files) /\ v.disk.files = files
  BY <1>2, CleanPersist
<1>4. TypedApp(v.app, E)
  BY <1>2 DEF Typed
<1>5. TypedApp(s, E) /\ Clean(s, files)
  BY <1>3, <1>4, SyncFacts, CleanSync
<1> HIDE DEF s
<1>6. tab \in TabE(E) /\ tab.dirty = TRUE
  <2>1. w.app.selected_collection \in Collections
    BY DEF Typed, AppE
  <2> QED  BY <2>1 DEF DraftTab, TabE
<1> HIDE DEF tab, files
<1>7. s.open_tabs \in Seq(TabE(E)) /\ CleanTabs(s.open_tabs, files)
  BY <1>5 DEF TypedApp, AppE, Clean
<1>8. CleanTabs(Append(s.open_tabs, tab), files)
  BY <1>6, <1>7, CleanAppend
<1>9. x.app.open_tabs = Append(s.open_tabs, tab) /\ x.app.dirty = TRUE
  BY <1>1, <1>6 DEF OpensTab
<1> QED  BY <1>1, <1>3, <1>8, <1>9 DEF Clean, x

LEMMA CleanRefresh ==
  ASSUME NEW E \in Nat, NEW w, Typed(w, E), Len(w.app.open_tabs) <= MaxTabs,
         Clean(w.app, w.disk.files), NewDoc \in DocE(E), NEW preferred
  PROVE  LET x == RefreshRequests(w, preferred)
         IN Clean(x.app, x.disk.files)
<1> DEFINE v == Listing1(w)
           x == RefreshRequests(w, preferred)
<1>1. /\ Typed(v, E) /\ v.disk = w.disk
      /\ v.app.open_tabs = w.app.open_tabs /\ v.app.request_path = w.app.request_path
      /\ v.app.request = w.app.request /\ v.app.valid = w.app.valid
      /\ v.app.dirty = w.app.dirty
  BY ListedFacts
<1>2. /\ v.app.requests = <<>> => x = OpenDraft(v)
      /\ v.app.requests # <<>> => \E k \in 1 .. Len(v.app.requests) : x = SelectEntry(v, k)
  BY RefreshIs
<1>3. OwnRequests(v.app, v.disk.files)
  BY ListedOwn
<1> HIDE DEF v, x
<1>4. Clean(v.app, v.disk.files) /\ Len(v.app.open_tabs) <= MaxTabs
  BY <1>1, CleanSame
<1>5. CASE v.app.requests = <<>>
  BY <1>1, <1>2, <1>4, <1>5, CleanDraft DEF x
<1>6. CASE v.app.requests # <<>>
  <2>1. PICK k \in 1 .. Len(v.app.requests) : x = SelectEntry(v, k)
    BY <1>2, <1>6
  <2> QED  BY <1>1, <1>3, <1>4, <2>1, CleanSelect DEF x
<1> QED  BY <1>5, <1>6

LEMMA CleanEnd ==
  ASSUME NEW E \in Nat, NEW w, Typed(w, E), Len(w.app.open_tabs) <= MaxTabs,
         Clean(w.app, w.disk.files)
  PROVE  LET x == EndOfFrame(w)
         IN Clean(x.app, x.disk.files)
<1> DEFINE u == [w EXCEPT !.app = SyncActiveTab(@)]
           v == SaveTabsSettings(u)
           b == SyncActiveTab(u.app)
           files == w.disk.files
<1>1. Typed(u, E) /\ u.app = SyncActiveTab(w.app) /\ u.disk = w.disk
  BY SyncTyped
<1>2. TypedApp(w.app, E)
  BY DEF Typed
<1>3. EndOfFrame(w) = IF RecoveryDue(v) THEN PersistRecovery(v) ELSE v
  BY DEF EndOfFrame
<1> HIDE DEF u
<1>4. Clean(u.app, files) /\ Len(u.app.open_tabs) = Len(w.app.open_tabs) /\ TypedApp(u.app, E)
  BY <1>1, <1>2, CleanSync, SyncFacts
<1>5. /\ Clean(b, files) /\ SameEditor(u.app, b) /\ Len(b.open_tabs) = Len(u.app.open_tabs)
  BY <1>4, CleanSync, SyncFacts
<1>6. /\ Typed(v, E) /\ SameEditor(u.app, v.app)
      /\ v.app.open_tabs \in {u.app.open_tabs, b.open_tabs}
      /\ v.disk.files = u.disk.files
  BY <1>1, SaveTabsFacts
<1> HIDE DEF v, b
<1>7. Clean(v.app, files)
  <2>1. /\ v.app.valid = u.app.valid /\ v.app.dirty = u.app.dirty
        /\ v.app.request_path = u.app.request_path /\ v.app.request = u.app.request
        /\ b.valid = u.app.valid /\ b.dirty = u.app.dirty
        /\ b.request_path = u.app.request_path /\ b.request = u.app.request
    BY <1>5, <1>6 DEF SameEditor
  <2>2. CASE v.app.open_tabs = u.app.open_tabs
    BY <1>4, <2>1, <2>2, CleanSame
  <2>3. CASE v.app.open_tabs = b.open_tabs
    BY <1>5, <2>1, <2>3, CleanSame
  <2> QED  BY <1>6, <2>2, <2>3
<1>8. Len(v.app.open_tabs) <= MaxTabs /\ v.disk.files = files
  BY <1>1, <1>4, <1>5, <1>6
<1>9. PersistFrom(v, PersistRecovery(v))
  BY <1>6, <1>8, PersistFacts
<1>10. LET x == PersistRecovery(v) IN Clean(x.app, x.disk.files)
  BY <1>6, <1>7, <1>8, <1>9, CleanPersist
<1> QED  BY <1>3, <1>7, <1>8, <1>10


LEMMA CleanSwitch ==
  ASSUME NEW E \in Nat, Whole(world, E), Clean(app, disk.files), NEW i \in DOMAIN app.open_tabs
  PROVE  LET x == SwitchWorld(i)
         IN Clean(x.app, x.disk.files)
<1> DEFINE v == PersistIfDirty(world)
           s == SyncActiveTab(v.app)
           x == SwitchWorld(i)
<1>1. /\ SyncFails(app) => x = world
      /\ ~SyncFails(app) => x.disk = v.disk /\ Shows(s, disk.files, i, x.app)
  <2>1. /\ Whole(x, E)
        /\ SyncFails(app) => x = world
        /\ ~SyncFails(app) => x.disk = v.disk /\ Shows(s, disk.files, i, x.app)
    BY SwitchWhole
  <2> QED  BY <2>1
<1>2. /\ Typed(world, E) /\ Len(world.app.open_tabs) <= MaxTabs /\ world.app = app
      /\ world.disk = disk /\ DOMAIN app.open_tabs = 1 .. Len(app.open_tabs)
  BY WholeFacts, WorldIs
<1>3. Typed(v, E) /\ PersistFrom(world, v) /\ Len(v.app.open_tabs) = Len(app.open_tabs)
  BY <1>2, PersistIfDirtyFacts
<1> HIDE DEF v, x
<1>4. Clean(v.app, disk.files) /\ v.disk.files = disk.files
  BY <1>2, <1>3, CleanPersist
<1>5. TypedApp(v.app, E)
  BY <1>3 DEF Typed
<1>6. CleanTabs(s.open_tabs, disk.files) /\ Len(s.open_tabs) = Len(v.app.open_tabs)
  BY <1>4, <1>5, CleanSync, SyncFacts DEF Clean
<1> HIDE DEF s
<1>7. CASE SyncFails(app)
  BY <1>1, <1>2, <1>7 DEF x
<1>8. CASE ~SyncFails(app)
  <2>1. i \in 1 .. Len(s.open_tabs) /\ Shows(s, disk.files, i, x.app) /\ x.disk = v.disk
    BY <1>1, <1>2, <1>3, <1>6, <1>8
  <2>2. Clean(x.app, disk.files)
    BY <1>6, <2>1, CleanShown
  <2> QED  BY <1>4, <2>1, <2>2 DEF x
<1> QED  BY <1>7, <1>8

LEMMA CleanFresh ==
  ASSUME NEW a, NEW b, FreshDraft(a, b), NEW files
  PROVE  Clean(b, files)
<1> DEFINE tabs == b.open_tabs
<1>1. b.open_tabs = <<DraftTab(a.selected_collection)>> /\ b.dirty = TRUE
  BY DEF FreshDraft
<1>2. Len(tabs) = 1 /\ tabs[1].dirty = TRUE
  BY <1>1 DEF DraftTab
<1> HIDE DEF tabs
<1>3. CleanTabs(tabs, files)
  BY <1>2 DEF CleanTabs
<1> QED  BY <1>1, <1>3 DEF Clean, tabs

(* Some of the tabs, in whatever order.                                        *)
LEMMA CleanSome ==
  ASSUME NEW s, NEW files, CleanTabs(s, files), NEW t,
         \A j \in 1 .. Len(t) : \E k \in 1 .. Len(s) : t[j] = s[k]
  PROVE  CleanTabs(t, files)
BY DEF CleanTabs

LEMMA CleanClose ==
  ASSUME NEW E \in Nat, Whole(world, E), Clean(app, disk.files), NEW i \in DOMAIN app.open_tabs,
         RemoveAt(app.open_tabs, i) = <<>> => NewDoc \in DocE(E)
  PROVE  LET x == CloseWorld(i)
         IN Clean(x.app, x.disk.files)
<1> DEFINE x == CloseWorld(i)
           s == app.open_tabs
           rest == RemoveAt(s, i)
           a == [app EXCEPT !.open_tabs = rest]
<1>1. /\ x.disk = disk
      /\ rest = <<>> => FreshDraft(app, x.app)
      /\ rest # <<>> => \E next \in 1 .. Len(rest) : Shows(a, disk.files, next, x.app)
  BY CloseWhole
<1>2. s \in Seq(TabE(E)) /\ i \in 1 .. Len(s) /\ app \in AppE(E)
  BY WholeFacts, WorldIs
<1>3. /\ rest \in Seq(TabE(E)) /\ Len(rest) = Len(s) - 1 /\ Len(s) \in Nat
      /\ \A j \in 1 .. Len(rest) : rest[j] = IF j < i THEN s[j] ELSE s[j + 1]
  BY <1>2, RemoveAtFacts
<1>4. a.open_tabs = rest
  BY <1>2, <1>3 DEF AppE
<1> HIDE DEF x, rest, a
<1>5. CleanTabs(rest, disk.files)
  <2>1. \A j \in 1 .. Len(rest) : \E k \in 1 .. Len(s) : rest[j] = s[k]
    <3> SUFFICES ASSUME NEW j \in 1 .. Len(rest) PROVE \E k \in 1 .. Len(s) : rest[j] = s[k]
      OBVIOUS
    <3>1. CASE j < i
      BY <1>3, <3>1
    <3>2. CASE ~(j < i)
      BY <1>3, <3>2
    <3> QED  BY <3>1, <3>2
  <2> QED  BY <2>1, CleanSome DEF Clean
<1>6. CASE rest = <<>>
  BY <1>1, <1>6, CleanFresh DEF x
<1>7. CASE rest # <<>>
  <2>1. PICK next \in 1 .. Len(rest) : Shows(a, disk.files, next, x.app)
    BY <1>1, <1>7
  <2>2. Clean(x.app, disk.files)
    BY <1>4, <1>5, <2>1, CleanShown
  <2> QED  BY <1>1, <2>2 DEF x
<1> QED  BY <1>6, <1>7

LEMMA CleanCloseOthers ==
  ASSUME NEW E \in Nat, Whole(world, E), Clean(app, disk.files), Len(app.open_tabs) > 1
  PROVE  LET x == CloseOthersWorld
         IN Clean(x.app, x.disk.files)
<1> DEFINE x == CloseOthersWorld
           p == app.active_tab
           tabs == <<app.open_tabs[p]>>
<1>1. /\ x.disk = disk /\ Rearranged(app, x.app) /\ x.app.open_tabs = tabs
  BY CloseOthersWhole
<1>2. /\ app.open_tabs # <<>> /\ p \in 1 .. Len(app.open_tabs)
  <2>1. app.open_tabs # <<>>
    OBVIOUS
  <2> QED  BY <2>1, WholeFacts, WorldIs
<1>3. Len(tabs) = 1 /\ tabs[1] = app.open_tabs[p]
  OBVIOUS
<1> HIDE DEF x, tabs
<1>4. \A j \in 1 .. Len(tabs) : \E k \in 1 .. Len(app.open_tabs) : tabs[j] = app.open_tabs[k]
  BY <1>2, <1>3
<1>5. CleanTabs(tabs, disk.files)
  BY <1>4, CleanSome DEF Clean
<1>6. /\ x.app.dirty = app.dirty /\ x.app.request = app.request /\ x.app.valid = app.valid
      /\ x.app.request_path = app.request_path
  BY <1>1 DEF Rearranged
<1> QED  BY <1>1, <1>2, <1>5, <1>6 DEF Clean, x

LEMMA CleanMove ==
  ASSUME NEW E \in Nat, Whole(world, E), Clean(app, disk.files),
         NEW target \in DOMAIN app.open_tabs
  PROVE  LET x == MoveWorld(target)
         IN Clean(x.app, x.disk.files)
<1> DEFINE x == MoveWorld(target)
           p == app.active_tab
           n == Len(app.open_tabs)
           tabs == x.app.open_tabs
<1>1. /\ x.disk = disk /\ Rearranged(app, x.app) /\ Len(tabs) = n /\ p \in 1 .. n
      /\ \A i \in 1 .. n :
           tabs[i] = IF i = target THEN app.open_tabs[p]
                     ELSE IF i = p THEN app.open_tabs[target] ELSE app.open_tabs[i]
  BY MoveWhole
<1>2. target \in 1 .. n /\ n \in Nat
  BY WholeFacts, WorldIs
<1> HIDE DEF x
<1>3. \A i \in 1 .. n : \E j \in 1 .. n : tabs[i] = app.open_tabs[j]
  BY <1>1, <1>2
<1> HIDE DEF tabs
<1>4. CleanTabs(tabs, disk.files)
  <2>1. \A i \in 1 .. Len(tabs) : \E j \in 1 .. Len(app.open_tabs) : tabs[i] = app.open_tabs[j]
    BY <1>1, <1>3
  <2>2. CleanTabs(app.open_tabs, disk.files)
    BY DEF Clean
  <2> QED  BY <2>1, <2>2, CleanSome
<1>5. /\ x.app.dirty = app.dirty /\ x.app.request = app.request /\ x.app.valid = app.valid
      /\ x.app.request_path = app.request_path
  BY <1>1 DEF Rearranged
<1>6. app.open_tabs # <<>>
  BY <1>2
<1> QED  BY <1>1, <1>4, <1>5, <1>6 DEF Clean, x, tabs

LEMMA CleanCollection ==
  ASSUME NEW E \in Nat, Whole(world, E), Clean(app, disk.files), unreadable = {},
         NEW c \in Collections, NewDoc \in DocE(E), NEW preferred
  PROVE  LET x == RefreshRequests(SelectedWorld(c), preferred)
             y == CollectionWorld(c)
         IN Clean(x.app, x.disk.files) /\ Clean(y.app, y.disk.files)
<1> DEFINE w == SelectedWorld(c)
<1>1. Whole(w, E) /\ w.disk = disk /\ Turned(app, w.app, c)
  BY SelectedWhole
<1> HIDE DEF w
<1>2. Clean(w.app, w.disk.files)
  BY <1>1, CleanSame DEF Turned
<1>3. Typed(w, E) /\ Len(w.app.open_tabs) <= MaxTabs
  BY <1>1 DEF Whole
<1>4. \A p : LET x == RefreshRequests(w, p) IN Clean(x.app, x.disk.files)
  BY <1>2, <1>3, CleanRefresh
<1>5. ~RefreshFails(w)
  BY DEF RefreshFails
<1> QED  BY <1>4, <1>5 DEF CollectionWorld, w

LEMMA CleanHistory ==
  ASSUME NEW E \in Nat, Whole(world, E), Clean(app, disk.files), NEW id \in Ids,
         Found(id) # {}
  PROVE  LET x == HistoryWorld(id)
         IN Clean(x.app, x.disk.files)
<1> DEFINE l == HistoryListing(id)
           k == Min({j \in DOMAIN l : l[j].doc.id = id})
           c == HistoryCollection(id)
           w == ListedWorld(id)
<1>1. /\ c \in Collections /\ Whole(w, E) /\ w.disk = disk /\ w.app.requests = l
      /\ w.app.selected_collection = c /\ w.app.open_tabs = app.open_tabs
      /\ w.app.request_path = app.request_path /\ w.app.request = app.request
      /\ w.app.valid = app.valid /\ w.app.dirty = app.dirty /\ k \in 1 .. Len(l)
  BY HistoryFacts
<1>2. disk.files \in [Path -> DocE(E) \cup {NoDoc}]
  BY WholeFacts, WorldIs
<1>3. l = Listing(disk.files, c)
  BY DEF HistoryListing
<1> HIDE DEF w, c
<1>4. OwnRequests(w.app, w.disk.files)
  <2>1. \A j \in 1 .. Len(Listing(disk.files, c)) :
          LET e == Listing(disk.files, c)[j]
          IN e.path \in Path /\ e.path[1] = c /\ disk.files[e.path] = e.doc /\ e.doc # NoDoc
    BY <1>1, <1>2, ListingFacts
  <2> QED  BY <1>1, <1>3, <2>1 DEF OwnRequests
<1> HIDE DEF l, k
<1>5. Clean(w.app, w.disk.files)
  BY <1>1, CleanSame
<1>6. k \in 1 .. Len(w.app.requests) /\ Typed(w, E) /\ Len(w.app.open_tabs) <= MaxTabs
  BY <1>1 DEF Whole
<1>7. LET x == SelectEntry(w, k) IN Clean(x.app, x.disk.files)
  BY <1>4, <1>5, <1>6, CleanSelect
<1>8. HistoryWorld(id) = SelectEntry(w, k)
  BY DEF HistoryWorld, w, k, l
<1> QED  BY <1>7, <1>8


LEMMA CleanSaved ==
  ASSUME NEW E \in Nat, Whole(world, E), Placed(world), Clean(app, disk.files), app.valid,
         NEW p \in Targets(app.selected_collection, app.request_path)
  PROVE  LET v == SavedWorld(p) IN Clean(v.app, v.disk.files)
<1> DEFINE v == SavedWorld(p)
           b == [Saved(app) EXCEPT !.request_path = p, !.dirty = FALSE,
                                   !.recovery_restored = FALSE]
           t == SyncActiveTab(b)
           files == v.disk.files
           m == app.active_tab
           n == Len(app.open_tabs)
<1>1. p \in Path /\ p # NoPath
  BY PathFacts DEF Targets
<1>2. /\ Whole(v, E) /\ TypedApp(b, E) /\ SaveFrom(app, b, p) /\ SameButSaved(t, v.app)
      /\ files = [q \in Path |-> IF q = p THEN app.request
                                 ELSE IF q = app.request_path THEN NoDoc ELSE disk.files[q]]
  BY <1>1, SavedWhole
<1> HIDE DEF v, b
<1>3. /\ b.open_tabs = app.open_tabs /\ b.active_tab = m /\ b.request_path = p
      /\ b.request = app.request /\ b.valid /\ b.dirty = FALSE
  BY <1>2 DEF SaveFrom
<1>4. /\ SameEditor(b, t) /\ Len(t.open_tabs) = n
      /\ \A i \in 1 .. n : i # m => t.open_tabs[i] = app.open_tabs[i]
      /\ app.open_tabs # <<>> => LET k == t.open_tabs[m] IN k.path = p /\ k.doc = app.request
  BY <1>2, <1>3, SyncFacts
<1>5. /\ files[p] = app.request
      /\ \A q \in Path : q # p /\ q # app.request_path => files[q] = disk.files[q]
  BY <1>1, <1>2
<1> HIDE DEF t, files
<1>6. ASSUME NEW i \in 1 .. n, ~t.open_tabs[i].dirty
      PROVE  t.open_tabs[i].path # NoPath /\ files[t.open_tabs[i].path] = t.open_tabs[i].doc
  <2>1. app.open_tabs # <<>>
    OBVIOUS
  <2>2. CASE i = m
    BY <1>1, <1>4, <1>5, <2>1, <2>2
  <2>3. CASE i # m
    <3> DEFINE k == app.open_tabs[i]
    <3>1. t.open_tabs[i] = k
      BY <1>4, <2>3
    <3>2. k.path # NoPath /\ disk.files[k.path] = k.doc
      BY <1>6, <3>1 DEF Clean, CleanTabs
    <3>3. k.path \in Path /\ k.path # p /\ k.path # app.request_path
      BY <2>1, <2>3, <3>2, OtherFiles
    <3> QED  BY <1>5, <3>1, <3>2, <3>3
  <2> QED  BY <2>2, <2>3
<1>7. CleanTabs(v.app.open_tabs, files)
  <2>1. v.app.open_tabs = t.open_tabs
    BY <1>2 DEF SameButSaved
  <2> QED  BY <1>4, <1>6, <2>1 DEF CleanTabs
<1>8. v.app.request_path = p /\ v.app.request = app.request
  BY <1>2, <1>3, <1>4 DEF SameButSaved, SameEditor
<1> QED  BY <1>1, <1>5, <1>7, <1>8 DEF Clean, v, files

LEMMA CleanSave ==
  ASSUME NEW E \in Nat, Whole(world, E), Placed(world), Clean(app, disk.files), app.valid,
         unreadable = {}, NEW p \in Targets(app.selected_collection, app.request_path),
         NewDoc \in DocE(E)
  PROVE  LET x == SaveWorld(p) IN Clean(x.app, x.disk.files)
<1> DEFINE v == SavedWorld(p)
           x == RefreshRequests(v, p)
<1>1. Whole(v, E) /\ Clean(v.app, v.disk.files)
  BY CleanSaved, SavedWhole DEF Targets
<1> HIDE DEF v
<1>2. Clean(x.app, x.disk.files)
  BY <1>1, CleanRefresh DEF Whole
<1>3. ~RefreshFails(v)
  BY DEF RefreshFails
<1>4. SaveWorld(p) \in {world, x}
  BY <1>3 DEF SaveWorld, v
<1> HIDE DEF x
<1> QED  BY <1>2, <1>4, WorldIs

LEMMA CleanDiscard ==
  ASSUME NEW E \in Nat, Whole(world, E), Clean(app, disk.files), NewDoc \in DocE(E)
  PROVE  LET x == DiscardWorld IN Clean(x.app, x.disk.files)
<1> DEFINE x == DiscardWorld
           rest == TabsKept
           tabs == app.open_tabs
           ks == {i \in DOMAIN app.open_tabs : ~app.open_tabs[i].recovered}
           n == Len(tabs)
<1>1. x.disk.files = disk.files /\ rest \in Seq(TabE(E))
  BY DiscardWhole
<1>2. \E left : /\ KeptFrom(app, left)
                /\ rest = <<>> => FreshDraft(left, x.app)
                /\ rest # <<>> =>
                     \E next \in 1 .. Len(rest) : Shows(left, disk.files, next, x.app)
  BY DiscardWhole
<1> HIDE DEF x
<1>3. tabs \in Seq(TabE(E)) /\ n \in Nat /\ DOMAIN tabs = 1 .. n
  BY WholeFacts, WorldIs
<1>4. CleanTabs(rest, disk.files)
  <2>1. \A i \in ks : i \in 1 .. n
    BY <1>3
  <2>2. rest = Picked(tabs, ks)
    BY DEF TabsKept
  <2>3. CleanTabs(tabs, disk.files)
    BY DEF Clean
  <2> HIDE DEF ks, rest, tabs, n
  <2>4. \A k \in 1 .. Cardinality(ks) : Nth(ks, k) \in ks /\ Picked(tabs, ks)[k] = tabs[Nth(ks, k)]
    BY <1>3, <2>1, PickedFacts
  <2>5. Len(rest) = Cardinality(ks)
    <3>1. DOMAIN rest = 1 .. Cardinality(ks) /\ Cardinality(ks) \in Nat
      BY <1>3, <2>1, <2>2, PickedFacts
    <3>2. DOMAIN rest = 1 .. Len(rest) /\ Len(rest) \in Nat
      BY <1>1
    <3> QED  BY <3>1, <3>2
  <2>6. \A k \in 1 .. Len(rest) : \E i \in 1 .. Len(tabs) : rest[k] = tabs[i]
    BY <2>1, <2>2, <2>4, <2>5 DEF n
  <2> QED  BY <2>3, <2>6, CleanSome
<1>5. PICK left : /\ KeptFrom(app, left)
                  /\ rest = <<>> => FreshDraft(left, x.app)
                  /\ rest # <<>> =>
                       \E next \in 1 .. Len(rest) : Shows(left, disk.files, next, x.app)
  BY <1>2
<1>6. left.open_tabs = rest
  BY <1>5 DEF KeptFrom
<1> HIDE DEF rest
<1>7. CASE rest = <<>>
  BY <1>1, <1>5, <1>7, CleanFresh DEF x
<1>8. CASE rest # <<>>
  <2>1. PICK next \in 1 .. Len(rest) : Shows(left, disk.files, next, x.app)
    BY <1>5, <1>8
  <2>2. Clean(x.app, disk.files)
    BY <1>4, <1>6, <2>1, CleanShown
  <2> QED  BY <1>1, <2>2 DEF x
<1> QED  BY <1>7, <1>8


(* Neither the editor nor a tab shows the file p.                              *)
Avoids(a, p) ==
  a.request_path # p /\ \A i \in 1 .. Len(a.open_tabs) : a.open_tabs[i].path # p

LEMMA AvoidsSync ==
  ASSUME NEW E \in Nat, NEW a, TypedApp(a, E), NEW p, Avoids(a, p)
  PROVE  Avoids(SyncActiveTab(a), p)
<1> DEFINE b == SyncActiveTab(a)
           n == Len(a.open_tabs)
<1>1. /\ SameEditor(a, b) /\ Len(b.open_tabs) = n
      /\ (a.open_tabs = <<>> \/ ~a.valid => b = a)
      /\ \A i \in 1 .. n : i # a.active_tab => b.open_tabs[i] = a.open_tabs[i]
      /\ a.open_tabs # <<>> /\ a.valid => b.open_tabs[a.active_tab].path = a.request_path
  BY SyncFacts
<1> HIDE DEF b
<1>2. CASE a.open_tabs = <<>> \/ ~a.valid
  BY <1>1, <1>2 DEF b
<1>3. CASE a.open_tabs # <<>> /\ a.valid
  <2>1. \A i \in 1 .. n : b.open_tabs[i].path # p
    BY <1>1, <1>3 DEF Avoids
  <2>2. b.request_path # p
    BY <1>1 DEF Avoids, SameEditor
  <2> QED  BY <1>1, <2>1, <2>2 DEF Avoids, b
<1> QED  BY <1>2, <1>3

LEMMA AvoidsPersist ==
  ASSUME NEW E \in Nat, NEW w, Typed(w, E), NEW p, Avoids(w.app, p), NEW v, PersistFrom(w, v)
  PROVE  Avoids(v.app, p)
<1> DEFINE b == SyncActiveTab(w.app)
<1>1. TypedApp(w.app, E)
  BY DEF Typed
<1>2. Avoids(b, p)
  BY <1>1, AvoidsSync
<1>3. SameEditor(w.app, v.app) /\ (v = w \/ v.app.open_tabs = b.open_tabs)
  BY DEF PersistFrom
<1> HIDE DEF b
<1>4. CASE v = w
  BY <1>4
<1>5. CASE v.app.open_tabs = b.open_tabs
  BY <1>2, <1>3, <1>5 DEF Avoids, SameEditor
<1> QED  BY <1>3, <1>4, <1>5

(* A file that no tab shows and that is in the listing is what a refresh opens. *)
LEMMA RefreshOpens ==
  ASSUME NEW E \in Nat, NEW w, Typed(w, E), Len(w.app.open_tabs) <= MaxTabs, w.app.valid,
         NEW p \in Path, p[1] = w.app.selected_collection, w.disk.files[p] # NoDoc,
         Avoids(w.app, p)
  PROVE  LET v == RefreshRequests(w, p)
         IN /\ v.app.request_path = p /\ v.app.request = w.disk.files[p]
            /\ v.disk.files = w.disk.files
<1> DEFINE u == Listing1(w)
           v == RefreshRequests(w, p)
           l == u.app.requests
           r == PersistIfDirty(u)
           s == SyncActiveTab(r.app)
           files == w.disk.files
           c == w.app.selected_collection
<1>1. /\ Typed(u, E) /\ u.disk = w.disk /\ l = Listing(files, c)
      /\ u.app.open_tabs = w.app.open_tabs /\ u.app.request_path = w.app.request_path
      /\ u.app.valid /\ l \in Seq(EntryE(E)) /\ u.app.selected_collection = c
  BY ListedFacts
<1>2. l # <<>> => \E k \in 1 .. Len(l) : /\ v = SelectEntry(u, k)
                                         /\ Positions(l, p) # {} => l[k].path = p
  BY RefreshIs
<1>3. OwnRequests(u.app, files)
  BY <1>1, ListedOwn
<1> HIDE DEF u, v
<1>4. Positions(l, p) # {} /\ l # <<>>
  <2>1. files \in [Path -> DocE(E) \cup {NoDoc}] /\ c \in Collections
    BY DEF Typed, AppE, DiskE
  <2>2. \E k \in 1 .. Len(Listing(files, c)) : Listing(files, c)[k].path = p
    BY <2>1, ListingFacts
  <2> HIDE DEF l, files, c
  <2>3. PICK k \in 1 .. Len(l) : l[k].path = p
    BY <1>1, <2>2
  <2>4. k \in Positions(l, p)
    BY <1>1, <2>3 DEF Positions
  <2> QED  BY <2>3, <2>4
<1>5. PICK k \in 1 .. Len(l) : v = SelectEntry(u, k) /\ l[k].path = p
  BY <1>2, <1>4
<1>6. Typed(r, E) /\ PersistFrom(u, r) /\ Len(u.app.open_tabs) <= MaxTabs
  BY <1>1, PersistIfDirtyFacts
<1>7. SelectedFrom(s, r.disk.files, k, v.app) /\ v.disk = r.disk
  <2>1. ~SyncFails(u.app)
    BY <1>1 DEF SyncFails
  <2> QED  BY <1>1, <1>5, <1>6, <2>1, SelectEntryFacts
<1> HIDE DEF r
<1>8. Avoids(u.app, p)
  BY <1>1 DEF Avoids
<1>9. Avoids(r.app, p)
  BY <1>1, <1>6, <1>8, AvoidsPersist
<1>10. TypedApp(r.app, E)
  BY <1>6 DEF Typed
<1>11. Avoids(s, p) /\ TypedApp(s, E) /\ SameEditor(r.app, s)
  BY <1>9, <1>10, AvoidsSync, SyncFacts
<1> HIDE DEF s
<1>12. s.requests = l /\ r.disk.files = files /\ l[k].doc = files[p]
  BY <1>1, <1>3, <1>5, <1>6, <1>11 DEF PersistFrom, SameEditor, OwnRequests
<1> DEFINE o == Opened(s, k)
           n == Len(s.open_tabs)
           tab == FileTab(s.selected_collection, s.requests[k])
<1>13. Shows(o, files, n + 1, v.app)
  BY <1>5, <1>7, <1>11, <1>12 DEF SelectedFrom, Avoids
<1>14. s \in AppE(E) /\ s.open_tabs \in Seq(TabE(E))
  BY <1>11 DEF TypedApp, AppE
<1>15. k \in 1 .. Len(s.requests)
  BY <1>12
<1>16. /\ tab \in TabE(E) /\ o.open_tabs = Append(s.open_tabs, tab)
       /\ tab.path = s.requests[k].path /\ tab.doc = s.requests[k].doc
  BY <1>14, <1>15, OpenedFacts, ZenonT(30)
<1> HIDE DEF tab, o
<1>17. o.open_tabs[n + 1] = tab
  BY <1>14, <1>16, AppendTabFacts
<1>18. v.app.request_path = p /\ v.app.request = files[p]
  BY <1>5, <1>12, <1>13, <1>16, <1>17 DEF Shows
<1> QED  BY <1>7, <1>12, <1>18 DEF v

LEMMA CleanDuplicate ==
  ASSUME NEW E \in Nat, Whole(world, E), Placed(world), Clean(app, disk.files), app.valid,
         unreadable = {}, NEW p \in Targets(app.selected_collection, NoPath),
         NewDoc \in DocE(E), Len(app.open_tabs) < MaxTabs
  PROVE  LET x == DuplicateWorld(p) IN Clean(x.app, x.disk.files)
<1> DEFINE w == CopiedWorld(p)
           v == RefreshRequests(w, p)
           b == [Saved(v.app) EXCEPT !.dirty = FALSE, !.recovery_restored = FALSE]
           x == SettingsChanged(RemoveRecovery([v EXCEPT !.app = SyncActiveTab(b)]))
           copy == [NewDoc EXCEPT !.edit = app.request.edit]
           files == w.disk.files
<1>1. /\ p \in Path /\ p # NoPath /\ p[1] = app.selected_collection /\ disk.files[p] = NoDoc
  BY PathFacts DEF Targets
<1>2. /\ Whole(w, E) /\ w.app = app /\ files = [disk.files EXCEPT ![p] = copy]
      /\ copy \in DocE(E)
  BY <1>1, CopiedWhole
<1>3. /\ disk.files \in [Path -> DocE(E) \cup {NoDoc}] /\ world.app = app /\ world.disk = disk
      /\ app.open_tabs \in Seq(TabE(E)) /\ app.request \in DocE(E)
      /\ Len(app.open_tabs) <= MaxTabs /\ Typed(world, E)
  BY WholeFacts, WorldIs
<1> HIDE DEF w, copy, files
<1>4. Avoids(app, p)
  <2>1. FiledTabs(app.open_tabs, disk.files) /\ Tied(app)
    BY <1>3 DEF Placed
  <2>2. \A i \in 1 .. Len(app.open_tabs) : app.open_tabs[i].path # p
    BY <1>1, <2>1 DEF FiledTabs
  <2>3. app.request_path # p
    <3>1. app.open_tabs # <<>> => app.active_tab \in 1 .. Len(app.open_tabs)
      BY WholeFacts, WorldIs
    <3> QED  BY <1>1, <2>1, <2>2, <3>1 DEF Tied
  <2> QED  BY <2>2, <2>3 DEF Avoids
<1>5. files[p] = copy /\ files[p] # NoDoc /\ \A q \in Path : q # p => files[q] = disk.files[q]
  BY <1>1, <1>2, <1>3, NoDocFacts
<1>6. Clean(app, files)
  <2>1. ASSUME NEW i \in 1 .. Len(app.open_tabs), ~app.open_tabs[i].dirty
        PROVE  /\ app.open_tabs[i].path # NoPath
               /\ files[app.open_tabs[i].path] = app.open_tabs[i].doc
    <3>1. app.open_tabs[i] \in TabE(E)
      BY <1>3
    <3>2. app.open_tabs[i].path \in Path \cup {NoPath} /\ app.open_tabs[i].path # p
      BY <1>4, <3>1 DEF TabE, Avoids
    <3> QED  BY <1>5, <2>1, <3>2 DEF Clean, CleanTabs
  <2>2. app.request_path \in Path \cup {NoPath} /\ app.request_path # p
    BY <1>3, <1>4 DEF Typed, AppE, Avoids
  <2> QED  BY <1>5, <2>1, <2>2 DEF Clean, CleanTabs
<1>7. Typed(w, E) /\ Len(w.app.open_tabs) <= MaxTabs
  BY <1>2 DEF Whole
<1>8. /\ v.app.request_path = p /\ v.app.request = copy /\ v.disk.files = files
      /\ Clean(v.app, files) /\ Whole(v, E)
  <2>1. /\ v.app.request_path = p /\ v.app.request = w.disk.files[p]
        /\ v.disk.files = w.disk.files
    BY <1>1, <1>2, <1>4, <1>5, <1>7, RefreshOpens DEF files
  <2>2. Clean(w.app, w.disk.files)
    BY <1>2, <1>6 DEF files
  <2>3. Clean(v.app, v.disk.files)
    BY <1>7, <2>2, CleanRefresh
  <2>4. Whole(v, E)
    BY <1>2, <1>7, WholeRefresh
  <2> HIDE DEF v
  <2> QED  BY <1>5, <2>1, <2>3, <2>4 DEF files
<1> HIDE DEF v
<1>9. /\ TypedApp(b, E) /\ SaveFrom(v.app, b, v.app.request_path)
      /\ SameButSaved(SyncActiveTab(b), x.app) /\ x.disk.files = v.disk.files
  BY <1>8, DuplicatedFacts
<1> HIDE DEF b, x
<1>10. Clean(b, files)
  BY <1>1, <1>5, <1>8, <1>9 DEF Clean, SaveFrom
<1> DEFINE s == SyncActiveTab(b)
<1>11. Clean(s, files)
  BY <1>9, <1>10, CleanSync
<1> HIDE DEF s
<1>12. Clean(x.app, files)
  BY <1>9, <1>11, CleanSame DEF SameButSaved, SameEditor, s
<1>13. ~RefreshFails(w)
  BY DEF RefreshFails
<1>14. DuplicateWorld(p) = x
  BY <1>13 DEF DuplicateWorld, x, b, v, w
<1> QED  BY <1>8, <1>9, <1>12, <1>14


(* What no deletion does leaves a clean tab clean.                             *)
LEMMA CleanGives ==
  ASSUME edits \in Nat, Whole(world, edits), Placed(world), Clean(app, disk.files),
         unreadable = {}, NEW w, Leaves(w) \/ Imports(w) \/ Edits(w)
  PROVE  Clean(w.app, w.disk.files)
<1> DEFINE E == edits
<1>0. E \in Nat /\ Whole(world, E)
  OBVIOUS
<1>1. MayCreate => NewDoc \in DocE(E) /\ Len(app.open_tabs) < MaxTabs
  BY <1>0, NewDocFacts DEF MayCreate
<1> HIDE DEF E
<1>9. /\ Typed(world, E) /\ Len(world.app.open_tabs) <= MaxTabs
      /\ world.app = app /\ world.disk = disk
  BY <1>0, WholeFacts, WorldIs
<1>3. ASSUME Leaves(w) PROVE Clean(w.app, w.disk.files)
  <2>1. CASE w = world
    BY <1>9, <2>1
  <2>2. CASE \E i \in 1 .. MaxTabs : i \in DOMAIN app.open_tabs /\ i # app.active_tab /\ w = SwitchWorld(i)
    BY <1>0, <2>2, CleanSwitch
  <2>3. CASE \E i \in 1 .. MaxTabs :
               /\ i \in DOMAIN app.open_tabs /\ ~app.open_tabs[i].dirty
               /\ RemoveAt(app.open_tabs, i) = <<>> => MayCreate
               /\ w = CloseWorld(i)
    BY <1>0, <1>1, <2>3, CleanClose
  <2>4. CASE /\ Len(app.open_tabs) > 1
             /\ \A i \in DOMAIN app.open_tabs : i # app.active_tab => ~app.open_tabs[i].dirty
             /\ w = CloseOthersWorld
    BY <1>0, <2>4, CleanCloseOthers
  <2>5. CASE \E t \in 1 .. MaxTabs :
               /\ t \in DOMAIN app.open_tabs /\ t \in {app.active_tab - 1, app.active_tab + 1}
               /\ w = MoveWorld(t)
    BY <1>0, <2>5, CleanMove
  <2>6. CASE MayCreate /\ w = OpenDraft(world)
    BY <1>0, <1>1, <1>9, <2>6, CleanDraft
  <2>7. CASE \E k \in 1 .. MaxFiles :
               k \in DOMAIN app.requests /\ Len(app.open_tabs) < MaxTabs /\ w = SelectEntry(world, k)
    <3>1. PICK k \in DOMAIN app.requests : w = SelectEntry(world, k)
      BY <2>7
    <3>2. k \in 1 .. Len(world.app.requests)
      <4>1. app.requests \in Seq(EntryE(E))
        BY <1>0, WholeFacts, WorldIs
      <4> QED  BY <3>1, <4>1, WorldIs
    <3>3. OwnRequests(world.app, world.disk.files)
      BY DEF Placed
    <3> QED  BY <1>0, <1>9, <3>1, <3>2, <3>3, CleanSelect
  <2>8. CASE \E c \in Collections : MayCreate /\ w = CollectionWorld(c)
    BY <1>0, <1>1, <2>8, CleanCollection
  <2>9. CASE \E p \in Path :
               /\ unreadable = {} /\ disk.files[p] # NoDoc /\ MayCreate
               /\ w = RefreshRequests(SelectedWorld(p[1]), p)
    BY <1>0, <1>1, <2>9, CleanCollection, PathFacts
  <2>10. CASE \E id \in Ids :
               /\ Found(id) # {} /\ Len(app.open_tabs) < MaxTabs
               /\ \A b \in 1 .. HistoryCollection(id) : b \notin unreadable
               /\ w = HistoryWorld(id)
    BY <1>0, <2>10, CleanHistory
  <2>11. CASE \E p \in Targets(app.selected_collection, app.request_path) :
                app.valid /\ MayCreate /\ w = SaveWorld(p)
    BY <1>0, <1>1, <2>11, CleanSave
  <2>12. CASE \E p \in Targets(app.selected_collection, NoPath) :
                app.request_path # NoPath /\ app.valid /\ MayCreate /\ w = DuplicateWorld(p)
    BY <1>0, <1>1, <2>12, CleanDuplicate
  <2>13. CASE app.recovery_restored /\ MayCreate /\ w = DiscardWorld
    BY <1>0, <1>1, <2>13, CleanDiscard
  <2>14. CASE app.pending = 0 /\ app.valid /\ w = SendWorld
    BY <1>0, <2>14, SendWhole, CleanSame DEF Awaits
  <2>15. CASE \E answer \in {app.pending, app.response} : app.pending # 0 /\ w = PollWorld(answer)
    <3>1. PICK answer \in {app.pending, app.response} : w = PollWorld(answer)
      BY <2>15
    <3>2. PollWorld(answer).disk = disk /\ Awaits(app, PollWorld(answer).app)
      BY <1>0, PollWhole
    <3> QED  BY <3>1, <3>2, CleanSame DEF Awaits
  <2> QED  BY <1>3, <2>1, <2>2, <2>3, <2>4, <2>5, <2>6, <2>7, <2>8, <2>9, <2>10, <2>11,
              <2>12, <2>13, <2>14, <2>15 DEF Leaves
<1>4. ASSUME Imports(w) PROVE Clean(w.app, w.disk.files)
  <2>1. ImportWorld.disk = disk /\ ResetFrom(app, ImportWorld.app)
    <3>1. NewDoc \in DocE(E)
      BY <1>0, <1>4, NewDocFacts DEF Imports
    <3> QED  BY <1>0, <3>1, ImportWhole
  <2> QED  BY <1>4, <2>1, CleanDirty DEF Imports, ResetFrom
<1>6. ASSUME Edits(w) PROVE Clean(w.app, w.disk.files)
  <2>1. PICK v \in BOOLEAN : w = EditWorld(v)
    BY <1>6 DEF Edits
  <2>2. EditWorld(v).disk = disk /\ EditedFrom(app, EditWorld(v).app, edits + 1, v)
    BY EditWhole
  <2> QED  BY <2>1, <2>2, CleanDirty DEF EditedFrom
<1> QED  BY <1>3, <1>4, <1>6

LEMMA CleanRestoreTabs ==
  ASSUME NEW E \in Nat, NEW w, Typed(w, E), Clean(w.app, w.disk.files)
  PROVE  LET x == RestoreTabs(w) IN Clean(x.app, x.disk.files)
<1> DEFINE x == RestoreTabs(w)
           paths == FoundPaths(w)
           files == w.disk.files
<1>1. /\ x.disk = w.disk
      /\ paths = <<>> => x = w
      /\ paths # <<>> => RestoredFrom(w, x)
  BY RestoreTabsFacts
<1> HIDE DEF x
<1>2. CASE paths = <<>>
  BY <1>1, <1>2 DEF x
<1>3. CASE paths # <<>>
  <2>0. PICK a : \E next \in 1 .. Len(paths) :
           /\ a.open_tabs = [i \in DOMAIN paths |-> SavedTab(files, paths[i])]
           /\ Shows(a, files, next, x.app)
    BY <1>1, <1>3 DEF RestoredFrom
  <2>1. PICK next \in 1 .. Len(paths) :
           /\ a.open_tabs = [i \in DOMAIN paths |-> SavedTab(files, paths[i])]
           /\ Shows(a, files, next, x.app)
    BY <2>0
  <2>2. /\ paths \in Seq(Path) /\ Len(paths) \in Nat /\ DOMAIN paths = 1 .. Len(paths)
        /\ \A i \in 1 .. Len(paths) : paths[i] # NoPath
    BY FoundPathsFacts, PathFacts
  <2>3. \A p : SavedTab(files, p).path = p /\ SavedTab(files, p).doc = files[p]
    BY DEF SavedTab
  <2> HIDE DEF paths, files
  <2>4. /\ Len(a.open_tabs) = Len(paths)
        /\ \A i \in 1 .. Len(paths) : a.open_tabs[i] = SavedTab(files, paths[i])
    BY <2>1, <2>2
  <2>5. next \in 1 .. Len(a.open_tabs) /\ CleanTabs(a.open_tabs, files)
    BY <2>1, <2>2, <2>3, <2>4 DEF CleanTabs
  <2>6. Clean(x.app, files)
    BY <2>1, <2>5, CleanShown
  <2> QED  BY <1>1, <2>6 DEF x, files
<1> QED  BY <1>2, <1>3

LEMMA CleanRestoreRecovery ==
  ASSUME NEW E \in Nat, NEW w, Typed(w, E), Clean(w.app, w.disk.files)
  PROVE  LET x == RestoreRecovery(w) IN Clean(x.app, x.disk.files)
<1> DEFINE x == RestoreRecovery(w)
           drafts == w.disk.recovery.drafts
           files == w.disk.files
           new == [i \in DOMAIN drafts |-> DraftedTab(drafts[i])]
           s == w.app.open_tabs
           m == Len(s)
           q == s \o new
<1>1. /\ x.disk = w.disk
      /\ drafts = <<>> => x = w
      /\ drafts # <<>> => RecoveredFrom(w, x)
  BY RestoreRecoveryFacts
<1> HIDE DEF x
<1>2. CASE drafts = <<>>
  BY <1>1, <1>2 DEF x
<1>3. CASE drafts # <<>>
  <2>1. PICK a, next, b :
           /\ next \in m + 1 .. m + Len(drafts) /\ a.open_tabs = q
           /\ Shows(a, files, next, b) /\ SameButSaved(b, x.app)
    BY <1>1, <1>3 DEF RecoveredFrom
  <2>2. /\ drafts \in Seq(DraftE(E)) /\ Len(drafts) \in Nat /\ DOMAIN drafts = 1 .. Len(drafts)
        /\ s \in Seq(TabE(E)) /\ m \in Nat
    BY DEF Typed, AppE, DiskE
  <2>3. /\ new \in Seq(TabE(E)) /\ Len(new) = Len(drafts)
        /\ \A i \in 1 .. Len(drafts) : new[i].dirty = TRUE
    <3>1. \A d \in DraftE(E) : DraftedTab(d) \in TabE(E) /\ DraftedTab(d).dirty = TRUE
      BY DEF DraftE, TabE, DraftedTab
    <3>2. \A i \in 1 .. Len(drafts) : drafts[i] \in DraftE(E)
      BY <2>2
    <3> QED  BY <2>2, <3>1, <3>2
  <2>4. CleanTabs(s, files)
    BY DEF Clean
  <2> HIDE DEF new, drafts, s, q
  <2>5. /\ Len(q) = m + Len(drafts)
        /\ \A k \in 1 .. Len(q) : q[k] = IF k <= m THEN s[k] ELSE new[k - m]
    <3>1. /\ Len(s \o new) = Len(s) + Len(new)
          /\ \A k \in 1 .. Len(s) + Len(new) :
               (s \o new)[k] = IF k <= Len(s) THEN s[k] ELSE new[k - Len(s)]
      <4>1. s \in Seq(TabE(E)) /\ new \in Seq(TabE(E))
        BY <2>2, <2>3
      <4> QED  BY <4>1, ConcatFacts
    <3> QED  BY <2>3, <3>1 DEF q
  <2>6. ASSUME NEW k \in 1 .. Len(q), ~q[k].dirty
        PROVE  q[k].path # NoPath /\ files[q[k].path] = q[k].doc
    <3>1. CASE k <= m
      <4>1. k \in 1 .. m /\ q[k] = s[k]
        BY <2>2, <2>5, <3>1
      <4> QED  BY <2>4, <2>6, <4>1 DEF CleanTabs, m
    <3>2. CASE ~(k <= m)
      <4>1. k - m \in 1 .. Len(drafts) /\ q[k] = new[k - m]
        BY <2>2, <2>5, <3>2
      <4> QED  BY <2>3, <2>6, <4>1
    <3> QED  BY <3>1, <3>2
  <2>7. CleanTabs(a.open_tabs, files) /\ next \in 1 .. Len(a.open_tabs)
    BY <2>1, <2>2, <2>5, <2>6 DEF CleanTabs
  <2>8. Clean(b, files)
    BY <2>1, <2>7, CleanShown
  <2>9. Clean(x.app, files)
    BY <2>1, <2>8, CleanSame DEF SameButSaved, SameEditor
  <2> QED  BY <1>1, <2>9 DEF x
<1> QED  BY <1>2, <1>3


LEMMA CleanOpen ==
  ASSUME TabsTyped, OpenApp
  PROVE  LET x == EndOfFrame(OpenedWorld) IN Clean(x.app, x.disk.files)
<1> DEFINE u == Listed0
           v == RestoreTabs(u)
           x == OpenedWorld
<1>1. /\ edits \in Nat /\ Typed(world, edits) /\ NewDoc \in DocE(edits)
      /\ Len(world.app.open_tabs) <= MaxTabs /\ app = Blank
  BY NewDocFacts, WorldIs DEF TabsTyped, OpenApp
<1>2. Clean(world.app, world.disk.files)
  <2>1. world.app.open_tabs = <<>> /\ Len(<<>>) = 0
    BY <1>1, WorldIs, BlankFacts
  <2> QED  BY <2>1 DEF Clean, CleanTabs
<1>3. Typed(u, edits) /\ Typed(v, edits) /\ Whole(x, edits)
  BY OpenWhole DEF Whole
<1>4. Clean(u.app, u.disk.files)
  BY <1>1, <1>2, CleanRefresh DEF Listed0
<1>5. Clean(v.app, v.disk.files)
  BY <1>1, <1>3, <1>4, CleanRestoreTabs
<1>6. x = RestoreRecovery(v)
  BY DEF OpenedWorld
<1> HIDE DEF u, v, x
<1>7. Clean(x.app, x.disk.files)
  BY <1>1, <1>3, <1>5, <1>6, CleanRestoreRecovery
<1> QED  BY <1>1, <1>3, <1>7, CleanEnd DEF Whole, x

(* While the program runs the tabs are settled, so the editor is clean if its    *)
(* tab is.                                                                     *)
LEMMA CleanWorld ==
  ASSUME TabsTyped, DraftsBacked, unreadable = {}, running, CleanMeansSaved
  PROVE  Clean(app, disk.files)
<1>1. Synced(app)
  BY WorldIs DEF DraftsBacked, Settled
<1>2. /\ DOMAIN app.open_tabs = 1 .. Len(app.open_tabs)
      /\ app.open_tabs # <<>> => app.active_tab \in 1 .. Len(app.open_tabs)
  BY TabsTypedWhole, WholeFacts, WorldIs
<1>3. CleanTabs(app.open_tabs, disk.files)
  BY <1>2 DEF CleanMeansSaved, CleanTabs
<1> QED  BY <1>1, <1>2, <1>3 DEF Clean, CleanTabs, Synced

LEMMA CleanFrame ==
  ASSUME TabsTyped, TabsPlaced, unreadable = {}, Clean(app, disk.files), NEW w, NEW new,
         Gives(w, new), Leaves(w) \/ Imports(w) \/ Edits(w), Frame(w, new)
  PROVE  CleanTabs(app'.open_tabs, disk'.files)
<1> DEFINE E == edits + Cardinality(new)
           x == EndOfFrame(w)
<1>1. running /\ Whole(world, edits) /\ edits \in Nat /\ Placed(world)
  BY TabsTypedWhole DEF Frame, TabsPlaced
<1>2. Whole(w, E) /\ E \in Nat
  <2>1. Whole(w, E) /\ Cardinality(new) \in {0, 1}
    BY <1>1, WholeGives
  <2> QED  BY <1>1, <2>1
<1> HIDE DEF E
<1>3. Clean(w.app, w.disk.files)
  BY <1>1, CleanGives
<1>4. Clean(x.app, x.disk.files)
  BY <1>2, <1>3, CleanEnd DEF Whole
<1> HIDE DEF x
<1>5. CASE Become(EndOfFrame(w))
  BY <1>4, <1>5 DEF Become, Clean, x
<1>6. CASE Stop(w.disk, {}, 1 .. edits')
  <2>1. app'.open_tabs = <<>> /\ Len(<<>>) = 0
    BY <1>1, <1>6, BlankFacts DEF Stop
  <2> QED  BY <2>1 DEF CleanTabs
<1> QED  BY <1>5, <1>6 DEF Frame

LEMMA CleanNext ==
  ASSUME TabsTyped, TabsPlaced, DraftsBacked, [Next]_vars, unreadable = {}, CleanMeansSaved,
         ~DeleteCurrent
  PROVE  CleanMeansSaved'
<1>1. DOMAIN app'.open_tabs = 1 .. Len(app'.open_tabs)
  <2>1. TabsTyped'
    BY TabsTypedNext
  <2>2. Typed([app |-> app', disk |-> disk'], edits')
    BY <2>1 DEF TabsTyped, world
  <2>3. app'.open_tabs \in Seq(TabE(edits'))
    BY <2>2 DEF Typed, AppE
  <2> QED  BY <2>3
<1>2. running => Clean(app, disk.files)
  BY CleanWorld
<1> SUFFICES CleanTabs(app'.open_tabs, disk'.files)
  BY <1>1 DEF CleanTabs, CleanMeansSaved
<1>3. CASE TabCommand
  <2>1. PICK w, new : /\ Frame(w, new) /\ Gives(w, new)
                      /\ Leaves(w) \/ Imports(w) \/ Edits(w)
    BY <1>3, CommandCases DEF TabsTyped, Gives
  <2>2. Clean(app, disk.files)
    BY <1>2, <2>1 DEF Frame
  <2> QED  BY <2>1, <2>2, CleanFrame
<1>4. CASE SecondPasses
  <2>1. /\ running /\ disk' = disk /\ app' = [app EXCEPT !.recovery_last_saved = "due"]
    BY <1>4 DEF SecondPasses
  <2>2. app'.open_tabs = app.open_tabs
    BY <2>1, TabsTypedWhole, WholeFacts, WorldIs DEF AppE
  <2> QED  BY <1>2, <2>1, <2>2 DEF Clean
<1>5. CASE OnExit \/ Crash
  <2>1. app'.open_tabs = <<>> /\ Len(<<>>) = 0
    BY <1>5, BlankFacts DEF OnExit, Crash, Stop, TabsTyped
  <2> QED  BY <2>1 DEF CleanTabs
<1>6. CASE OpenApp
  <2> DEFINE x == EndOfFrame(OpenedWorld)
  <2>1. app' = x.app /\ disk' = x.disk
    BY <1>6 DEF OpenApp, OpenedWorld, Listed0, Become
  <2>2. Clean(x.app, x.disk.files)
    BY <1>6, CleanOpen
  <2> HIDE DEF x
  <2> QED  BY <2>1, <2>2 DEF Clean
<1>7. CASE UNCHANGED vars
  <2>1. CleanMeansSaved'
    BY <1>7 DEF CleanMeansSaved, vars
  <2> QED  BY <1>1, <2>1 DEF CleanTabs, CleanMeansSaved
<1> QED  BY <1>3, <1>4, <1>5, <1>6, <1>7 DEF Next

(* What looks saved is saved: while every tab without the mark of unsaved       *)
(* edits has what its file holds, no command, end or start but a deletion makes  *)
(* one that has not (DesktopTabs.CleanTabsAreSaved).                            *)
THEOREM CleanTabsStaySaved == Spec => CleanTabsAreSaved
<1>1. TabsTyped /\ TabsPlaced /\ DraftsBacked /\ [Next]_vars
        => [unreadable = {} /\ CleanMeansSaved /\ ~CleanMeansSaved' => DeleteCurrent]_vars
  BY CleanNext
<1> QED  BY TabsTypedInvariant, TabsPlacedInvariant, DraftsBackedInvariant, <1>1,
            PTL DEF Spec, CleanTabsAreSaved
=============================================================================
