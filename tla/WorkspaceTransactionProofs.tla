--------------------- MODULE WorkspaceTransactionProofs ---------------------
(***************************************************************************)
(* Proofs about the rollback journal of an import: what the user saved      *)
(* survives, a failed import leaves the user's files and a committed one    *)
(* every request it brought, for any folders, names and ids and any number  *)
(* of requests, edits and faults.                                           *)
(***************************************************************************)
EXTENDS WorkspaceTransaction, FiniteSetTheorems, WellFoundedInduction, TLAPS

Saves == {"mkdir", "snapshot", "write"}
Dropping == pc \in {"drop", "rolled back"}

(* Where the files on disk need not be the ones the user left.               *)
Journalled == DOMAIN originals \cup unrestored

(* Directories: what is recorded as created was not there before the import,  *)
(* and a file of the journal can be put back, its directory is still there.    *)
DirsInv ==
  /\ dirs \subseteq AllDirs /\ \A d \in dirs : Ancestors(d) \subseteq dirs
  /\ <<>> \in had /\ had \subseteq dirs
  /\ created_directories \in Seq(AllDirs \ had)
  /\ \A f \in DOMAIN files \cup DOMAIN originals : f.dir \in dirs
  /\ pc \in Saves => Directory \in AllDirs
  /\ pc \in {"snapshot", "write"} => target.dir \in dirs
  /\ pc \in Saves \cup {"ready"} /\ target # Environment =>
       (pc = "mkdir" /\ target = Manifest) \/ Requests \in dirs

(* Off the journal the disk is the user's; the journal holds what the user     *)
(* had, and never a request of the user's.                                     *)
FilesInv ==
  /\ \A f \in DOMAIN files \cup DOMAIN theirs : f \notin Journalled =>
       f \in DOMAIN files /\ f \in DOMAIN theirs /\ files[f] = theirs[f]
  /\ \A f \in DOMAIN originals :
       originals[f] = IF f \in DOMAIN theirs THEN theirs[f] ELSE NoFile
  /\ \A f \in DOMAIN files : files[f].by \in {"user", "import"}
  /\ \A f \in DOMAIN theirs :
       /\ theirs[f].by = "user"
       /\ IsRequest(f) => f \in RequestFiles /\ f \notin Journalled
  /\ \A f \in Journalled : IsRequest(f) /\ Exists(f) => files[f].by = "import"

(* The save under way goes to a path of its own.                             *)
SaveInv ==
  /\ pc \in {"start", "ready", "committed", "drop", "rolled back"} \cup Saves
  /\ requests \in 0 .. MaxRequests /\ manifests \in 0 .. MaxManifests
  /\ pc = "start" => manifests = 0
  /\ pc \in Saves =>
       /\ payload.by = "import"
       /\ target = Manifest => payload = Import(manifests + 1) /\ manifests < MaxManifests
       /\ IsRequest(target) =>
            /\ ~Exists(target) /\ target \notin DOMAIN theirs
            /\ payload = Import(requests + 1) /\ requests < MaxRequests
  /\ pc = "write" => target \in DOMAIN originals
  /\ pc = "rolled back" => originals = <<>>
  /\ ~Dropping => unrestored = {}

(* What the import brought, each request in one file.                        *)
Brought == {f \in DOMAIN files : IsRequest(f) /\ files[f].by = "import"}
ImportInv ==
  /\ \A f \in Brought : \E k \in 1 .. requests : files[f] = Import(k)
  /\ \A f, g \in Brought : files[f] = files[g] => f = g
  /\ ~Dropping =>
       /\ \A k \in 1 .. requests : \E f \in Brought : files[f] = Import(k)
       /\ manifests > 0 => Exists(Manifest) /\ files[Manifest] = Import(manifests)

TransactionInv == DirsInv /\ FilesInv /\ SaveInv /\ ImportInv

(***************************************************************************)
(* Numbers and paths                                                       *)
(***************************************************************************)
LEMMA LeastNatural ==
  ASSUME NEW T, T \subseteq Nat, T # {}
  PROVE  \E x \in T : \A y \in T : x <= y
<1>1. PICK x \in T : \A y \in T : ~ (<<y, x>> \in OpToRel(<, Nat))
  BY WFMin, NatLessThanWellFounded, Zenon
<1>2. \A y \in T : ~ (y < x)
  BY <1>1 DEF OpToRel
<1> QED  BY <1>2

LEMMA GreatestNatural ==
  ASSUME NEW n \in Nat, NEW T, T \subseteq 0 .. n, T # {}
  PROVE  \E x \in T : \A y \in T : y <= x
<1> DEFINE D == {n - t : t \in T}
<1>1. D \subseteq Nat /\ D # {}
  <2>1. \A t \in T : t \in 0 .. n /\ n - t \in Nat /\ n - t \in D
    OBVIOUS
  <2> QED  BY <2>1
<1>2. PICK d \in D : \A e \in D : d <= e
  BY <1>1, LeastNatural
<1>3. PICK x \in T : d = n - x
  BY <1>2
<1>4. ASSUME NEW y \in T PROVE y <= x
  <2>1. n - y \in D /\ d <= n - y
    BY <1>2
  <2> QED  BY <1>3, <2>1
<1> QED  BY <1>4

(* The directories above a directory are the sequences it begins with.        *)
LEMMA AncestorFacts ==
  ASSUME NEW S, NEW d \in Seq(S)
  PROVE  /\ d \in Ancestors(d) /\ <<>> \in Ancestors(d)
         /\ \A n \in 0 .. Len(d) :
              /\ SubSeq(d, 1, n) \in Seq(S) /\ Len(SubSeq(d, 1, n)) = n
              /\ \A m \in 0 .. n : SubSeq(SubSeq(d, 1, n), 1, m) = SubSeq(d, 1, m)
         /\ \A e \in Ancestors(d) : Ancestors(e) \subseteq Ancestors(d)
<1>1. SubSeq(d, 1, Len(d)) = d /\ SubSeq(d, 1, 0) = <<>>
  OBVIOUS
<1>2. \A n \in 0 .. Len(d) : SubSeq(d, 1, n) \in Seq(S) /\ Len(SubSeq(d, 1, n)) = n
  OBVIOUS
<1>3. ASSUME NEW n \in 0 .. Len(d), NEW m \in 0 .. n
      PROVE  SubSeq(SubSeq(d, 1, n), 1, m) = SubSeq(d, 1, m)
  BY <1>2
<1>4. ASSUME NEW n \in 0 .. Len(d)
      PROVE  Ancestors(SubSeq(d, 1, n)) \subseteq Ancestors(d)
  BY <1>2, <1>3 DEF Ancestors
<1>5. Len(d) \in Nat /\ 0 \in 0 .. Len(d) /\ Len(d) \in 0 .. Len(d)
  OBVIOUS
<1>6. d \in Ancestors(d) /\ <<>> \in Ancestors(d)
  BY <1>1, <1>5 DEF Ancestors
<1>7. \A e \in Ancestors(d) : Ancestors(e) \subseteq Ancestors(d)
  BY <1>4 DEF Ancestors
<1> QED  BY <1>2, <1>3, <1>6, <1>7

(* The names that directories are made of.                                   *)
Segments == {"collections", "c", "requests", "environments"}
              \cup UNION {Range(f) : f \in Folders}

LEMMA SequenceEquality ==
  ASSUME NEW S, NEW p \in Seq(S), NEW q \in Seq(S), Len(p) = Len(q),
         \A i \in 1 .. Len(p) : p[i] = q[i]
  PROVE  p = q
<1>1. p = [i \in 1 .. Len(p) |-> p[i]] /\ q = [i \in 1 .. Len(q) |-> q[i]]
  OBVIOUS
<1> QED  BY <1>1

LEMMA EmptyDomain ==
  ASSUME NEW q, q = <<>>
  PROVE  DOMAIN q = {}
<1>1. q \in Seq({}) /\ Len(q) = 0
  OBVIOUS
<1>2. DOMAIN q = 1 .. 0
  BY <1>1
<1> QED  BY <1>2

LEMMA Concatenation ==
  ASSUME NEW S, NEW p \in Seq(S), NEW q \in Seq(S)
  PROVE  /\ p \o q \in Seq(S) /\ Len(p \o q) = Len(p) + Len(q)
         /\ SubSeq(p \o q, 1, Len(p)) = p
<1>1. /\ p \o q \in Seq(S) /\ Len(p \o q) = Len(p) + Len(q)
      /\ Len(p) \in Nat /\ Len(q) \in Nat
      /\ \A i \in 1 .. Len(p) : (p \o q)[i] = p[i]
  OBVIOUS
<1>2. /\ SubSeq(p \o q, 1, Len(p)) \in Seq(S)
      /\ Len(SubSeq(p \o q, 1, Len(p))) = Len(p)
      /\ \A i \in 1 .. Len(p) : SubSeq(p \o q, 1, Len(p))[i] = (p \o q)[i]
  BY <1>1
<1> QED  BY <1>1, <1>2, SequenceEquality

LEMMA FolderFacts ==
  ASSUME NEW g \in Folders
  PROVE  g \in Seq(Segments) /\ Len(g) \in Nat
<1>1. g \in Seq(Range(g)) /\ \A i \in 1 .. Len(g) : g[i] \in Range(g)
  BY TransactionAssumption
<1>2. Range(g) \subseteq Segments
  BY DEF Segments
<1> QED  BY <1>1, <1>2

LEMMA RootFacts ==
  /\ Requests \in Seq(Segments) /\ Len(Requests) = 3
  /\ Environments \in Seq(Segments) /\ Len(Environments) = 1
  /\ Manifest.dir \in Seq(Segments) /\ Len(Manifest.dir) = 2
  /\ Environment.dir = Environments
  /\ Manifest.dir \in Ancestors(Requests)
<1>1. {"collections", "c", "requests", "environments"} \subseteq Segments
  BY DEF Segments
<1>2. Requests \in Seq(Segments) /\ Len(Requests) = 3
  BY <1>1 DEF Requests
<1>3. Environments \in Seq(Segments) /\ Len(Environments) = 1
  BY <1>1 DEF Environments
<1>4. Manifest.dir \in Seq(Segments) /\ Len(Manifest.dir) = 2
  BY <1>1 DEF Manifest
<1>5. SubSeq(Requests, 1, 2) \in Seq(Segments) /\ Len(SubSeq(Requests, 1, 2)) = 2
  BY <1>2, SMTT(30)
<1>6. \A i \in 1 .. 2 : SubSeq(Requests, 1, 2)[i] = Manifest.dir[i]
  <2>1. \A i \in 1 .. 2 : i = 1 \/ i = 2
    OBVIOUS
  <2>2. \A i \in 1 .. 2 : SubSeq(Requests, 1, 2)[i] = Requests[i]
    BY <1>2
  <2>3. Requests[1] = Manifest.dir[1] /\ Requests[2] = Manifest.dir[2]
    BY DEF Requests, Manifest
  <2> QED  BY <2>1, <2>2, <2>3
<1>7. SubSeq(Requests, 1, 2) = Manifest.dir
  BY <1>4, <1>5, <1>6, SequenceEquality
<1>8. Manifest.dir \in Ancestors(Requests)
  <2>1. 2 \in 0 .. Len(Requests)
    BY <1>2
  <2> QED  BY <1>7, <2>1 DEF Ancestors
<1>9. Environment.dir = Environments
  BY DEF Environment
<1> QED  BY <1>2, <1>3, <1>4, <1>8, <1>9

LEMMA PathFacts ==
  /\ AllDirs \subseteq Seq(Segments)
  /\ Requests \in Seq(Segments) /\ Environments \in Seq(Segments)
  /\ \A d \in AllDirs : Ancestors(d) \subseteq AllDirs \cup {<<>>}
  /\ \A f \in Folders : /\ Requests \o f \in AllDirs
                        /\ Requests \in Ancestors(Requests \o f)
                        /\ Requests \o f \notin {Manifest.dir, Environment.dir}
  /\ Manifest.dir \in Ancestors(Requests)
  /\ <<>> \in AllDirs => Requests \in AllDirs
<1>2. ASSUME NEW f \in Folders
      PROVE  /\ Requests \o f \in Seq(Segments) /\ Len(Requests \o f) >= 3
             /\ Requests \o f \in AllDirs
             /\ Requests \in Ancestors(Requests \o f)
             /\ Requests \o f \notin {Manifest.dir, Environment.dir}
             /\ Ancestors(Requests \o f) \subseteq AllDirs
  <2> DEFINE d == Requests \o f
  <2>1. d \in Seq(Segments) /\ Len(d) = 3 + Len(f) /\ Len(d) >= 3 /\ Len(d) \in Nat
    <3>1. f \in Seq(Segments) /\ Len(f) \in Nat
      BY FolderFacts
    <3>2. d \in Seq(Segments) /\ Len(d) = Len(Requests) + Len(f)
      BY <3>1, RootFacts, Concatenation
    <3> QED  BY <3>1, <3>2, RootFacts
  <2>2. SubSeq(d, 1, 3) = Requests
    <3>1. f \in Seq(Segments)
      BY FolderFacts
    <3>2. SubSeq(d, 1, Len(Requests)) = Requests
      BY <3>1, RootFacts, Concatenation
    <3> QED  BY <3>2, RootFacts
  <2>3. Ancestors(d) \subseteq AllDirs
    BY DEF AllDirs
  <2>4. Requests \in Ancestors(d)
    <3>1. 3 \in 0 .. Len(d)
      BY <2>1
    <3> QED  BY <2>2, <3>1 DEF Ancestors
  <2>5. d \in AllDirs
    BY <2>1, <2>3, AncestorFacts
  <2>6. d \notin {Manifest.dir, Environment.dir}
    BY <2>1, RootFacts, SMTT(30)
  <2> QED  BY <2>1, <2>3, <2>4, <2>5, <2>6
<1>3. ASSUME NEW d \in AllDirs
      PROVE  d \in Seq(Segments) /\ Ancestors(d) \subseteq AllDirs \cup {<<>>}
  <2>1. CASE d = Environments
    <3>1. Ancestors(Environments) \subseteq {Environments, <<>>}
      <4>1. SubSeq(Environments, 1, 0) = <<>> /\ SubSeq(Environments, 1, 1) = Environments
        BY RootFacts
      <4> QED  BY RootFacts, <4>1 DEF Ancestors
    <3> QED  BY RootFacts, <2>1, <3>1 DEF AllDirs
  <2>2. CASE d # Environments
    <3>1. PICK f \in Folders : d \in Ancestors(Requests \o f)
      BY <2>2 DEF AllDirs
    <3>2. d \in Seq(Segments)
      BY <1>2, <3>1, AncestorFacts DEF Ancestors
    <3>3. Ancestors(d) \subseteq Ancestors(Requests \o f)
      BY <1>2, <3>1, AncestorFacts
    <3> QED  BY <1>2, <3>2, <3>3
  <2> QED  BY <2>1, <2>2
<1>5. <<>> \in AllDirs => Requests \in AllDirs
  <2>1. <<>> # Environments
    BY DEF Environments
  <2>2. CASE Folders = {}
    <3>1. SubSeq(Environments, 1, 0) = <<>>
      BY RootFacts
    <3> QED  BY <2>1, <2>2 DEF AllDirs
  <2>3. ASSUME NEW f \in Folders PROVE Requests \in AllDirs
    BY <1>2
  <2> QED  BY <2>2, <2>3
<1> QED  BY <1>2, <1>3, <1>5, RootFacts

(* What of a directory is missing: all below its deepest part that exists.    *)
LEMMA MissingFacts ==
  ASSUME NEW d \in AllDirs, <<>> \in dirs
  PROVE  \E there \in 0 .. Len(d) :
           /\ SubSeq(d, 1, there) \in dirs
           /\ \A m \in there + 1 .. Len(d) : SubSeq(d, 1, m) \notin dirs
           /\ Missing(d) = [i \in 1 .. Len(d) - there |-> SubSeq(d, 1, Len(d) + 1 - i)]
<1> DEFINE P(n) == /\ SubSeq(d, 1, n) \in dirs
                   /\ \A m \in n + 1 .. Len(d) : SubSeq(d, 1, m) \notin dirs
           T == {n \in 0 .. Len(d) : SubSeq(d, 1, n) \in dirs}
<1>1. d \in Seq(Segments) /\ Len(d) \in Nat
  BY PathFacts
<1>2. SubSeq(d, 1, 0) = <<>> /\ 0 \in 0 .. Len(d)
  BY <1>1
<1>3. PICK n \in T : \A m \in T : m <= n
  <2>1. T \subseteq 0 .. Len(d) /\ 0 \in T
    BY <1>2
  <2> QED  BY <1>1, <2>1, GreatestNatural
<1>4. n \in 0 .. Len(d) /\ P(n)
  BY <1>1, <1>3
<1>5. \E m \in 0 .. Len(d) : P(m)
  BY <1>4
<1> DEFINE there == CHOOSE m \in 0 .. Len(d) : P(m)
<1>6. there \in 0 .. Len(d) /\ P(there)
  BY <1>5
<1>7. Missing(d) = [i \in 1 .. Len(d) - there |-> SubSeq(d, 1, Len(d) + 1 - i)]
  BY DEF Missing
<1> QED  BY <1>6, <1>7

(* What is missing does not exist, and is a directory of the import; making    *)
(* it, or the upper part of it, leaves no directory without its parent.       *)
LEMMA MadeDirectories ==
  ASSUME NEW d \in AllDirs, <<>> \in dirs, dirs \subseteq AllDirs,
         \A e \in dirs : Ancestors(e) \subseteq dirs
  PROVE  /\ Missing(d) \in Seq(AllDirs) /\ \A i \in DOMAIN Missing(d) : Missing(d)[i] \notin dirs
         /\ Ancestors(d) \subseteq AllDirs
         /\ \A n \in DOMAIN Missing(d) :
              LET D == dirs \cup {Missing(d)[i] : i \in n + 1 .. Len(Missing(d))}
              IN D \subseteq AllDirs /\ \A e \in D : Ancestors(e) \subseteq D
<1>1. PICK there \in 0 .. Len(d) :
        /\ SubSeq(d, 1, there) \in dirs
        /\ \A m \in there + 1 .. Len(d) : SubSeq(d, 1, m) \notin dirs
        /\ Missing(d) = [i \in 1 .. Len(d) - there |-> SubSeq(d, 1, Len(d) + 1 - i)]
  BY MissingFacts
<1> DEFINE gone == Len(d) - there
<1>2. d \in Seq(Segments) /\ Len(d) \in Nat /\ there \in Nat /\ gone \in Nat
  BY PathFacts
<1>3. Ancestors(d) \subseteq AllDirs
  BY PathFacts
<1>4. \A m \in 0 .. Len(d) : SubSeq(d, 1, m) \in AllDirs
  BY <1>3 DEF Ancestors
<1>5. DOMAIN Missing(d) = 1 .. gone
  BY <1>1
<1>6. \A i \in 1 .. gone :
        /\ Missing(d)[i] = SubSeq(d, 1, Len(d) + 1 - i)
        /\ Len(d) + 1 - i \in there + 1 .. Len(d) /\ Len(d) + 1 - i \in 0 .. Len(d)
  BY <1>1, <1>2
<1>7. Missing(d) \in Seq(AllDirs)
  <2>1. Missing(d) \in [1 .. gone -> AllDirs]
    BY <1>1, <1>4, <1>6
  <2> QED  BY <1>2, <2>1
<1>8. Len(Missing(d)) = gone
  BY <1>2, <1>5, <1>7
<1>9. ASSUME NEW n \in 1 .. gone
      PROVE  LET D == dirs \cup {Missing(d)[i] : i \in n + 1 .. gone}
             IN D \subseteq AllDirs /\ \A e \in D : Ancestors(e) \subseteq D
  <2> DEFINE D == dirs \cup {Missing(d)[i] : i \in n + 1 .. gone}
  <2>1. \A m \in 0 .. Len(d) - n : SubSeq(d, 1, m) \in D
    <3> SUFFICES ASSUME NEW m \in 0 .. Len(d) - n PROVE SubSeq(d, 1, m) \in D
      OBVIOUS
    <3>1. CASE m <= there
      <4>1. m \in 0 .. there /\ SubSeq(SubSeq(d, 1, there), 1, m) = SubSeq(d, 1, m)
            /\ Len(SubSeq(d, 1, there)) = there
        BY <1>1, <1>2, <3>1, AncestorFacts
      <4>2. SubSeq(d, 1, m) \in Ancestors(SubSeq(d, 1, there))
        BY <4>1 DEF Ancestors
      <4> QED  BY <1>1, <4>2
    <3>2. CASE m > there
      <4>1. Len(d) + 1 - m \in n + 1 .. gone
        BY <1>2, <3>2
      <4>2. Missing(d)[Len(d) + 1 - m] = SubSeq(d, 1, m)
        BY <1>2, <1>6, <4>1
      <4> QED  BY <4>1, <4>2
    <3> QED  BY <1>2, <3>1, <3>2
  <2>2. ASSUME NEW i \in n + 1 .. gone PROVE Ancestors(Missing(d)[i]) \subseteq D
    <3> DEFINE m == Len(d) + 1 - i
    <3>1. m \in 0 .. Len(d) - n /\ m \in 0 .. Len(d) /\ Missing(d)[i] = SubSeq(d, 1, m)
      BY <1>2, <1>6
    <3>2. Len(SubSeq(d, 1, m)) = m
          /\ \A k \in 0 .. m : SubSeq(SubSeq(d, 1, m), 1, k) = SubSeq(d, 1, k)
      BY <1>2, <3>1, AncestorFacts
    <3>3. \A k \in 0 .. m : k \in 0 .. Len(d) - n
      BY <1>2, <3>1
    <3> QED  BY <2>1, <3>1, <3>2, <3>3 DEF Ancestors
  <2>3. D \subseteq AllDirs
    <3>1. \A i \in n + 1 .. gone : i \in 1 .. gone
      BY <1>2
    <3>2. \A i \in n + 1 .. gone : Missing(d)[i] \in AllDirs
      BY <1>4, <1>6, <3>1
    <3> QED  BY <3>2
  <2> QED  BY <2>2, <2>3
<1>10. \A i \in DOMAIN Missing(d) : Missing(d)[i] \notin dirs
  BY <1>1, <1>5, <1>6
<1> QED  BY <1>3, <1>5, <1>7, <1>8, <1>9, <1>10

(***************************************************************************)
(* request_path_for                                                        *)
(***************************************************************************)
(* The paths that are tried for a request differ, and only the first is one   *)
(* that a request of the user's can have.                                     *)
LEMMA CandidateFacts ==
  ASSUME NEW folder \in Folders, NEW n, NEW p, NEW i \in Nat
  PROVE  /\ Candidate(folder, n, p, i).dir = Requests \o folder
         /\ IsRequest(Candidate(folder, n, p, i))
         /\ i > 0 => Candidate(folder, n, p, i) \notin RequestFiles
         /\ \A j \in Nat : Candidate(folder, n, p, i) = Candidate(folder, n, p, j) => i = j
<1> DEFINE Name(k) == IF k = 0 THEN <<n>> ELSE IF k = 1 THEN <<n, p>> ELSE <<n, p, k>>
<1>1. \A k \in Nat : /\ Candidate(folder, n, p, k).dir = Requests \o folder
                     /\ Candidate(folder, n, p, k).name = Name(k)
  BY DEF Candidate
<1>2. IsRequest(Candidate(folder, n, p, i))
  <2>1. Requests \o folder \notin {Manifest.dir, Environment.dir}
    BY PathFacts
  <2> QED  BY <1>1, <2>1 DEF IsRequest
<1>3. \A k \in Nat : Len(Name(k)) = IF k = 0 THEN 1 ELSE IF k = 1 THEN 2 ELSE 3
  OBVIOUS
<1>4. \A m : Len(<<m>>) = 1
  OBVIOUS
<1>5. ASSUME i > 0, Candidate(folder, n, p, i) \in RequestFiles PROVE FALSE
  <2>1. PICK m \in Names : Name(i) = <<m>>
    BY <1>1, <1>5 DEF RequestFiles
  <2>2. Len(Name(i)) = 1
    BY <1>4, <2>1
  <2> QED  BY <1>3, <1>5, <2>2
<1>6. ASSUME NEW j \in Nat, Name(i) = Name(j) PROVE i = j
  <2>1. CASE i <= 1 \/ j <= 1
    BY <1>3, <1>6, <2>1
  <2>2. CASE i > 1 /\ j > 1
    <3>1. <<n, p, i>> = <<n, p, j>>
      BY <1>6, <2>2
    <3> QED  BY <3>1
  <2> QED  BY <2>1, <2>2
<1> QED  BY <1>1, <1>2, <1>5, <1>6, ZenonT(30)

LEMMA FreePath ==
  ASSUME TransactionInv, requests < MaxRequests,
         NEW folder \in Folders, NEW n, NEW p
  PROVE  LET f == RequestPath(folder, n, p)
         IN  ~Exists(f) /\ IsRequest(f) /\ f.dir = Requests \o folder /\ f \notin DOMAIN theirs
<1> DEFINE C(i) == Candidate(folder, n, p, i)
           free == {i \in 0 .. MaxRequests + 1 : ~Exists(C(i))}
<1>1. MaxRequests \in Nat /\ requests \in Nat
  <2>1. MaxRequests \in Nat
    BY TransactionAssumption, Zenon
  <2>2. requests \in 0 .. MaxRequests
    BY Zenon DEF TransactionInv, SaveInv
  <2> QED  BY <2>1, <2>2
<1>2. ASSUME NEW i \in 1 .. MaxRequests + 1, Exists(C(i)) PROVE C(i) \in Brought
  <2>1. IsRequest(C(i)) /\ C(i) \notin RequestFiles
    BY <1>1, CandidateFacts
  <2>2. files[C(i)].by = "import"
    BY <1>2, <2>1 DEF TransactionInv, FilesInv, Exists
  <2> QED  BY <1>2, <2>1, <2>2 DEF Brought, Exists
<1>3. free # {}
  <2> SUFFICES ASSUME free = {} PROVE FALSE
    OBVIOUS
  <2> DEFINE S == 1 .. MaxRequests + 1
             T == 1 .. requests
  <2>1. \A i \in S : C(i) \in Brought
    BY <1>1, <1>2
  <2>2. \A i \in S : \E k \in T : files[C(i)] = Import(k)
    BY <2>1 DEF TransactionInv, ImportInv
  <2> DEFINE g == [i \in S |-> CHOOSE k \in T : files[C(i)] = Import(k)]
  <2>3. \A i \in S : g[i] \in T /\ files[C(i)] = Import(g[i])
    BY <2>2
  <2>4. g \in [S -> T]
    BY <2>3
  <2>5. /\ IsFiniteSet(S) /\ Cardinality(S) = MaxRequests + 1
        /\ IsFiniteSet(T) /\ Cardinality(T) = requests
    <3>1. 1 \in Int /\ MaxRequests + 1 \in Int /\ requests \in Int
      BY <1>1
    <3>2. IsFiniteSet(S) /\ Cardinality(S) = MaxRequests + 1
      BY <1>1, <3>1, FS_Interval
    <3>3. IsFiniteSet(T) /\ Cardinality(T) = requests
      BY <1>1, <3>1, FS_Interval
    <3> QED  BY <3>2, <3>3
  <2>6. Cardinality(T) < Cardinality(S)
    BY <1>1, <2>5
  <2> HIDE DEF g, S, T
  <2>7. PICK x, y \in S : x # y /\ g[x] = g[y]
    BY <2>4, <2>5, <2>6, FS_PigeonHole
  <2>8. C(x) = C(y)
    BY <2>1, <2>3, <2>7 DEF TransactionInv, ImportInv
  <2>9. x \in Nat /\ y \in Nat
    BY <1>1 DEF S
  <2> QED  BY <2>7, <2>8, <2>9, CandidateFacts
<1>4. free \subseteq Nat
  BY <1>1
<1>5. \E i \in free : \A j \in free : i <= j
  BY <1>3, <1>4, LeastNatural
<1> DEFINE first == CHOOSE i \in free : \A j \in free : i <= j
<1>6. first \in free
  BY <1>5
<1>7. RequestPath(folder, n, p) = C(first)
  BY DEF RequestPath
<1>8. ~Exists(C(first)) /\ IsRequest(C(first)) /\ C(first).dir = Requests \o folder
  BY <1>4, <1>6, CandidateFacts
<1>9. C(first) \notin DOMAIN theirs
  BY <1>8 DEF TransactionInv, FilesInv, Exists
<1> QED  BY <1>7, <1>8, <1>9

(***************************************************************************)
(* The inductive invariant                                                 *)
(***************************************************************************)
LEMMA InitInv == Init => TransactionInv
<1> SUFFICES ASSUME Init PROVE TransactionInv
  OBVIOUS
<1>1. MaxRequests \in Nat /\ MaxManifests \in Nat
  BY TransactionAssumption, Zenon
<1>2. PICK kept \in SUBSET {f \in RequestFiles \cup {Manifest, Environment} : f.dir \in dirs} :
        files = [f \in kept |-> User(0)]
  BY Zenon DEF Init
<1>3. DirsInv
  <2>1. /\ dirs \subseteq AllDirs /\ <<>> \in dirs
        /\ \A d \in dirs : Ancestors(d) \subseteq dirs
    BY Zenon DEF Init
  <2>2. /\ had = dirs /\ created_directories = <<>> /\ pc = "start"
        /\ originals = <<>>
    BY Zenon DEF Init
  <2>3. \A f \in DOMAIN files \cup DOMAIN originals : f.dir \in dirs
    BY <1>2, <2>2
  <2> QED  BY <2>1, <2>2, <2>3 DEF DirsInv, Saves
<1>4. FilesInv
  <2>1. theirs = files /\ originals = <<>> /\ unrestored = {}
    BY Zenon DEF Init
  <2>2. Journalled = {}
    BY <2>1 DEF Journalled
  <2>3. DOMAIN files = kept /\ \A f \in kept : files[f] = User(0)
    BY <1>2
  <2> QED  BY <1>2, <2>1, <2>2, <2>3 DEF FilesInv, User, IsRequest
<1>5. SaveInv
  BY <1>1 DEF Init, SaveInv, Saves
<1>6. ImportInv
  <2>1. requests = 0 /\ manifests = 0
    BY Zenon DEF Init
  <2>2. Brought = {}
    BY <1>2 DEF Brought, User
  <2> QED  BY <2>1, <2>2 DEF ImportInv
<1> QED  BY <1>3, <1>4, <1>5, <1>6 DEF TransactionInv

(* Where a save goes to and what it may replace, for each way it begins.      *)
LEMMA Bounds ==
  ASSUME TransactionInv
  PROVE  /\ DirsInv /\ FilesInv /\ SaveInv /\ ImportInv
         /\ MaxRequests \in Nat /\ MaxManifests \in Nat /\ MaxManifests >= 1
         /\ requests \in Nat /\ manifests \in Nat
         /\ requests \in 0 .. MaxRequests /\ manifests \in 0 .. MaxManifests
         /\ ~IsRequest(Manifest) /\ ~IsRequest(Environment)
<1>1. MaxRequests \in Nat /\ MaxManifests \in Nat \ {0}
  BY TransactionAssumption, Zenon
<1>2. requests \in 0 .. MaxRequests /\ manifests \in 0 .. MaxManifests
  BY Zenon DEF TransactionInv, SaveInv
<1>3. DirsInv /\ FilesInv /\ SaveInv /\ ImportInv
  BY DEF TransactionInv
<1> QED  BY <1>1, <1>2, <1>3 DEF IsRequest

LEMMA DifferentFiles ==
  Manifest # Environment /\ Manifest.dir # Environment.dir
<1>1. Len(Manifest.dir) # Len(Environment.dir)
  BY RootFacts
<1> QED  BY <1>1

LEMMA DirsStep ==
  ASSUME TransactionInv, [Next]_vars
  PROVE  DirsInv'
<1> USE Bounds
<1>1. /\ dirs \subseteq AllDirs /\ \A d \in dirs : Ancestors(d) \subseteq dirs
      /\ <<>> \in had /\ had \subseteq dirs /\ <<>> \in dirs
      /\ created_directories \in Seq(AllDirs \ had)
      /\ \A f \in DOMAIN files \cup DOMAIN originals : f.dir \in dirs
  BY DEF DirsInv
<1>2. \A f \in Folders : Requests \o f \in AllDirs /\ Requests \in Ancestors(Requests \o f)
  BY PathFacts
<1>3. Requests \in AllDirs /\ Environments \in AllDirs
  BY <1>1, PathFacts DEF AllDirs
<1>4. CASE CreateCollection
  BY <1>1, <1>3, <1>4 DEF CreateCollection, Saving, Goto, DirsInv, Directory, Saves,
     workspaceVars, journalVars, userVars
<1>5. CASE SaveEnvironment
  BY <1>1, <1>3, <1>5, DifferentFiles
     DEF SaveEnvironment, Saving, Goto, DirsInv, Directory, Saves, Environment,
         workspaceVars, journalVars, userVars
<1>6. CASE SaveCollection
  <2>1. Requests \in dirs
    BY <1>6 DEF SaveCollection, Importing, DirsInv, Saves
  <2>2. Manifest.dir \in dirs
    BY <1>1, <2>1, PathFacts
  <2> QED  BY <1>1, <1>3, <1>6, <2>1, <2>2
           DEF SaveCollection, Saving, Goto, DirsInv, Directory, Saves,
               workspaceVars, journalVars, userVars
<1>7. CASE SaveRequest
  <2>1. PICK folder \in Folders, n \in Names, p \in Prefixes :
          Saving(RequestPath(folder, n, p), Import(requests + 1), "mkdir")
    BY <1>7 DEF SaveRequest
  <2>2. target'.dir = Requests \o folder /\ IsRequest(target')
    BY <1>7, <2>1, FreePath DEF SaveRequest, Saving
  <2>3. Directory' \in AllDirs
    BY <1>2, <2>2 DEF Directory
  <2>4. Requests \in dirs
    BY <1>7 DEF SaveRequest, Importing, DirsInv, Saves
  <2> QED  BY <1>1, <1>7, <2>1, <2>3, <2>4
           DEF SaveRequest, Saving, Goto, DirsInv, Saves, workspaceVars, journalVars, userVars
<1>8. CASE EnsureDirectory
  <2>1. /\ dirs' = dirs \cup Ancestors(Directory)
        /\ created_directories' = created_directories \o Missing(Directory)
        /\ pc = "mkdir" /\ pc' = "snapshot"
        /\ UNCHANGED <<files, target, originals, had>>
    BY <1>8 DEF EnsureDirectory, Goto, userVars
  <2>2. Directory \in AllDirs
    BY <2>1 DEF DirsInv, Saves
  <2>3. Directory \in Seq(Segments)
    BY <2>2, PathFacts
  <2>4. /\ Missing(Directory) \in Seq(AllDirs)
        /\ \A i \in DOMAIN Missing(Directory) : Missing(Directory)[i] \notin dirs
        /\ Ancestors(Directory) \subseteq AllDirs
    BY <1>1, <2>2, MadeDirectories
  <2>5. Missing(Directory) \in Seq(AllDirs \ had)
    BY <1>1, <2>4
  <2>6. created_directories' \in Seq(AllDirs \ had)
    BY <1>1, <2>1, <2>5
  <2>7. /\ dirs' \subseteq AllDirs /\ \A d \in dirs' : Ancestors(d) \subseteq dirs'
        /\ Directory \in dirs'
    BY <1>1, <2>1, <2>3, <2>4, AncestorFacts
  <2>8. target.dir \in dirs' /\ (target # Environment => Requests \in dirs')
    <3>1. CASE target = Manifest
      BY <2>7, <3>1, PathFacts, DifferentFiles DEF Directory
    <3>2. CASE target # Manifest
      BY <1>1, <2>1, <2>7, <3>2 DEF Directory, DirsInv, Saves
    <3> QED  BY <3>1, <3>2
  <2>9. Directory' = Directory
    BY <2>1 DEF Directory
  <2> QED  BY <1>1, <2>1, <2>2, <2>6, <2>7, <2>8, <2>9 DEF DirsInv, Saves
<1>9. CASE Snapshot
  <2>1. DOMAIN originals' = DOMAIN originals \cup {target}
    BY <1>9 DEF Snapshot, SnapshotOnce, Record
  <2> QED  BY <1>1, <1>9, <2>1
           DEF Snapshot, Goto, DirsInv, Saves, Directory, workspaceVars, userVars
<1>10. CASE Write
  <2>1. DOMAIN files' = DOMAIN files \cup {target}
    BY <1>10 DEF Write, With
  <2> QED  BY <1>1, <1>10, <2>1
           DEF Write, Goto, DirsInv, Saves, Directory, journalVars, userVars
<1>11. CASE Commit \/ ImportError \/ Dropped \/ SaveFails
  BY <1>1, <1>11 DEF Commit, ImportError, Dropped, SaveFails, Goto, DirsInv, Saves,
     workspaceVars, journalVars, userVars
<1>12. CASE EnsureDirectoryFails
  <2>1. PICK n \in DOMAIN Missing(Directory) :
          dirs' = dirs \cup {Missing(Directory)[i] : i \in n + 1 .. Len(Missing(Directory))}
    BY <1>12 DEF EnsureDirectoryFails
  <2>2. /\ pc' = "drop" /\ pc = "mkdir"
        /\ UNCHANGED <<files, originals, created_directories, had>>
    BY <1>12 DEF EnsureDirectoryFails, Goto, journalVars, userVars
  <2>3. Directory \in AllDirs
    BY <2>2 DEF DirsInv, Saves
  <2>4. dirs' \subseteq AllDirs /\ \A d \in dirs' : Ancestors(d) \subseteq dirs'
    BY <1>1, <2>1, <2>3, MadeDirectories
  <2> QED  BY <1>1, <2>1, <2>2, <2>4 DEF DirsInv, Saves
<1>13. ASSUME NEW f \in DOMAIN originals, RestoreFile(f) \/ RestoreFails(f)
       PROVE  DirsInv'
  <2>1. /\ pc' = "drop" /\ UNCHANGED <<dirs, created_directories, had>>
        /\ DOMAIN files' \subseteq DOMAIN files \cup {f}
        /\ DOMAIN originals' \subseteq DOMAIN originals
    BY <1>13 DEF RestoreFile, RestoreFails, Forget, With, Without, Restrict,
       workspaceVars, userVars
  <2> QED  BY <1>1, <2>1 DEF DirsInv, Saves
<1>14. CASE RemoveDirectory
  <2>1. /\ pc = "drop" /\ pc' = "drop" /\ created_directories # <<>>
        /\ originals = <<>>
        /\ created_directories' = Tail(created_directories)
        /\ dirs' = IF Empty(Head(created_directories))
                   THEN dirs \ {Head(created_directories)} ELSE dirs
        /\ UNCHANGED <<files, originals, had>>
    BY <1>14 DEF RemoveDirectory, userVars
  <2>2. /\ Head(created_directories) \in AllDirs \ had
        /\ created_directories' \in Seq(AllDirs \ had)
    BY <1>1, <2>1
  <2>3. /\ dirs' \subseteq dirs /\ had \subseteq dirs'
        /\ \A d \in dirs' : Ancestors(d) \subseteq dirs'
        /\ \A f \in DOMAIN files : f.dir \in dirs'
    BY <1>1, <2>1, <2>2 DEF Empty
  <2> QED  BY <1>1, <2>1, <2>2, <2>3 DEF DirsInv, Saves
<1>15. ASSUME NEW f \in DOMAIN files, UpdateRequest(f) \/ DeleteRequest(f)
       PROVE  DirsInv'
  <2>1. /\ UNCHANGED <<dirs, pc, target, created_directories, originals, had>>
        /\ DOMAIN files' \subseteq DOMAIN files
    BY <1>15 DEF UpdateRequest, DeleteRequest, Theirs, With, Without, Restrict, journalVars
  <2> QED  BY <1>1, <2>1 DEF DirsInv, Directory
<1>16. CASE UNCHANGED vars
  BY <1>16 DEF vars, workspaceVars, journalVars, userVars, DirsInv, Directory
<1> QED
  BY <1>4, <1>5, <1>6, <1>7, <1>8, <1>9, <1>10, <1>11, <1>12, <1>13, <1>14, <1>15, <1>16
     DEF Next

LEMMA FilesStep ==
  ASSUME TransactionInv, [Next]_vars
  PROVE  FilesInv'
<1> USE Bounds
<1>1. /\ \A f \in DOMAIN files \cup DOMAIN theirs : f \notin Journalled =>
           f \in DOMAIN files /\ f \in DOMAIN theirs /\ files[f] = theirs[f]
      /\ \A f \in DOMAIN originals :
           originals[f] = IF f \in DOMAIN theirs THEN theirs[f] ELSE NoFile
      /\ \A f \in DOMAIN files : files[f].by \in {"user", "import"}
      /\ \A f \in DOMAIN theirs :
           /\ theirs[f].by = "user"
           /\ IsRequest(f) => f \in RequestFiles /\ f \notin Journalled
      /\ \A f \in Journalled : IsRequest(f) /\ Exists(f) => files[f].by = "import"
  BY DEF FilesInv
<1>2. ASSUME UNCHANGED <<files, originals, theirs, unrestored>>
      PROVE  FilesInv'
  BY <1>1, <1>2 DEF FilesInv, Journalled, Exists
<1>3. CASE CreateCollection \/ SaveEnvironment \/ SaveCollection \/ SaveRequest
  BY <1>2, <1>3 DEF CreateCollection, SaveEnvironment, SaveCollection, SaveRequest,
     workspaceVars, journalVars, userVars
<1>4. CASE EnsureDirectory \/ Commit \/ ImportError \/ EnsureDirectoryFails \/ SaveFails
           \/ RemoveDirectory \/ Dropped
  BY <1>2, <1>4 DEF EnsureDirectory, Commit, ImportError, EnsureDirectoryFails,
     SaveFails, RemoveDirectory, Dropped, workspaceVars, journalVars, userVars
<1>5. CASE Snapshot
  <2>1. /\ UNCHANGED <<files, theirs, unrestored>>
        /\ pc = "snapshot"
        /\ IsRequest(target) => ~Exists(target) /\ target \notin DOMAIN theirs
    BY <1>5 DEF Snapshot, workspaceVars, userVars, SaveInv, Saves
  <2>2. CASE target \in DOMAIN originals
    BY <1>2, <1>5, <2>1, <2>2 DEF Snapshot, SnapshotOnce
  <2>3. CASE target \notin DOMAIN originals
    <3>1. originals' = [g \in DOMAIN originals \cup {target} |->
                          IF g # target THEN originals[g]
                          ELSE IF Exists(target) THEN files[target] ELSE NoFile]
      BY <1>5, <2>3 DEF Snapshot, SnapshotOnce, Record
    <3>2. /\ DOMAIN originals' = DOMAIN originals \cup {target}
          /\ \A g \in DOMAIN originals : originals'[g] = originals[g]
          /\ originals'[target] = IF Exists(target) THEN files[target] ELSE NoFile
      BY <2>3, <3>1
    <3>3. Journalled' = Journalled \cup {target}
      BY <2>1, <3>2 DEF Journalled
    <3>4. originals'[target] = IF target \in DOMAIN theirs THEN theirs[target] ELSE NoFile
      <4>1. target \notin Journalled
        BY <2>1, <2>3 DEF Journalled, SaveInv, Dropping
      <4> QED  BY <1>1, <3>2, <4>1 DEF Exists
    <3> QED  BY <1>1, <2>1, <3>2, <3>3, <3>4 DEF FilesInv, Exists
  <2> QED  BY <2>2, <2>3
<1>6. CASE Write
  <2>1. /\ UNCHANGED <<originals, theirs, unrestored>>
        /\ files' = With(target, payload) /\ payload.by = "import"
        /\ target \in Journalled
        /\ IsRequest(target) => target \notin DOMAIN theirs
    BY <1>6 DEF Write, journalVars, userVars, SaveInv, Saves, Journalled
  <2>2. /\ DOMAIN files' = DOMAIN files \cup {target}
        /\ \A g \in DOMAIN files : g # target => files'[g] = files[g]
        /\ files'[target] = payload
    BY <2>1 DEF With
  <2>3. Journalled' = Journalled
    BY <2>1 DEF Journalled
  <2> QED  BY <1>1, <2>1, <2>2, <2>3 DEF FilesInv, Exists
<1>7. ASSUME NEW f \in DOMAIN originals, RestoreFile(f)
      PROVE  FilesInv'
  <2>1. /\ UNCHANGED <<theirs, unrestored>>
        /\ files' = IF originals[f] = NoFile THEN Without(f) ELSE With(f, originals[f])
        /\ originals' = Restrict(originals, DOMAIN originals \ {f})
    BY <1>7 DEF RestoreFile, Forget, userVars
  <2>2. /\ DOMAIN originals' = DOMAIN originals \ {f}
        /\ \A g \in DOMAIN originals \ {f} : originals'[g] = originals[g]
    BY <2>1 DEF Restrict
  <2>3. /\ \A g : g # f => /\ g \in DOMAIN files' <=> g \in DOMAIN files
                           /\ g \in DOMAIN files => files'[g] = files[g]
    BY <2>1 DEF Without, With, Restrict
  <2>4. \A g : g # f => (g \in Journalled' <=> g \in Journalled)
    BY <2>1, <2>2 DEF Journalled
  <2>5. CASE f \in DOMAIN theirs
    <3>1. originals[f] = theirs[f] /\ theirs[f].by = "user" /\ originals[f] # NoFile
      BY <1>1, <2>5 DEF NoFile
    <3>2. f \in DOMAIN files' /\ files'[f] = theirs[f] /\ ~IsRequest(f)
      BY <1>1, <1>7, <2>1, <2>5, <3>1 DEF With, Journalled
    <3> QED  BY <1>1, <2>1, <2>2, <2>3, <2>4, <2>5, <3>1, <3>2, ZenonT(30) DEF FilesInv, Exists, Journalled
  <2>6. CASE f \notin DOMAIN theirs
    <3>1. f \notin DOMAIN files'
      BY <1>1, <1>7, <2>1, <2>6 DEF Without, Restrict
    <3>2. \A g \in DOMAIN files' \cup DOMAIN theirs : g # f /\ g \in DOMAIN files \cup DOMAIN theirs
      BY <2>3, <2>6, <3>1
    <3>3. \A g \in DOMAIN files' \cup DOMAIN theirs : g \notin Journalled' =>
            g \in DOMAIN files' /\ g \in DOMAIN theirs /\ files'[g] = theirs[g]
      BY <1>1, <2>3, <2>4, <3>2
    <3>4. \A g \in DOMAIN originals' :
            originals'[g] = IF g \in DOMAIN theirs THEN theirs[g] ELSE NoFile
      BY <1>1, <2>2
    <3>5. \A g \in DOMAIN files' : files'[g].by \in {"user", "import"}
      BY <1>1, <2>3, <3>1
    <3>6. \A g \in DOMAIN theirs : IsRequest(g) => g \in RequestFiles /\ g \notin Journalled'
      BY <1>1, <2>4, <2>6
    <3>7. \A g \in Journalled' : IsRequest(g) /\ g \in DOMAIN files' => files'[g].by = "import"
      BY <1>1, <2>3, <2>4, <3>1 DEF Exists
    <3> QED  BY <1>1, <2>1, <3>3, <3>4, <3>5, <3>6, <3>7 DEF FilesInv, Exists
  <2> QED  BY <2>5, <2>6
<1>8. ASSUME NEW f \in DOMAIN originals, RestoreFails(f)
      PROVE  FilesInv'
  <2>1. /\ UNCHANGED <<files, theirs>> /\ unrestored' = unrestored \cup {f}
        /\ originals' = Restrict(originals, DOMAIN originals \ {f})
    BY <1>8 DEF RestoreFails, Forget, workspaceVars, userVars
  <2>2. /\ DOMAIN originals' = DOMAIN originals \ {f}
        /\ \A g \in DOMAIN originals \ {f} : originals'[g] = originals[g]
    BY <2>1 DEF Restrict
  <2>3. Journalled' = Journalled
    BY <2>1, <2>2 DEF Journalled
  <2> QED  BY <1>1, <2>1, <2>2, <2>3 DEF FilesInv, Exists
<1>9. ASSUME NEW f \in DOMAIN files, UpdateRequest(f) \/ DeleteRequest(f)
      PROVE  FilesInv'
  <2>1. UNCHANGED <<originals, unrestored>> /\ IsRequest(f) /\ files[f].by = "user"
    BY <1>9 DEF UpdateRequest, DeleteRequest, Theirs, journalVars
  <2>2. f \notin Journalled /\ f \in DOMAIN theirs /\ Journalled' = Journalled
    BY <1>1, <2>1 DEF Exists, Journalled
  <2>3. \A g : g # f => /\ g \in DOMAIN files' <=> g \in DOMAIN files
                        /\ g \in DOMAIN files => files'[g] = files[g]
                        /\ g \in DOMAIN theirs' <=> g \in DOMAIN theirs
                        /\ g \in DOMAIN theirs => theirs'[g] = theirs[g]
    BY <1>9, <2>2 DEF UpdateRequest, DeleteRequest, With, Without, Restrict
  <2>4. \/ /\ f \in DOMAIN files' /\ f \in DOMAIN theirs'
           /\ files'[f] = theirs'[f] /\ theirs'[f].by = "user"
        \/ f \notin DOMAIN files' /\ f \notin DOMAIN theirs'
    BY <1>9, <2>2 DEF UpdateRequest, DeleteRequest, With, Without, Restrict, User
  <2>5. f \notin DOMAIN originals
    BY <2>2 DEF Journalled
  <2> QED  BY <1>1, <2>1, <2>2, <2>3, <2>4, <2>5 DEF FilesInv, Exists
<1>10. CASE UNCHANGED vars
  BY <1>2, <1>10 DEF vars, workspaceVars, journalVars, userVars
<1> QED
  BY <1>3, <1>4, <1>5, <1>6, <1>7, <1>8, <1>9, <1>10 DEF Next

LEMMA SaveStep ==
  ASSUME TransactionInv, [Next]_vars
  PROVE  SaveInv'
<1> USE Bounds
<1>1. /\ pc \in {"start", "ready", "committed", "drop", "rolled back"} \cup Saves
      /\ pc = "start" => manifests = 0
      /\ pc \in Saves =>
           /\ payload.by = "import"
           /\ target = Manifest => payload = Import(manifests + 1) /\ manifests < MaxManifests
           /\ IsRequest(target) =>
                /\ ~Exists(target) /\ target \notin DOMAIN theirs
                /\ payload = Import(requests + 1) /\ requests < MaxRequests
      /\ pc = "write" => target \in DOMAIN originals
      /\ pc = "rolled back" => originals = <<>>
      /\ ~Dropping => unrestored = {}
  BY DEF SaveInv
<1>2. Import(1).by = "import" /\ \A v : Import(v).by = "import"
  BY DEF Import
<1>3. CASE CreateCollection \/ SaveEnvironment
  <2>1. /\ pc = "start" /\ pc' = "mkdir" /\ payload' = Import(1)
        /\ target' = Manifest \/ target' = Environment
        /\ UNCHANGED <<requests, manifests, originals, unrestored>>
    BY <1>3 DEF CreateCollection, SaveEnvironment, Saving, Goto, journalVars
  <2>2. manifests = 0 /\ ~IsRequest(target') /\ ~Dropping
    BY <1>1, <2>1 DEF Dropping
  <2> QED  BY <1>1, <1>2, <2>1, <2>2 DEF SaveInv, Saves, Dropping
<1>4. CASE SaveCollection
  BY <1>1, <1>2, <1>4
     DEF SaveCollection, Importing, Saving, Goto, SaveInv, Saves, Dropping, Exists,
         workspaceVars, journalVars, userVars
<1>5. CASE SaveRequest
  <2>1. PICK folder \in Folders, n \in Names, p \in Prefixes :
          Saving(RequestPath(folder, n, p), Import(requests + 1), "mkdir")
    BY <1>5 DEF SaveRequest
  <2>2. /\ ~Exists(target') /\ IsRequest(target') /\ target' \notin DOMAIN theirs
        /\ requests < MaxRequests
    BY <1>5, <2>1, FreePath DEF SaveRequest, Saving
  <2>3. target' # Manifest
    BY <2>2
  <2> QED  BY <1>1, <1>2, <1>5, <2>1, <2>2, <2>3
           DEF SaveRequest, Importing, Saving, Goto, SaveInv, Saves, Dropping, Exists,
               workspaceVars, journalVars, userVars
<1>6. CASE EnsureDirectory \/ Commit \/ ImportError \/ EnsureDirectoryFails \/ SaveFails
           \/ RemoveDirectory \/ Dropped
  BY <1>1, <1>6
     DEF EnsureDirectory, Commit, ImportError, EnsureDirectoryFails, SaveFails,
         RemoveDirectory, Dropped, Goto, SaveInv, Saves, Dropping, Exists,
         workspaceVars, journalVars, userVars
<1>7. CASE Snapshot
  <2>1. target \in DOMAIN originals'
    BY <1>7 DEF Snapshot, SnapshotOnce, Record
  <2> QED  BY <1>1, <1>7, <2>1
           DEF Snapshot, Goto, SaveInv, Saves, Dropping, Exists, workspaceVars, userVars
<1>8. CASE Write
  <2>1. /\ requests' \in 0 .. MaxRequests /\ manifests' \in 0 .. MaxManifests
    BY <1>1, <1>8 DEF Write, Saves
  <2> QED  BY <1>1, <1>8, <2>1
           DEF Write, Goto, SaveInv, Saves, Dropping, journalVars, userVars
<1>9. ASSUME NEW f \in DOMAIN originals, RestoreFile(f) \/ RestoreFails(f)
      PROVE  SaveInv'
  BY <1>1, <1>9 DEF RestoreFile, RestoreFails, SaveInv, Saves, Dropping
<1>10. ASSUME NEW f \in DOMAIN files, UpdateRequest(f) \/ DeleteRequest(f)
       PROVE  SaveInv'
  <2>1. /\ UNCHANGED <<pc, target, payload, originals, requests, manifests, unrestored>>
        /\ DOMAIN files' \subseteq DOMAIN files /\ DOMAIN theirs' \subseteq DOMAIN theirs
    BY <1>10 DEF UpdateRequest, DeleteRequest, Theirs, With, Without, Restrict, journalVars
  <2> QED  BY <1>1, <2>1 DEF SaveInv, Saves, Dropping, Exists
<1>11. CASE UNCHANGED vars
  BY <1>1, <1>11 DEF vars, workspaceVars, journalVars, userVars, SaveInv, Saves, Dropping, Exists
<1> QED
  BY <1>3, <1>4, <1>5, <1>6, <1>7, <1>8, <1>9, <1>10, <1>11 DEF Next

LEMMA ImportStep ==
  ASSUME TransactionInv, [Next]_vars
  PROVE  ImportInv'
<1> USE Bounds
<1>1. /\ \A f \in Brought : \E k \in 1 .. requests : files[f] = Import(k)
      /\ \A f, g \in Brought : files[f] = files[g] => f = g
      /\ ~Dropping =>
           /\ \A k \in 1 .. requests : \E f \in Brought : files[f] = Import(k)
           /\ manifests > 0 => Exists(Manifest) /\ files[Manifest] = Import(manifests)
  BY DEF ImportInv
<1>2. ASSUME UNCHANGED <<files, requests, manifests>>, Dropping => Dropping'
      PROVE  ImportInv'
  BY <1>1, <1>2 DEF ImportInv, Brought, Exists
<1>3. CASE CreateCollection \/ SaveEnvironment \/ SaveCollection \/ SaveRequest
  BY <1>2, <1>3 DEF CreateCollection, SaveEnvironment, SaveCollection, SaveRequest,
     Importing, Dropping, workspaceVars
<1>4. CASE EnsureDirectory \/ Commit \/ ImportError \/ EnsureDirectoryFails \/ SaveFails
           \/ RemoveDirectory \/ Dropped \/ Snapshot
  BY <1>2, <1>4 DEF EnsureDirectory, Commit, ImportError, EnsureDirectoryFails,
     SaveFails, RemoveDirectory, Dropped, Snapshot, Importing, Dropping, Goto, workspaceVars
<1>5. CASE Write
  <2>1. /\ files' = With(target, payload) /\ payload.by = "import"
        /\ pc = "write" /\ ~Dropping /\ ~Dropping'
    BY <1>5 DEF Write, SaveInv, Saves, Dropping, Goto
  <2>2. /\ DOMAIN files' = DOMAIN files \cup {target}
        /\ \A g \in DOMAIN files : g # target => files'[g] = files[g]
        /\ files'[target] = payload
    BY <2>1 DEF With
  <2>3. CASE IsRequest(target)
    <3>1. /\ target \notin DOMAIN files /\ payload = Import(requests + 1)
          /\ requests' = requests + 1 /\ manifests' = manifests /\ target # Manifest
      BY <1>5, <2>1, <2>3 DEF Write, SaveInv, Saves, Exists
    <3>2. Brought' = Brought \cup {target}
      BY <2>1, <2>2, <2>3, <3>1 DEF Brought
    <3>3. target \notin Brought /\ \A g \in Brought : g # target /\ files'[g] = files[g]
      BY <2>2, <3>1 DEF Brought
    <3>4. \A k \in 1 .. requests : Import(k) # Import(requests + 1)
      BY DEF Import
    <3>5. 1 .. requests' = 1 .. requests \cup {requests + 1}
      BY <3>1
    <3>6. \A f, g \in Brought' : files'[f] = files'[g] => f = g
      BY <1>1, <2>2, <3>1, <3>2, <3>3, <3>4
    <3>7. \A f \in Brought' : \E k \in 1 .. requests' : files'[f] = Import(k)
      BY <1>1, <2>2, <3>1, <3>2, <3>3, <3>5
    <3>8. \A k \in 1 .. requests' : \E f \in Brought' : files'[f] = Import(k)
      BY <1>1, <2>1, <2>2, <3>1, <3>2, <3>3, <3>5
    <3>9. manifests' > 0 => Manifest \in DOMAIN files' /\ files'[Manifest] = Import(manifests')
      BY <1>1, <2>1, <2>2, <3>1 DEF Exists
    <3> QED  BY <3>6, <3>7, <3>8, <3>9 DEF ImportInv, Exists
  <2>4. CASE ~IsRequest(target)
    <3>1. Brought' = Brought /\ \A g \in Brought : files'[g] = files[g]
      BY <2>2, <2>4 DEF Brought
    <3>2. requests' = requests
      BY <1>5, <2>4 DEF Write
    <3>3. manifests' > 0 => Manifest \in DOMAIN files' /\ files'[Manifest] = Import(manifests')
      BY <1>1, <1>5, <2>1, <2>2 DEF Write, SaveInv, Saves, Exists
    <3> QED  BY <1>1, <2>1, <3>1, <3>2, <3>3 DEF ImportInv, Exists
  <2> QED  BY <2>3, <2>4
<1>6. ASSUME NEW f \in DOMAIN originals, RestoreFile(f)
      PROVE  ImportInv'
  <2>1. Dropping' /\ UNCHANGED <<requests, manifests>>
    BY <1>6 DEF RestoreFile, Dropping
  <2>2. originals[f].by # "import"
    BY DEF FilesInv, NoFile
  <2>3. Brought' \subseteq Brought /\ \A g \in Brought' : files'[g] = files[g]
    BY <1>6, <2>2 DEF RestoreFile, With, Without, Restrict, Brought
  <2> QED  BY <1>1, <2>1, <2>3 DEF ImportInv
<1>7. ASSUME NEW f \in DOMAIN originals, RestoreFails(f)
      PROVE  ImportInv'
  BY <1>2, <1>7 DEF RestoreFails, Dropping, workspaceVars
<1>8. ASSUME NEW f \in DOMAIN files, UpdateRequest(f) \/ DeleteRequest(f)
      PROVE  ImportInv'
  <2>1. /\ UNCHANGED <<pc, requests, manifests>>
        /\ IsRequest(f) /\ files[f].by = "user" /\ f # Manifest
    BY <1>8 DEF UpdateRequest, DeleteRequest, Theirs
  <2>2. \A g : g # f => /\ g \in DOMAIN files' <=> g \in DOMAIN files
                        /\ g \in DOMAIN files => files'[g] = files[g]
    BY <1>8 DEF UpdateRequest, DeleteRequest, With, Without, Restrict
  <2>3. f \in DOMAIN files' => files'[f].by = "user"
    BY <1>8 DEF UpdateRequest, DeleteRequest, With, Without, Restrict, User
  <2>4. Brought' = Brought /\ \A g \in Brought : files'[g] = files[g]
    BY <2>1, <2>2, <2>3 DEF Brought
  <2>5. Exists(Manifest) => Exists(Manifest)' /\ files'[Manifest] = files[Manifest]
    BY <2>1, <2>2 DEF Exists
  <2>6. /\ \A g \in Brought' : \E k \in 1 .. requests' : files'[g] = Import(k)
        /\ \A g, h \in Brought' : files'[g] = files'[h] => g = h
    BY <1>1, <2>1, <2>4
  <2>7. ~Dropping' =>
          /\ \A k \in 1 .. requests' : \E g \in Brought' : files'[g] = Import(k)
          /\ manifests' > 0 => Exists(Manifest)' /\ files'[Manifest] = Import(manifests')
    BY <1>1, <2>1, <2>4, <2>5 DEF Dropping
  <2> QED  BY <2>6, <2>7 DEF ImportInv
<1>9. CASE UNCHANGED vars
  BY <1>2, <1>9 DEF vars, workspaceVars, Dropping
<1> QED
  BY <1>3, <1>4, <1>5, <1>6, <1>7, <1>8, <1>9 DEF Next

LEMMA TransactionInvariant == Spec => []TransactionInv
<1>1. Init => TransactionInv
  BY InitInv
<1>2. TransactionInv /\ [Next]_vars => TransactionInv'
  BY DirsStep, FilesStep, SaveStep, ImportStep DEF TransactionInv
<1> QED  BY <1>1, <1>2, PTL DEF Spec

(***************************************************************************)
(* What the import promises                                                *)
(***************************************************************************)
(* Types, for any folders, names and bounds: directories are closed under     *)
(* parents and files are in them, however the import and its rollback end.    *)
THEOREM TransactionTypeCorrect == Spec => []TypeOK
<1>1. TransactionInv => TypeOK
  <2> SUFFICES ASSUME TransactionInv PROVE TypeOK
    OBVIOUS
  <2>1. \A i \in DOMAIN created_directories : created_directories[i] \in AllDirs
    BY Bounds DEF DirsInv
  <2>2. \A f \in DOMAIN originals : originals[f].by \in {"user", "nobody"}
    BY Bounds DEF FilesInv, NoFile
  <2>3. /\ dirs \subseteq AllDirs /\ \A d \in dirs : Ancestors(d) \subseteq dirs
        /\ \A f \in DOMAIN files : f.dir \in dirs /\ files[f].by \in {"user", "import"}
    BY Bounds DEF DirsInv, FilesInv
  <2>4. pc \in {"start", "ready", "mkdir", "snapshot", "write", "committed", "drop",
                "rolled back"}
    BY Bounds DEF SaveInv, Saves
  <2> QED  BY <2>1, <2>2, <2>3, <2>4, Bounds DEF TypeOK
<1> QED  BY <1>1, TransactionInvariant, PTL

(* Each request of the user's is on disk as the user last saved it at every   *)
(* moment of an import, of its failure and of its rollback.                   *)
THEOREM ImportKeepsUserRequests == Spec => []UserRequestsSurvive
<1>1. TransactionInv => UserRequestsSurvive
  BY DEF TransactionInv, FilesInv, UserRequestsSurvive, Exists
<1> QED  BY <1>1, TransactionInvariant, PTL

(* No directory that was there before the import is ever removed.            *)
THEOREM ImportKeepsDirectories == Spec => []OldDirectoriesStay
<1>1. TransactionInv => OldDirectoriesStay
  BY DEF TransactionInv, DirsInv, OldDirectoriesStay
<1> QED  BY <1>1, TransactionInvariant, PTL

(* After a failed import the files are the user's, except those whose own      *)
(* restoration failed.                                                        *)
THEOREM FailedImportLeavesUsersFiles == Spec => []RollbackRestoresFiles
<1>1. TransactionInv => RollbackRestoresFiles
  <2> SUFFICES ASSUME TransactionInv, pc = "rolled back",
                      NEW f \in (DOMAIN files \cup DOMAIN theirs) \ unrestored
               PROVE  Exists(f) /\ f \in DOMAIN theirs /\ files[f] = theirs[f]
    BY DEF RollbackRestoresFiles
  <2>1. originals = <<>>
    BY DEF TransactionInv, SaveInv
  <2>2. f \notin Journalled
    <3>1. DOMAIN originals = {}
      BY <2>1, EmptyDomain
    <3> QED  BY <3>1 DEF Journalled
  <2> QED  BY <2>2 DEF TransactionInv, FilesInv, Exists
<1> QED  BY <1>1, TransactionInvariant, PTL

(* A committed import left every request it brought in a file of its own and  *)
(* the manifest as last written, whatever the names and ids that clash.       *)
THEOREM CommittedImportKeepsRequests == Spec => []CommittedImportIsComplete
<1>1. TransactionInv => CommittedImportIsComplete
  <2> SUFFICES ASSUME TransactionInv, pc = "committed"
               PROVE  /\ \A k \in 1 .. requests :
                           \E f \in DOMAIN files : IsRequest(f) /\ files[f] = Import(k)
                      /\ manifests > 0 => files[Manifest] = Import(manifests)
    BY DEF CommittedImportIsComplete
  <2>1. ~Dropping
    BY DEF Dropping
  <2> QED  BY <2>1 DEF TransactionInv, ImportInv, Brought
<1> QED  BY <1>1, TransactionInvariant, PTL
=============================================================================
