---------------------------- MODULE ArchivesProofs ----------------------------
(***************************************************************************)
(* Proofs about Archives: for every archive, in either format, and for     *)
(* every directory and whatever its owner does to it.                      *)
(*                                                                         *)
(* Extraction.  Whichever file takes the archive's place after it was      *)
(* verified, everything is written below real directories of the           *)
(* destination (StaysInside): trees are closed, that is every path in them *)
(* is safe and has directories above it, and each thing the extraction     *)
(* does keeps them so.  If no file takes its place, what is there in the   *)
(* end is what was verified (ExtractedIsVerified): after each entry the    *)
(* tree is the entries up to it and the directories above them.            *)
(*                                                                         *)
(* The directory.  A configure names no entry that is missing (the         *)
(* property ConfigureKeepsEntry), a pack cleans up (PackCleansUp) and      *)
(* publishes a recovery root, the one in the directory (PackedIsSource).   *)
(***************************************************************************)
EXTENDS Archives, ConfigFileProofs

-----------------------------------------------------------------------------
(* Closed trees.                                                            *)

DirectoryAt(tree, path) == path \in DOMAIN tree /\ tree[path].kind = "dir"

Closed(tree) ==
  \A path \in DOMAIN tree :
    IsPath(path) /\ \A parent \in Parents(path) : DirectoryAt(tree, parent)

-----------------------------------------------------------------------------
(* Paths.                                                                   *)

LEMMA OwnElements ==
  ASSUME NEW S, NEW s \in Seq(S)  PROVE s \in Seq(ToSet(s))
BY LenProperties DEF ToSet

\* What is above a path is a shorter path with the same components, and is
\* above it with everything above that.
LEMMA ParentFacts ==
  ASSUME NEW path, IsName(path), NEW parent \in Parents(path)
  PROVE  /\ IsName(parent)
         /\ Len(parent) < Len(path)
         /\ \A i \in 1..Len(parent) : parent[i] = path[i]
         /\ Parents(parent) \subseteq Parents(path)
<1>1. PICK k \in 1..(Len(path) - 1) : parent = SubSeq(path, 1, k)
  BY DEF Parents
<1>2. path \in Seq(ToSet(path)) /\ Len(path) \in Nat
  BY LenProperties DEF IsName
<1>3. \A i \in 1..k : path[i] \in ToSet(path)
  BY <1>2, ElementOfSeq
<1>4. /\ parent \in Seq(ToSet(path))
      /\ Len(parent) = k
      /\ \A i \in 1..k : parent[i] = path[i]
  BY <1>1, <1>2, <1>3, SubSeqProperties
<1>5. ASSUME NEW above \in Parents(parent)  PROVE above \in Parents(path)
  <2>1. PICK j \in 1..(k - 1) : above = SubSeq(parent, 1, j)
    BY <1>4, <1>5 DEF Parents
  <2>2. above = SubSeq(path, 1, j)
    BY <2>1, <1>1, <1>2, <1>4, SubSeqOfSubSeq
  <2> QED BY <2>1, <2>2, <1>2 DEF Parents
<1>6. parent \in Seq(ToSet(parent))
  BY <1>4, OwnElements
<1> QED BY <1>1, <1>2, <1>4, <1>5, <1>6 DEF IsName, NoName

LEMMA NameFacts ==
  ASSUME NEW name, IsName(name)
  PROVE  /\ name \in Seq(ToSet(name))
         /\ Len(name) \in Nat \ {0}
         /\ DOMAIN name = 1..Len(name)
         /\ \A i \in 1..Len(name) : name[i] \in ToSet(name)
BY LenProperties, EmptySeq, ElementOfSeq DEF IsName, NoName

LEMMA SafeParent ==
  ASSUME NEW path, IsPath(path), NEW parent \in Parents(path)
  PROVE  IsPath(parent) /\ parent # path
<1>1. IsName(path) /\ \A i \in 1..Len(path) : path[i] \notin Special
  BY DEF IsPath
<1>2. /\ IsName(parent) /\ Len(parent) < Len(path)
      /\ \A i \in 1..Len(parent) : parent[i] = path[i]
  BY <1>1, ParentFacts
<1>3. Len(path) \in Nat /\ Len(parent) \in Nat
  BY <1>1, <1>2, NameFacts
<1>4. \A i \in 1..Len(parent) : i \in 1..Len(path)
  BY <1>2, <1>3
<1>5. parent # path
  BY <1>2, <1>3
<1> QED BY <1>1, <1>2, <1>4, <1>5 DEF IsPath

LEMMA OneComponent ==
  ASSUME NEW c, c \notin Special
  PROVE  IsPath(<<c>>) /\ Parents(<<c>>) = {}
<1>1. Len(<<c>>) = 1 /\ <<c>>[1] = c /\ <<c>> # <<>>
  OBVIOUS
<1>2. <<c>> \in Seq(ToSet(<<c>>))
  <2>1. <<c>> \in Seq({c})
    OBVIOUS
  <2> QED BY <2>1, OwnElements
<1>3. 1..(1 - 1) = {} /\ \A i \in 1..1 : i = 1
  OBVIOUS
<1>4. Parents(<<c>>) = {}
  BY <1>1, <1>3 DEF Parents
<1>5. IsPath(<<c>>)
  BY <1>1, <1>2, <1>3 DEF IsPath, IsName, NoName
<1> QED BY <1>4, <1>5

\* A valid name in a CPIO archive is a safe path, with or without a slash at
\* its end.
LEMMA CpioPath ==
  ASSUME NEW name, IsName(name), ValidArchiveName(name)
  PROVE  /\ IsPath(PathOf(name))
         /\ Last(name) # Nothing => PathOf(name) = name
         /\ Last(name) = Nothing => PathOf(name) \in Parents(name)
         /\ \A parent \in Parents(name) : IsPath(parent)
         /\ Parents(PathOf(name)) \subseteq Parents(name)
<1>1. /\ Len(name) \in Nat \ {0}
      /\ \A i \in 1..Len(name) :
           name[i] \in Special => name[i] = Nothing /\ i = Len(name)
      /\ name[1] # Nothing
  BY NameFacts DEF ValidArchiveName
<1>2. \A parent \in Parents(name) : IsPath(parent)
  <2> SUFFICES ASSUME NEW parent \in Parents(name)  PROVE IsPath(parent)
    OBVIOUS
  <2>1. /\ IsName(parent) /\ Len(parent) < Len(name)
        /\ \A i \in 1..Len(parent) : parent[i] = name[i]
    BY ParentFacts
  <2>2. Len(parent) \in Nat
    BY <2>1, NameFacts
  <2>3. Len(name) \in Nat
    BY <1>1
  <2>4. \A i \in 1..Len(parent) : i \in 1..Len(name) /\ i # Len(name)
    BY <2>1, <2>2, <2>3
  <2> QED BY <2>1, <2>4, <1>1 DEF IsPath
<1>3. CASE Last(name) # Nothing
  BY <1>1, <1>2, <1>3 DEF IsPath, PathOf, Last
<1>4. CASE Last(name) = Nothing
  <2>1. Len(name) \in Nat /\ Len(name) >= 1 /\ Len(name) # 1
    BY <1>1, <1>4 DEF Last
  <2>2. Len(name) - 1 \in 1..(Len(name) - 1)
    <3>1. \A n \in Nat : n >= 1 /\ n # 1 => n - 1 \in 1..(n - 1)
      OBVIOUS
    <3> QED BY ONLY <2>1, <3>1
  <2>3. PathOf(name) = SubSeq(name, 1, Len(name) - 1)
    BY <1>4 DEF PathOf, Front
  <2>4. PathOf(name) \in Parents(name)
    BY <2>2, <2>3 DEF Parents
  <2> QED BY <2>4, <1>2, <1>4, ParentFacts
<1> QED BY <1>3, <1>4

\* Without "./" in front and slashes at the end a name is still a sequence.
LEMMA TrimmedFacts ==
  ASSUME NEW name, IsName(name)
  PROVE  Trimmed(name) \in Seq(ToSet(name))
<1> DEFINE dots == {i \in 1..(Len(name) - 1) : \A j \in 1..i : name[j] = "."}
           first == 1 + Cardinality(dots)
           blanks == {i \in first..Len(name) :
                        \A j \in i..Len(name) : name[j] = Nothing}
<1>1. Len(name) \in Nat /\ \A i \in 1..Len(name) : name[i] \in ToSet(name)
  BY NameFacts
<1>2. Cardinality(dots) \in Nat
  <2>1. IsFiniteSet(1..(Len(name) - 1))
    BY <1>1, FS_Interval
  <2> QED BY <2>1, FS_Subset, FS_CardinalityType
<1>3. Cardinality(blanks) \in Nat
  <2>1. IsFiniteSet(first..Len(name))
    BY <1>1, <1>2, FS_Interval
  <2> HIDE DEF first
  <2> QED BY <2>1, FS_Subset, FS_CardinalityType
<1>4. Trimmed(name) = SubSeq(name, first, Len(name) - Cardinality(blanks))
  BY DEF Trimmed
<1>5. first \in Nat \ {0}
  <2> HIDE DEF dots
  <2> QED BY <1>2
<1> HIDE DEF first, blanks
<1>6. Len(name) - Cardinality(blanks) \in Int
  BY <1>1, <1>3
<1>7. \A i \in first..(Len(name) - Cardinality(blanks)) : name[i] \in ToSet(name)
  <2> TAKE i \in first..(Len(name) - Cardinality(blanks))
  <2>1. i \in 1..Len(name)
    BY <1>1, <1>3, <1>5
  <2> QED BY <2>1, <1>1
<1> QED BY <1>4, <1>5, <1>6, <1>7, SubSeqProperties

\* What is left of a safe path is safe, unless nothing is.
LEMMA StrippedSafe ==
  ASSUME NEW S, NEW path \in Seq(S), NEW prefix, Len(prefix) \in Nat,
         Stripped(path, prefix) # NoName,
         \A i \in DOMAIN path : path[i] \notin Special
  PROVE  IsPath(Stripped(path, prefix))
<1>1. PICK m \in Nat : m = Len(prefix) + 1 /\ m >= 1
  OBVIOUS
<1>2. PICK n \in Nat : n = Len(path) /\ DOMAIN path = 1..n
  BY LenProperties
<1> DEFINE short == SubSeq(path, m, n)
<1>3. \A i \in m..n : i \in 1..n /\ path[i] \in S
  <2>1. \A i \in m..n : i \in 1..n
    BY <1>1
  <2> QED BY <2>1, <1>2, ElementOfSeq
<1>4. /\ short \in Seq(S)
      /\ Len(short) = IF m <= n THEN n - m + 1 ELSE 0
      /\ \A i \in 1..(n - m + 1) : short[i] = path[m + i - 1]
  BY <1>3, SubSeqProperties
<1>5. Stripped(path, prefix) = short
  BY <1>1, <1>2 DEF Stripped
<1> HIDE DEF short
<1>6. ASSUME NEW i \in 1..Len(short)  PROVE short[i] \notin Special
  <2>1. i \in 1..(n - m + 1) /\ m + i - 1 \in 1..n
    BY <1>1, <1>4
  <2> QED BY <2>1, <1>2, <1>4
<1>7. short \in Seq(ToSet(short))
  BY <1>4, OwnElements
<1> QED BY <1>5, <1>6, <1>7 DEF IsPath, IsName

-----------------------------------------------------------------------------
(* Trees.                                                                   *)

\* Directories are made, with all that is above them, where nothing else is.
LEMMA AddDirectories ==
  ASSUME NEW tree, Closed(tree), NEW paths,
         \A p \in paths : IsPath(p) /\ Parents(p) \subseteq paths,
         \A p \in paths \cap DOMAIN tree : tree[p].kind = "dir"
  PROVE  LET new == WithDirectories(tree, paths)
         IN  /\ Closed(new)
             /\ \A p \in paths : DirectoryAt(new, p)
             /\ DOMAIN new = DOMAIN tree \cup paths
             /\ \A p \in DOMAIN tree : new[p] = tree[p]
<1> DEFINE new == WithDirectories(tree, paths)
<1>1. DOMAIN new = DOMAIN tree \cup paths
  BY DEF WithDirectories
<1>2. \A p \in DOMAIN tree : new[p] = tree[p]
  BY DEF WithDirectories
<1>3. \A p \in paths : DirectoryAt(new, p)
  BY DEF WithDirectories, DirectoryAt, Directory, Node
<1> HIDE DEF new
<1>4. Closed(new)
  BY <1>1, <1>2, <1>3 DEF Closed, DirectoryAt
<1> QED BY <1>1, <1>2, <1>3, <1>4 DEF new

\* A node is put below directories, and it is one or has nothing below it.
LEMMA AddNode ==
  ASSUME NEW tree, Closed(tree), NEW path, IsPath(path), NEW node,
         \A parent \in Parents(path) : DirectoryAt(tree, parent),
         node.kind = "dir" \/ \A p \in DOMAIN tree : path \notin Parents(p)
  PROVE  Closed(WithNode(tree, path, node))
<1> DEFINE new == WithNode(tree, path, node)
<1>1. DOMAIN new = DOMAIN tree \cup {path}
  BY DEF WithNode
<1>2. \A p \in DOMAIN new : new[p] = IF p = path THEN node ELSE tree[p]
  BY DEF WithNode
<1> HIDE DEF new
<1> SUFFICES ASSUME NEW p \in DOMAIN new
             PROVE  IsPath(p) /\ \A parent \in Parents(p) : DirectoryAt(new, parent)
  BY DEF Closed, new
<1>3. CASE p = path
  BY <1>1, <1>2, <1>3, SafeParent DEF DirectoryAt
<1>4. CASE p # path
  BY <1>1, <1>2, <1>4 DEF DirectoryAt, Closed
<1> QED BY <1>3, <1>4

\* What is no directory is taken away.
LEMMA TakeAway ==
  ASSUME NEW tree, Closed(tree), NEW paths,
         \A p \in paths : tree[p].kind # "dir"
  PROVE  Closed(Without(tree, paths))
<1> DEFINE new == Without(tree, paths)
<1>1. DOMAIN new = DOMAIN tree \ paths /\ \A p \in DOMAIN new : new[p] = tree[p]
  BY DEF Without
<1> HIDE DEF new
<1>2. Closed(new)
  BY <1>1 DEF Closed, DirectoryAt
<1> QED BY <1>2 DEF new

-----------------------------------------------------------------------------
(* One entry.                                                               *)

\* Whatever tree an entry of a CPIO archive gives is closed, and nothing that
\* was there has changed.
LEMMA CpioTreesClosed ==
  ASSUME NEW tree, Closed(tree), NEW e, IsName(e.name),
         NEW new \in CpioTrees(tree, e)
  PROVE  /\ Closed(new)
         /\ \A p \in DOMAIN tree : p \in DOMAIN new /\ new[p] = tree[p]
<1> DEFINE name == e.name
           path == PathOf(name)
           parents == WithDirectories(tree, Parents(name))
<1>1. /\ ValidArchiveName(name) /\ SafeParents(tree, name)
      /\ \/ path \in DOMAIN parents /\ new = parents
         \/ /\ path \notin DOMAIN parents
            /\ new = WithNode(parents, path, Made(e))
  BY DEF CpioTrees
<1>2. /\ IsPath(path) /\ Parents(path) \subseteq Parents(name)
      /\ \A parent \in Parents(name) : IsPath(parent)
  BY <1>1, CpioPath
<1>3. /\ Closed(parents)
      /\ \A p \in Parents(name) : DirectoryAt(parents, p)
      /\ DOMAIN parents = DOMAIN tree \cup Parents(name)
      /\ \A p \in DOMAIN tree : parents[p] = tree[p]
  <2>1. \A p \in Parents(name) : IsPath(p) /\ Parents(p) \subseteq Parents(name)
    BY <1>2, ParentFacts
  <2>2. \A p \in Parents(name) \cap DOMAIN tree : tree[p].kind = "dir"
    BY <1>1 DEF SafeParents
  <2> HIDE DEF name
  <2> QED BY <2>1, <2>2, AddDirectories
<1> HIDE DEF name, path, parents
<1>4. CASE path \in DOMAIN parents /\ new = parents
  BY <1>3, <1>4
<1>5. CASE /\ path \notin DOMAIN parents
           /\ new = WithNode(parents, path, Made(e))
  <2>1. \A p \in DOMAIN parents : path \notin Parents(p)
    BY <1>3, <1>5 DEF Closed, DirectoryAt
  <2>2. Closed(new)
    BY <2>1, <1>2, <1>3, <1>5, AddNode
  <2> QED BY <2>2, <1>3, <1>5 DEF WithNode
<1> QED BY <1>1, <1>4, <1>5

\* A symbolic link that is put off has its directories.
LEMMA CpioPutOffClosed ==
  ASSUME NEW tree, Closed(tree), NEW e, IsName(e.name),
         NEW new \in CpioPutOff(tree, e)
  PROVE  /\ Closed(new)
         /\ \A p \in DOMAIN tree : p \in DOMAIN new /\ new[p] = tree[p]
         /\ ValidArchiveName(e.name)
         /\ \A p \in Parents(e.name) : DirectoryAt(new, p)
<1> DEFINE name == e.name
<1>1. /\ ValidArchiveName(name) /\ SafeParents(tree, name)
      /\ new = WithDirectories(tree, Parents(name))
  BY DEF CpioPutOff
<1>2. \A p \in Parents(name) : IsPath(p) /\ Parents(p) \subseteq Parents(name)
  BY <1>1, CpioPath, ParentFacts
<1>3. \A p \in Parents(name) \cap DOMAIN tree : tree[p].kind = "dir"
  BY <1>1 DEF SafeParents
<1> HIDE DEF name
<1>4. /\ Closed(new)
      /\ \A p \in Parents(name) : DirectoryAt(new, p)
      /\ DOMAIN new = DOMAIN tree \cup Parents(name)
      /\ \A p \in DOMAIN tree : new[p] = tree[p]
  BY <1>1, <1>2, <1>3, AddDirectories
<1> QED BY <1>1, <1>4 DEF name

\* Whatever tree an entry of a tar archive gives is closed.
LEMMA TarTreesClosed ==
  ASSUME NEW tree, Closed(tree), NEW e, IsName(e.name),
         Len(info.prefix) \in Nat,
         ~TarRefuses(e), ~TarSkips(e),
         NEW new \in TarTrees(tree, e)
  PROVE  Closed(new)
<1> DEFINE path == TarPath(e)
           onTheWay == Parents(path) \cap DOMAIN tree
           files == {p \in onTheWay : tree[p].kind # "dir"}
           kept == Without(tree, files)
           parents == WithDirectories(kept, Parents(path))
<1>1. PICK node : /\ new = WithNode(parents, path, node)
                  /\ e.kind # "hard" => node = Made(e)
  BY DEF TarTrees
<1>2. e.kind # "dir" => \A p \in DOMAIN tree : path \notin Parents(p)
  BY DEF TarTrees
<1>3. IsPath(path)
  <2>1. \A i \in DOMAIN Trimmed(e.name) : Trimmed(e.name)[i] \notin Special
    BY DEF TarRefuses, TarSkips, SafeTarName
  <2>2. Trimmed(e.name) \in Seq(ToSet(e.name))
    BY TrimmedFacts
  <2>3. path # NoName /\ path = Stripped(Trimmed(e.name), info.prefix)
    BY DEF TarSkips, TarPath
  <2> QED BY <2>1, <2>2, <2>3, StrippedSafe
<1>4. \A p \in Parents(path) :
        IsPath(p) /\ Parents(p) \subseteq Parents(path) /\ p # path
  BY <1>3, SafeParent, ParentFacts DEF IsPath
<1>5. Closed(kept) /\ DOMAIN kept = DOMAIN tree \ files
      /\ \A p \in DOMAIN kept : kept[p] = tree[p]
  BY TakeAway DEF Without
<1>6. /\ Closed(parents)
      /\ \A p \in Parents(path) : DirectoryAt(parents, p)
      /\ DOMAIN parents = DOMAIN kept \cup Parents(path)
  <2>1. \A p \in Parents(path) \cap DOMAIN kept : kept[p].kind = "dir"
    BY <1>5
  <2> HIDE DEF path, kept
  <2> QED BY <2>1, <1>4, <1>5, AddDirectories
<1>7. node.kind = "dir" \/ \A p \in DOMAIN parents : path \notin Parents(p)
  <2>1. CASE e.kind = "dir"
    BY <2>1, <1>1 DEF Made, Directory, Node
  <2>2. CASE e.kind # "dir"
    <3>1. \A p \in Parents(path) : path \notin Parents(p)
      BY <1>4
    <3> HIDE DEF path
    <3> QED BY <2>2, <3>1, <1>2, <1>5, <1>6
  <2> QED BY <2>1, <2>2
<1> HIDE DEF path, parents
<1> QED BY <1>1, <1>3, <1>6, <1>7, AddNode

-----------------------------------------------------------------------------
(* The inductive invariant.                                                 *)

\* The links that are put off are valid and have their directories.
PutOff(tree) ==
  /\ links \in Seq(ToSet(links))
  /\ \A i \in DOMAIN links :
       /\ IsName(links[i].name) /\ ValidArchiveName(links[i].name)
       /\ \A p \in Parents(links[i].name) : DirectoryAt(tree, p)

ExtractionInv ==
  /\ Closed(dest)
  /\ AreEntries(opened.entries) /\ done \in Nat
  /\ Len(info.prefix) \in Nat
  /\ PutOff(dest)
  /\ unpack \in {"idle", "detect", "verify", "reopen"} \/ format # "cpio"
       => links = <<>>

\* What the source side has keeps its shape.
SourceShapes ==
  /\ AreEntries(written)
  /\ packFormat \in {"cpio", "tar.gz"}
  /\ LegalConfig("runtime", answered)
  /\ {edited} \subseteq BOOLEAN
  /\ command \in CommandEnded \cup ConfigureSteps \cup PackSteps
  /\ \/ IsTree(source)
     \/ source = NoSource /\ command = "idle"

Inv == ExtractionInv /\ SourceShapes /\ IsArchive(archive)

LEMMA EmptyFacts ==
  /\ Closed(EmptyTree)
  /\ AreEntries(<<>>)
  /\ Len(NoName) \in Nat
<1>1. DOMAIN <<>> = {} /\ Len(<<>>) = 0 /\ <<>> \in Seq(ToSet(<<>>))
  BY EmptySeq, LenProperties
<1> QED BY <1>1 DEF Closed, EmptyTree, AreEntries, NoName

LEMMA InvInit == Init => Inv
<1> SUFFICES ASSUME Init PROVE Inv
  OBVIOUS
<1>1. DOMAIN <<>> = {} /\ <<>> \in Seq(ToSet(<<>>))
  BY EmptySeq, LenProperties
<1>2. ExtractionInv
  BY <1>1, EmptyFacts
  DEF Init, UnpackInit, ExtractionInv, PutOff, Refused, NoArchive
<1>3. IsArchive(archive)
  BY ArchivesAssumption DEF Init
<1>4. SourceShapes
  <2>1. LegalConfig("runtime", RuntimeDefault)
    BY DefaultIsLegal DEF Default
  <2> QED BY <2>1, EmptyFacts, ArchivesAssumption
          DEF Init, SourceInit, SourceShapes, CommandEnded
<1> QED BY <1>2, <1>3, <1>4 DEF Inv

-----------------------------------------------------------------------------
(* The steps of the extraction.                                             *)

\* What a verification says of the prefix.
LEMMA VerdictPrefix ==
  ASSUME NEW a, NEW f, NEW required
  PROVE  Len(Verify(a, f, required).prefix) \in Nat
<1>1. Len(Refused.prefix) \in Nat
  BY EmptyFacts DEF Refused
<1>2. ASSUME NEW ok, NEW runtime, NEW prefix, Len(prefix) \in Nat
      PROVE  Len(Verdict(ok, runtime, prefix).prefix) \in Nat
  BY <1>1, <1>2 DEF Verdict
<1>3. Len(CpioVerify(a, required).prefix) \in Nat
  BY <1>2, EmptyFacts DEF CpioVerify
<1>4. ASSUME NEW items  PROVE Len(RootPrefix(items)) \in Nat
  <2>1. CASE RootCandidates(items) = {}
    BY <2>1, EmptyFacts DEF RootPrefix
  <2>2. CASE RootCandidates(items) # {}
    <3>1. PICK i \in RootCandidates(items) : RootPrefix(items) = items[i].name
      BY <2>2 DEF RootPrefix
    <3> QED BY <3>1 DEF RootCandidates
  <2> QED BY <2>1, <2>2
<1>5. Len(TarVerify(a, required).prefix) \in Nat
  BY <1>2, <1>4 DEF TarVerify
<1> QED BY <1>1, <1>3, <1>5 DEF Verify

LEMMA CurrentFacts ==
  ASSUME ExtractionInv, More
  PROVE  IsName(Current.name) /\ done + 1 \in Nat
<1>1. done + 1 \in DOMAIN opened.entries
  BY LenProperties DEF ExtractionInv, AreEntries, More
<1> QED BY <1>1 DEF ExtractionInv, AreEntries, IsEntry, Current

\* The links that were put off keep their directories where nothing changes.
LEMMA PutOffStays ==
  ASSUME PutOff(dest), NEW tree,
         \A p \in DOMAIN dest : p \in DOMAIN tree /\ tree[p] = dest[p]
  PROVE  PutOff(tree)
BY DEF PutOff, DirectoryAt

LEMMA CpioEntryStep ==
  ASSUME ExtractionInv, CpioEntry  PROVE ExtractionInv'
<1>1. /\ IsName(Current.name) /\ done + 1 \in Nat
      /\ More /\ format = "cpio"
      /\ UNCHANGED <<format, info, opened>>
  BY CurrentFacts DEF CpioEntry, Extract
<1>2. CASE dest' \in CpioTrees(dest, Current) /\ done' = done + 1
             /\ links' = links \o <<>> /\ UNCHANGED unpack
  <2>1. links' = links
    BY <1>2, ConcatEmptySeq DEF ExtractionInv, PutOff
  <2>2. /\ Closed(dest')
        /\ \A p \in DOMAIN dest : p \in DOMAIN dest' /\ dest'[p] = dest[p]
    BY <1>1, <1>2, CpioTreesClosed DEF ExtractionInv
  <2>3. PutOff(dest)'
    BY <2>1, <2>2, PutOffStays DEF ExtractionInv, PutOff
  <2> QED BY <1>1, <1>2, <2>1, <2>2, <2>3 DEF ExtractionInv, AreEntries
<1>3. CASE unpack' = "refused" /\ UNCHANGED <<dest, done, links>>
  BY <1>1, <1>3 DEF ExtractionInv, AreEntries, PutOff
<1> QED BY <1>2, <1>3 DEF CpioEntry, Extract

LEMMA CpioLinkStep ==
  ASSUME ExtractionInv, CpioLink  PROVE ExtractionInv'
<1>1. /\ IsName(Current.name) /\ done + 1 \in Nat
      /\ More /\ format = "cpio"
      /\ UNCHANGED <<format, info, opened>>
  BY CurrentFacts DEF CpioLink, Extract
<1>2. CASE dest' \in CpioPutOff(dest, Current) /\ done' = done + 1
             /\ links' = links \o <<Current>> /\ UNCHANGED unpack
  <2>1. /\ Closed(dest')
        /\ \A p \in DOMAIN dest : p \in DOMAIN dest' /\ dest'[p] = dest[p]
        /\ ValidArchiveName(Current.name)
        /\ \A p \in Parents(Current.name) : DirectoryAt(dest', p)
    BY <1>1, <1>2, CpioPutOffClosed DEF ExtractionInv
  <2>2. /\ PutOff(dest') /\ links \in Seq(ToSet(links))
    BY <2>1, PutOffStays DEF ExtractionInv, PutOff
  <2>3. /\ links' \in Seq(ToSet(links'))
        /\ \A i \in DOMAIN links' : links'[i] = Current
                                   \/ \E j \in DOMAIN links : links'[i] = links[j]
    <3> DEFINE S == ToSet(links) \cup {Current}
    <3>1. links \in Seq(S) /\ <<Current>> \in Seq(S) /\ Len(<<Current>>) = 1
          /\ <<Current>>[1] = Current
      BY <2>2
    <3>2. /\ links' \in Seq(S)
          /\ Len(links') = Len(links) + 1
          /\ \A i \in 1..(Len(links) + 1) : links'[i] =
               IF i <= Len(links) THEN links[i] ELSE <<Current>>[i - Len(links)]
      BY <3>1, <1>2, ConcatProperties
    <3>3. /\ DOMAIN links = 1..Len(links) /\ Len(links) \in Nat
          /\ DOMAIN links' = 1..Len(links')
      BY <3>1, <3>2, LenProperties
    <3>4. \A i \in DOMAIN links' : links'[i] = Current
                                   \/ \E j \in DOMAIN links : links'[i] = links[j]
      BY <3>1, <3>2, <3>3
    <3>5. links' \in Seq(ToSet(links'))
      BY <3>2, OwnElements
    <3> QED BY <3>4, <3>5
  <2>4. PutOff(dest)'
    BY <1>1, <2>1, <2>2, <2>3 DEF PutOff
  <2> QED BY <1>1, <1>2, <2>1, <2>4 DEF ExtractionInv, AreEntries, More
<1>3. CASE unpack' = "refused" /\ UNCHANGED <<dest, done, links>>
  BY <1>1, <1>3 DEF ExtractionInv, AreEntries, PutOff
<1> QED BY <1>2, <1>3 DEF CpioLink, Extract

LEMMA TarEntryStep ==
  ASSUME ExtractionInv, TarEntry  PROVE ExtractionInv'
<1>1. /\ IsName(Current.name) /\ done + 1 \in Nat
      /\ More /\ format = "tar.gz"
      /\ links = <<>>
      /\ UNCHANGED <<format, info, opened>>
  BY CurrentFacts DEF TarEntry, Extract, ExtractionInv
<1> DEFINE trees == IF TarRefuses(Current) THEN {}
                    ELSE IF TarSkips(Current) THEN {dest}
                    ELSE TarTrees(dest, Current)
<1>2. CASE dest' \in trees /\ done' = done + 1
             /\ links' = links \o <<>> /\ UNCHANGED unpack
  <2>1. links' = <<>>
    BY <1>1, <1>2, ConcatEmptySeq DEF ExtractionInv, PutOff
  <2>2. Closed(dest')
    BY <1>1, <1>2, TarTreesClosed DEF ExtractionInv
  <2>3. PutOff(dest)'
    BY <2>1, EmptySeq, LenProperties DEF PutOff
  <2> QED BY <1>1, <1>2, <2>1, <2>2, <2>3 DEF ExtractionInv, AreEntries
<1>3. CASE unpack' = "refused" /\ UNCHANGED <<dest, done, links>>
  BY <1>1, <1>3 DEF ExtractionInv, AreEntries, PutOff
<1> QED BY <1>2, <1>3 DEF TarEntry, Extract

LEMMA MakeLinkStep ==
  ASSUME ExtractionInv, MakeLink  PROVE ExtractionInv'
<1> DEFINE link == Head(links)
<1>1. /\ links # <<>> /\ unpack = "links"
      /\ UNCHANGED <<format, info, opened, done>>
  BY DEF MakeLink
<1>2. /\ link = links[1] /\ 1 \in DOMAIN links
      /\ Tail(links) \in Seq(ToSet(links))
      /\ \A i \in DOMAIN Tail(links) :
           \E j \in DOMAIN links : Tail(links)[i] = links[j]
  <2>1. links \in Seq(ToSet(links))
    BY DEF ExtractionInv, PutOff
  <2>2. Len(links) \in Nat /\ Len(links) >= 1 /\ DOMAIN links = 1..Len(links)
    BY <2>1, <1>1, EmptySeq, LenProperties
  <2>3. /\ Tail(links) \in Seq(ToSet(links)) /\ Len(Tail(links)) = Len(links) - 1
        /\ DOMAIN Tail(links) = 1..Len(Tail(links))
        /\ \A i \in 1..Len(Tail(links)) : Tail(links)[i] = links[i + 1]
    BY <2>1, <1>1, HeadTailProperties, LenProperties
  <2> QED BY <2>1, <2>2, <2>3
<1>3. /\ IsName(link.name) /\ ValidArchiveName(link.name)
      /\ \A p \in Parents(link.name) : DirectoryAt(dest, p)
  BY <1>2 DEF ExtractionInv, PutOff
<1>4. CASE unpack' = "refused" /\ UNCHANGED <<dest, links>>
  BY <1>1, <1>4 DEF ExtractionInv, AreEntries, PutOff
<1>5. CASE /\ Last(link.name) # Nothing /\ link.name \notin DOMAIN dest
           /\ dest' = WithNode(dest, link.name, Node("link", link.data))
           /\ links' = Tail(links) /\ UNCHANGED unpack
  <2>1. IsPath(link.name)
    BY <1>3, <1>5, CpioPath
  <2>2. \A p \in DOMAIN dest : link.name \notin Parents(p)
    BY <1>5 DEF ExtractionInv, Closed, DirectoryAt
  <2>3. Closed(dest')
    BY <2>1, <2>2, <1>3, <1>5, AddNode DEF ExtractionInv
  <2>4. \A p \in DOMAIN dest : p \in DOMAIN dest' /\ dest'[p] = dest[p]
    BY <1>5 DEF WithNode
  <2>5. PutOff(dest')
    BY <2>4, PutOffStays DEF ExtractionInv
  <2>6. links' \in Seq(ToSet(links'))
    BY <1>2, <1>5, OwnElements
  <2>7. PutOff(dest)'
    BY <1>2, <1>5, <2>5, <2>6 DEF PutOff
  <2> QED BY <1>1, <1>5, <2>3, <2>7 DEF ExtractionInv, AreEntries
<1> QED BY <1>4, <1>5 DEF MakeLink

LEMMA OtherStep ==
  ASSUME ExtractionInv, IsArchive(archive),
         \/ \E required, empty \in BOOLEAN : StartUnpack(required, empty)
         \/ Detect \/ VerifyArchive \/ Reopen
         \/ EndOfEntries \/ FinishUnpack \/ UnpackFails \/ LeaveDestination
  PROVE  ExtractionInv'
<1>1. ASSUME links = <<>>, UNCHANGED links  PROVE PutOff(dest)'
  BY <1>1, EmptySeq, LenProperties DEF PutOff
<1>2. CASE \E required, empty \in BOOLEAN : StartUnpack(required, empty)
  <2>1. PICK required, empty \in BOOLEAN : StartUnpack(required, empty)
    BY <1>2
  <2>2. /\ links = <<>> /\ unpack' = "detect"
        /\ \/ dest' = EmptyTree
           \/ dest' = WithNode(EmptyTree, <<"lost+found">>, Directory)
        /\ UNCHANGED <<format, info, opened, done, links>>
    BY <2>1 DEF StartUnpack, ExtractionInv
  <2>3. Closed(WithNode(EmptyTree, <<"lost+found">>, Directory))
    <3>1. "lost+found" \notin Special
      BY Zenon DEF Special, Nothing
    <3>2. IsPath(<<"lost+found">>) /\ Parents(<<"lost+found">>) = {}
      BY <3>1, OneComponent
    <3> QED BY <3>2, EmptyFacts, AddNode DEF Directory, Node
  <2>4. Closed(dest')
    BY <2>2, <2>3, EmptyFacts
  <2> QED BY <1>1, <2>2, <2>4 DEF ExtractionInv, AreEntries
<1>3. CASE Detect
  BY <1>1, <1>3 DEF Detect, ExtractionInv, AreEntries, Closed, DirectoryAt
<1>4. CASE VerifyArchive
  <2>1. Len(info'.prefix) \in Nat
    BY <1>4, VerdictPrefix DEF VerifyArchive
  <2> QED BY <1>1, <1>4, <2>1 DEF VerifyArchive, ExtractionInv, AreEntries
<1>5. CASE Reopen
  BY <1>1, <1>5 DEF Reopen, ExtractionInv, AreEntries, IsArchive
<1>6. CASE EndOfEntries
  BY <1>6 DEF EndOfEntries, ExtractionInv, AreEntries, PutOff
<1>7. CASE FinishUnpack
  BY <1>7 DEF FinishUnpack, ExtractionInv, AreEntries, PutOff
<1>8. CASE UnpackFails
  BY <1>8 DEF UnpackFails, ExtractionInv, AreEntries, PutOff, UnpackSteps
<1>9. CASE LeaveDestination
  <2>1. PutOff(dest)'
    BY <1>9, EmptySeq, LenProperties DEF LeaveDestination, PutOff
  <2>2. /\ Closed(dest') /\ AreEntries(opened.entries)'
        /\ Len(info.prefix)' \in Nat
    BY <1>9, EmptyFacts DEF LeaveDestination, Refused, NoArchive
  <2> QED BY <1>9, <2>1, <2>2 DEF LeaveDestination, ExtractionInv
<1> QED BY <1>2, <1>3, <1>4, <1>5, <1>6, <1>7, <1>8, <1>9

\* The archive's file may be replaced at any moment.
LEMMA ReplacedStep ==
  ASSUME ExtractionInv, NoticeReplaced  PROVE ExtractionInv'
BY DEF ExtractionInv, NoticeReplaced, AreEntries, PutOff

-----------------------------------------------------------------------------
(* The steps at the source.                                                 *)

LEMMA OnlyFirst ==
  ASSUME NEW a, NEW b
  PROVE  SubSeq(<<a, b>>, 1, 1) = <<a>>
<1>. DEFINE S == {a, b}
            pair == <<a, b>>
            s == SubSeq(pair, 1, 1)
            t == <<a>>
<1>1. /\ pair \in Seq(S) /\ Len(pair) = 2 /\ pair[1] = a
      /\ t \in Seq(S) /\ Len(t) = 1 /\ t[1] = a
  OBVIOUS
<1>2. \A i \in 1..1 : i = 1
  OBVIOUS
<1>. HIDE DEF S, pair, t
<1>3. \A i \in 1..1 : pair[i] \in S
  BY <1>1 DEF S
<1>4. /\ s \in Seq(S)
      /\ Len(s) = IF 1 <= 1 THEN 1 - 1 + 1 ELSE 0
      /\ \A i \in 1..(1 - 1 + 1) : s[i] = pair[1 + i - 1]
  BY <1>3, SubSeqProperties
<1>5. s \in Seq(S) /\ Len(s) = 1 /\ s[1] = a
  BY <1>1, <1>4
<1>. HIDE DEF s
<1>6. s = t
  BY ONLY <1>1, <1>2, <1>5, SeqEqual
<1>. QED
  BY <1>6 DEF s, t, pair

LEMMA PairFacts ==
  ASSUME NEW a, NEW b, a \notin Special, b \notin Special
  PROVE  IsPath(<<a, b>>) /\ Parents(<<a, b>>) = {<<a>>}
<1>1. /\ <<a, b>> \in Seq({a, b}) /\ Len(<<a, b>>) = 2 /\ <<a, b>> # <<>>
      /\ <<a, b>>[1] = a /\ <<a, b>>[2] = b
  OBVIOUS
<1>2. \A i \in 1..2 : i = 1 \/ i = 2
  OBVIOUS
<1>3. IsPath(<<a, b>>)
  BY <1>1, <1>2, OwnElements DEF IsPath, IsName, NoName
<1>4. SubSeq(<<a, b>>, 1, 1) = <<a>>
  BY OnlyFirst
<1>5. 1..(2 - 1) = {1}
  OBVIOUS
<1>. QED
  BY <1>1, <1>3, <1>4, <1>5 DEF Parents

\* The paths that the commands put files at.
LEMMA PutPaths ==
  /\ IsPath(ConfigName) /\ Parents(ConfigName) = {<<"etc">>}
  /\ IsPath(ProgressName) /\ Parents(ProgressName) = {<<"sbin">>}
  /\ IsPath(EntryName) /\ Parents(EntryName) = {}
  /\ ConfigName # <<"etc">> /\ EntryName # <<"etc">> /\ EntryName # ConfigName
<1>1. /\ "etc" \notin Special /\ "burning-progress.conf" \notin Special
      /\ "sbin" \notin Special /\ "burning-progress" \notin Special
      /\ "entry.sh" \notin Special
  BY Zenon DEF Special, Nothing
<1>2. EntryName = <<"entry.sh">>
  BY DEF EntryName, DefaultEntry
<1>3. Len(ConfigName) = 2 /\ Len(<<"etc">>) = 1 /\ Len(<<"entry.sh">>) = 1
      /\ <<"entry.sh">>[1] = "entry.sh" /\ <<"etc">>[1] = "etc"
  BY DEF ConfigName
<1>. QED
  BY <1>1, <1>2, <1>3, PairFacts, OneComponent DEF ConfigName, ProgressName

LEMMA ShortTexts == IsText(<<>>) /\ \A line : IsText(<<line>>)
<1>1. \A line : <<line>> \in Seq({line})
  OBVIOUS
<1>. QED
  BY <1>1, OwnElements, EmptySeq DEF IsText

\* A file is put into a tree: what else is there stays.
LEMMA PutFacts ==
  ASSUME NEW tree, IsTree(tree), NEW path, IsPath(path), NEW data, IsText(data)
  PROVE  LET new == Put(tree, path, data)
         IN  /\ IsTree(new)
             /\ path \in DOMAIN new /\ new[path] = Node("file", data)
             /\ \A q \in DOMAIN tree \ {path} : q \in DOMAIN new /\ new[q] = tree[q]
             /\ \A q \in Parents(path) :
                  q \in DOMAIN new /\ (q \notin DOMAIN tree => new[q].kind = "dir")
<1>. DEFINE new == Put(tree, path, data)
<1>1. \A q \in Parents(path) : IsPath(q) /\ q # path
  BY SafeParent
<1>2. /\ DOMAIN new = DOMAIN tree \cup Parents(path) \cup {path}
      /\ \A q \in DOMAIN new :
           new[q] = IF q = path THEN Node("file", data)
                    ELSE IF q \in DOMAIN tree THEN tree[q] ELSE Directory
      /\ new = [q \in DOMAIN new |-> new[q]]
  BY DEF Put, WithNode, WithDirectories
<1>. HIDE DEF new
<1>3. ASSUME NEW q \in DOMAIN new
      PROVE  /\ IsPath(q)
             /\ new[q] = Node(new[q].kind, new[q].data)
             /\ new[q].kind \in NodeKinds /\ IsText(new[q].data)
  <2>1. CASE q \in DOMAIN tree /\ q # path
    BY <1>2, <2>1 DEF IsTree
  <2>2. CASE q = path
    BY <1>2, <2>2 DEF Node, NodeKinds, Kinds
  <2>3. CASE q \notin DOMAIN tree /\ q # path
    BY <1>1, <1>2, <2>3, ShortTexts DEF Directory, Node, NodeKinds, Kinds
  <2>. QED
    BY <2>1, <2>2, <2>3
<1>4. IsTree(new)
  BY <1>2, <1>3 DEF IsTree
<1>5. \A q \in Parents(path) :
        q \in DOMAIN new /\ (q \notin DOMAIN tree => new[q].kind = "dir")
  BY <1>1, <1>2 DEF Directory, Node
<1>. QED
  BY <1>2, <1>4, <1>5 DEF new

\* What bp_rootfs_runtime_config_load returns when it succeeds.
LEMMA LoadedIsLegal ==
  ASSUME NEW tree, IsTree(tree), RuntimeLoad(tree).ok
  PROVE  LegalConfig("runtime", RuntimeLoad(tree).config)
<1>. DEFINE text == tree[ConfigName].data
<1>1. LegalConfig("runtime", RuntimeDefault)
  BY DefaultIsLegal DEF Default
<1>2. CASE ConfigName \notin DOMAIN tree
  BY <1>1, <1>2 DEF RuntimeLoad
<1>3. CASE ConfigName \in DOMAIN tree
  <2>1. RuntimeLoad(tree) = Parse("runtime", text)
    BY <1>3 DEF RuntimeLoad, RuntimeParse
  <2>2. IsText(text)
    BY <1>3 DEF IsTree
  <2>. HIDE DEF text
  <2>. QED
    BY <2>1, <2>2, ParserIsRight, MeaningIsLegal
<1>. QED
  BY <1>2, <1>3

LEMMA AppendEntry ==
  ASSUME NEW entries, AreEntries(entries), NEW e, IsEntry(e)
  PROVE  LET new == Append(entries, e)
         IN  /\ AreEntries(new)
             /\ DOMAIN new = DOMAIN entries \cup {Len(entries) + 1}
             /\ \A i \in DOMAIN entries : new[i] = entries[i]
             /\ new[Len(entries) + 1] = e
<1>. DEFINE new == Append(entries, e)
<1>1. /\ entries \in Seq(ToSet(entries) \cup {e})
      /\ \A i \in DOMAIN entries : IsEntry(entries[i])
  BY DEF AreEntries
<1>2. /\ new \in Seq(ToSet(entries) \cup {e})
      /\ Len(new) = Len(entries) + 1
      /\ \A i \in 1..Len(entries) : new[i] = entries[i]
      /\ new[Len(entries) + 1] = e
  BY <1>1, AppendProperties
<1>3. /\ DOMAIN entries = 1..Len(entries) /\ Len(entries) \in Nat
      /\ DOMAIN new = 1..Len(new)
  BY <1>1, <1>2, LenProperties
<1>. HIDE DEF new
<1>4. DOMAIN new = DOMAIN entries \cup {Len(entries) + 1}
  BY <1>2, <1>3
<1>5. \A i \in DOMAIN new : IsEntry(new[i])
  BY <1>1, <1>2, <1>3, <1>4
<1>6. AreEntries(new)
  BY <1>2, <1>5, OwnElements DEF AreEntries
<1>. QED
  BY <1>2, <1>3, <1>4, <1>6 DEF new

LEMMA EntryOfNode ==
  ASSUME NEW tree, IsTree(tree), NEW path \in DOMAIN tree
  PROVE  IsEntry(Entry(path, tree[path].kind, tree[path].data, NoName))
<1>1. /\ IsName(path) /\ tree[path].kind \in NodeKinds
      /\ IsText(tree[path].data)
  BY DEF IsTree, IsPath
<1>2. tree[path].kind # "hard"
  BY <1>1 DEF NodeKinds, Kinds
<1>. QED
  BY <1>1, <1>2 DEF IsEntry, Entry

LEMMA ShapesStep ==
  ASSUME SourceShapes, SourceNext \/ \E tree \in Sources : Edit(tree)
  PROVE  SourceShapes'
<1>. USE DEF SourceShapes
<1>. DEFINE Others == /\ packFormat' = packFormat /\ answered' = answered
                      /\ written' = written /\ edited' \in BOOLEAN
            CommandKnown == command' \in CommandEnded \cup ConfigureSteps \cup PackSteps
<1>0. ASSUME Others, CommandKnown, IsTree(source')
      PROVE  SourceShapes'
  BY <1>0 DEF AreEntries, LegalConfig
<1>1. CASE StartConfigure
  <2>1. IsTree(source') /\ written' = <<>> /\ packFormat' = packFormat
        /\ answered' = answered /\ edited' = edited /\ command' = "load"
    BY <1>1 DEF StartConfigure, IsTree
  <2>2. AreEntries(written')
    BY ONLY <2>1, EmptyFacts
  <2>. QED
    BY <2>1, <2>2 DEF ConfigureSteps, LegalConfig
<1>2. CASE \E wanted \in {"cpio", "tar.gz"} : StartPack(wanted)
  <2>1. IsTree(source') /\ written' = <<>> /\ packFormat' \in {"cpio", "tar.gz"}
        /\ answered' = RuntimeDefault /\ edited' = edited /\ command' = "launcher"
    BY <1>2 DEF StartPack, IsTree
  <2>2. AreEntries(written')
    BY ONLY <2>1, EmptyFacts
  <2>3. LegalConfig("runtime", RuntimeDefault)
    BY DefaultIsLegal DEF Default
  <2>. QED
    BY <2>1, <2>2, <2>3 DEF PackSteps
<1>3. CASE LoadAndAsk
  <2>1. PICK answers \in Answers :
          /\ \A key \in DOMAIN answers : RuntimeLegal(key, answers[key])
          /\ answered' = Updated(RuntimeLoad(source).config, answers)
    BY <1>3 DEF LoadAndAsk
  <2>2. /\ RuntimeLoad(source).ok /\ IsTree(source) /\ command' = "entry"
        /\ source' = source /\ packFormat' = packFormat /\ written' = written
        /\ edited' = edited
    BY <1>3 DEF LoadAndAsk, CommandEnded
  <2>3. LegalConfig("runtime", answered')
    BY <2>1, <2>2, LoadedIsLegal, UpdateIsLegal DEF Legal
  <2>. QED
    BY <2>2, <2>3 DEF ConfigureSteps, AreEntries, IsTree
<1>4. CASE EnsureEntry
  <2>1. IsTree(source)
    BY <1>4 DEF EnsureEntry, CommandEnded
  <2>2. IsTree(source')
    BY <1>4, <2>1, PutPaths, PutFacts, ShortTexts DEF EnsureEntry, DefaultScript
  <2>. QED
    BY <1>4, <2>2, <1>0 DEF EnsureEntry, ConfigureSteps
<1>5. CASE SaveConfig
  <2>1. IsTree(source)
    BY <1>5 DEF SaveConfig, CommandEnded
  <2>2. IsText(RuntimeFormat(answered))
    BY FormatMeans
  <2>3. IsTree(source')
    BY <1>5, <2>1, <2>2, PutPaths, PutFacts DEF SaveConfig
  <2>. QED
    BY <1>5, <2>3, <1>0 DEF SaveConfig, ConfigureSteps
<1>6. CASE PutLauncher
  <2>1. IsTree(source)
    BY <1>6 DEF PutLauncher, CommandEnded
  <2>2. IsTree(source')
    BY <1>6, <2>1, PutPaths, PutFacts, ShortTexts DEF PutLauncher, Launcher
  <2>. QED
    BY <1>6, <2>2, <1>0 DEF PutLauncher, PackSteps
<1>7. CASE WriteEntry
  <2>1. /\ IsTree(source) /\ UNCHANGED <<source, command, packFormat, answered, edited>>
    BY <1>7 DEF WriteEntry, CommandEnded
  <2>2. PICK path \in DOMAIN source :
          written' = Append(written, Entry(path, source[path].kind,
                                           source[path].data, NoName))
    BY <1>7 DEF WriteEntry
  <2>3. AreEntries(written')
    BY <2>1, <2>2, EntryOfNode, AppendEntry
  <2>. QED
    BY <2>1, <2>3 DEF LegalConfig, IsTree
<1>8. CASE ReloadConfig \/ CheckSource \/ Collect \/ CreateTemporary
           \/ TemporaryInTheWay \/ FinishArchive \/ Publish \/ FinishPack
           \/ Fail \/ KilledAtSource
  <2>1. Others /\ source' = source /\ CommandKnown /\ command \notin CommandEnded
    BY <1>8 DEF ReloadConfig, CheckSource, Collect, CreateTemporary,
         TemporaryInTheWay, FinishArchive, Publish, FinishPack, Fail,
         KilledAtSource, CommandEnded, ConfigureSteps, PackSteps
  <2>. QED
    BY <2>1, <1>0 DEF IsTree, CommandEnded
<1>9. CASE \E tree \in Sources : Edit(tree)
  BY <1>9, <1>0, ArchivesAssumption DEF Edit
<1>. QED
  BY <1>1, <1>2, <1>3, <1>4, <1>5, <1>6, <1>7, <1>8, <1>9 DEF SourceNext

\* What a pack publishes is an archive.
LEMMA PublishedShape ==
  ASSUME SourceShapes, IsArchive(archive), SourceNext
  PROVE  IsArchive(archive)'
<1>1. CASE Publish
  BY <1>1 DEF Publish, Packed, SourceShapes, AreEntries, IsArchive
<1>2. CASE ~Publish
  <2>1. UNCHANGED archive
    BY <1>2 DEF SourceNext, StartConfigure, LoadAndAsk, EnsureEntry, SaveConfig,
         ReloadConfig, StartPack, PutLauncher, CheckSource, Collect,
         CreateTemporary, TemporaryInTheWay, WriteEntry, FinishArchive,
         FinishPack, Fail, KilledAtSource
  <2>. QED
    BY <2>1 DEF IsArchive, AreEntries
<1>. QED
  BY <1>1, <1>2

-----------------------------------------------------------------------------

LEMMA InvStep == Inv /\ [Next]_vars => Inv'
<1> SUFFICES ASSUME Inv, [Next]_vars PROVE Inv'
  OBVIOUS
<1> USE DEF Inv
<1>1. CASE Extraction
  <2>1. ExtractionInv'
    BY <1>1, CpioEntryStep, CpioLinkStep, TarEntryStep, MakeLinkStep, OtherStep
    DEF Extraction, UnpackNext
  <2>2. UNCHANGED archive
    BY <1>1 DEF Extraction, UnpackNext, StartUnpack, Detect, VerifyArchive,
         Reopen, CpioEntry, CpioLink, TarEntry, Extract, EndOfEntries, MakeLink,
         FinishUnpack, UnpackFails, LeaveDestination
  <2>3. SourceShapes'
    BY <1>1 DEF Extraction, sourceVars, SourceShapes, IsTree, AreEntries
  <2> QED BY <2>1, <2>2, <2>3 DEF AreEntries
<1>2. CASE Command
  BY <1>2, ShapesStep, PublishedShape, ReplacedStep DEF Command
<1>3. CASE OwnerEdits
  <2>1. ExtractionInv'
    BY <1>3 DEF OwnerEdits, unpackVars, ExtractionInv, AreEntries, PutOff
  <2>2. SourceShapes' /\ UNCHANGED archive
    BY <1>3, ShapesStep DEF OwnerEdits, Edit
  <2> QED BY <2>1, <2>2 DEF AreEntries
<1>4. CASE Replaced
  <2>1. IsArchive(archive)'
    BY <1>4, ArchivesAssumption DEF Replaced, AreEntries
  <2>2. SourceShapes'
    BY <1>4 DEF Replaced, sourceVars, SourceShapes, IsTree, AreEntries
  <2> QED BY <1>4, <2>1, <2>2, ReplacedStep DEF Replaced
<1>5. CASE UNCHANGED vars
  BY <1>5 DEF vars, unpackVars, sourceVars, ExtractionInv, SourceShapes, IsTree,
              AreEntries, PutOff
<1> QED BY <1>1, <1>2, <1>3, <1>4, <1>5 DEF Next

\* The destination is closed at every moment of any extraction, whatever
\* archives there are, whatever replaces them (Replaced) and whatever is
\* packed.
THEOREM Invariant == Spec => []Inv
BY InvInit, InvStep, PTL DEF Spec

\* Nothing is ever written outside of the destination or through a symbolic
\* link: the cpio code's own checks (valid_archive_name, ensure_safe_parent,
\* links put off to the end) and the options it sets for libarchive suffice
\* without the verification.
THEOREM Inside == Spec => []StaysInside
<1>1. Inv => StaysInside
  <2> SUFFICES ASSUME Inv, NEW path \in DOMAIN dest
               PROVE  /\ path # NoName
                      /\ \A i \in DOMAIN path : path[i] \notin Special
                      /\ \A parent \in Parents(path) : DirectoryAt(dest, parent)
    BY DEF StaysInside, DirectoryAt
  <2>1. IsPath(path) /\ \A parent \in Parents(path) : DirectoryAt(dest, parent)
    BY DEF Inv, ExtractionInv, Closed
  <2>2. IsName(path)
    BY <2>1 DEF IsPath
  <2> QED BY <2>1, <2>2, NameFacts DEF IsPath, IsName
<1> QED BY <1>1, Invariant, PTL

-----------------------------------------------------------------------------
(* What the commands at the source guarantee.                               *)

\* The source side moves only by a step of a command or of the owner.
LEMMA SourceMoves ==
  ASSUME [Next]_vars
  PROVE  SourceNext \/ (\E tree \in Sources : Edit(tree)) \/ UNCHANGED sourceVars
BY DEF Next, vars, Extraction, Command, OwnerEdits, Replaced

\* A temporary archive of the running command is there while it is written
\* and verified, and at no other time.
TemporaryInv ==
  /\ temporary \in {"none", "ours", "stale"}
  /\ temporary = "ours" <=> command \in {"write", "verify"}
  /\ command \in {"sync", "packed"} => temporary = "none"

LEMMA TemporaryStep ==
  ASSUME TemporaryInv, SourceNext \/ \E tree \in Sources : Edit(tree)
  PROVE  TemporaryInv'
<1>. USE DEF TemporaryInv, CommandEnded, ConfigureSteps, PackSteps
<1>1. CASE CreateTemporary \/ TemporaryInTheWay \/ Publish \/ Fail \/ KilledAtSource
  BY <1>1 DEF CreateTemporary, TemporaryInTheWay, Publish, Fail, KilledAtSource
<1>2. CASE StartConfigure \/ LoadAndAsk \/ EnsureEntry \/ SaveConfig \/ ReloadConfig
  BY <1>2 DEF StartConfigure, LoadAndAsk, EnsureEntry, SaveConfig, ReloadConfig
<1>3. CASE \/ \E wanted \in {"cpio", "tar.gz"} : StartPack(wanted)
           \/ PutLauncher \/ CheckSource \/ Collect
  BY <1>3 DEF StartPack, PutLauncher, CheckSource, Collect
<1>4. CASE WriteEntry \/ FinishArchive \/ FinishPack
  BY <1>4 DEF WriteEntry, FinishArchive, FinishPack
<1>5. CASE \E tree \in Sources : Edit(tree)
  BY <1>5 DEF Edit
<1>. QED
  BY <1>1, <1>2, <1>3, <1>4, <1>5 DEF SourceNext

LEMMA TemporaryInvariant == Spec => []TemporaryInv
<1>1. Init => TemporaryInv
  BY DEF Init, SourceInit, TemporaryInv
<1>2. TemporaryInv /\ [Next]_vars => TemporaryInv'
  BY SourceMoves, TemporaryStep DEF sourceVars, TemporaryInv
<1>. QED
  BY <1>1, <1>2, PTL DEF Spec

\* No command that ends by itself leaves its temporary archive, and no pack
\* succeeds over the one that a killed packer left: Fail, TemporaryInTheWay
\* and Publish are the only ways out of the steps between.
THEOREM CleansUp == Spec => []PackCleansUp
<1>1. TemporaryInv => PackCleansUp
  BY DEF TemporaryInv, PackCleansUp
<1>. QED
  BY <1>1, TemporaryInvariant, PTL

\* bp_rootfs_runtime_config_load reads what bp_rootfs_runtime_config_save wrote.
LEMMA SavedIsLoaded ==
  ASSUME NEW tree, IsTree(tree), MayBe(tree, <<"etc">>, {"dir"}),
         NEW config, LegalConfig("runtime", config)
  PROVE  LET load == RuntimeLoad(Put(tree, ConfigName, RuntimeFormat(config)))
         IN  load.ok /\ load.config = config
<1>. DEFINE text == RuntimeFormat(config)
            new == Put(tree, ConfigName, text)
<1>1. /\ IsText(text) /\ WellFormed("runtime", text)
      /\ Meaning("runtime", text) = config
  BY FormatMeans
<1>2. /\ ConfigName \in DOMAIN new /\ new[ConfigName] = Node("file", text)
      /\ <<"etc">> \in DOMAIN tree => new[<<"etc">>] = tree[<<"etc">>]
      /\ <<"etc">> \notin DOMAIN tree => new[<<"etc">>].kind = "dir"
  <2>. HIDE DEF text
  <2>. QED
    BY <1>1, PutPaths, PutFacts
<1>. HIDE DEF new, text
<1>3. MayBe(new, <<"etc">>, {"dir"}) /\ MayBe(new, ConfigName, {"file"})
  BY <1>2 DEF MayBe, Node
<1>4. RuntimeLoad(new) = Parse("runtime", text)
  BY <1>2, <1>3 DEF RuntimeLoad, RuntimeParse, Node
<1>. QED
  BY <1>1, <1>4, ParserIsRight DEF new, text

\* While the owner changes nothing, the default entry is there from the step
\* that makes it on, and what was answered is there once it is saved.
ConfiguredInv ==
  ~edited =>
    /\ command \in {"save", "reload", "configured"} /\ answered.entry = DefaultEntry
         => Is(source, EntryName, {"file"})
    /\ command \in {"reload", "configured"} =>
         RuntimeLoad(source).ok /\ RuntimeLoad(source).config = answered

LEMMA ConfiguredStep ==
  ASSUME SourceShapes, ConfiguredInv,
         SourceNext \/ \E tree \in Sources : Edit(tree)
  PROVE  ConfiguredInv'
<1>1. CASE EnsureEntry
  <2>1. /\ IsTree(source) /\ command' = "save" /\ answered' = answered
    BY <1>1 DEF EnsureEntry, SourceShapes, CommandEnded
  <2>2. ASSUME answered.entry = DefaultEntry
        PROVE  Is(source', EntryName, {"file"})
    <3>1. CASE EntryName \in DOMAIN source
      BY <1>1, <2>2, <3>1 DEF EnsureEntry, MayBe, Is
    <3>2. CASE EntryName \notin DOMAIN source
      <4>1. source' = Put(source, EntryName, DefaultScript)
        BY <1>1, <2>2, <3>2 DEF EnsureEntry
      <4>2. IsText(DefaultScript)
        BY ShortTexts DEF DefaultScript
      <4>3. /\ EntryName \in DOMAIN source'
            /\ source'[EntryName] = Node("file", DefaultScript)
        BY ONLY <2>1, <4>1, <4>2, PutPaths, PutFacts
      <4>. QED
        BY <4>3 DEF Is, Node
    <3>. QED
      BY <3>1, <3>2
  <2>. QED
    BY <2>1, <2>2 DEF ConfiguredInv
<1>2. CASE SaveConfig
  <2>1. /\ IsTree(source) /\ command = "save" /\ LegalConfig("runtime", answered)
        /\ command' = "reload" /\ answered' = answered /\ edited' = edited
        /\ MayBe(source, <<"etc">>, {"dir"})
        /\ source' = Put(source, ConfigName, RuntimeFormat(answered))
    BY <1>2 DEF SaveConfig, SourceShapes, CommandEnded
  <2>2. RuntimeLoad(source').ok /\ RuntimeLoad(source').config = answered
    BY <2>1, SavedIsLoaded
  <2>3. IsText(RuntimeFormat(answered))
    BY <2>1, FormatMeans
  <2>4. Is(source, EntryName, {"file"}) => Is(source', EntryName, {"file"})
    BY <2>1, <2>3, PutPaths, PutFacts DEF Is
  <2>. QED
    BY <2>1, <2>2, <2>4 DEF ConfiguredInv
<1>3. CASE ReloadConfig
  BY <1>3 DEF ReloadConfig, ConfiguredInv
<1>4. CASE \E tree \in Sources : Edit(tree)
  BY <1>4 DEF Edit, ConfiguredInv
<1>5. CASE StartConfigure \/ LoadAndAsk
           \/ \E wanted \in {"cpio", "tar.gz"} : StartPack(wanted)
  <2>1. command' \in {"load", "entry", "launcher"}
    BY <1>5 DEF StartConfigure, LoadAndAsk, StartPack
  <2>. QED
    BY <2>1 DEF ConfiguredInv
<1>6. CASE \/ PutLauncher \/ CheckSource \/ Collect \/ CreateTemporary
           \/ TemporaryInTheWay \/ WriteEntry \/ FinishArchive \/ Publish
           \/ FinishPack \/ Fail \/ KilledAtSource
  <2>1. command' \notin {"save", "reload", "configured"}
    BY <1>6 DEF PutLauncher, CheckSource, Collect, CreateTemporary,
         TemporaryInTheWay, WriteEntry, FinishArchive, Publish, FinishPack,
         Fail, KilledAtSource
  <2>. QED
    BY <2>1 DEF ConfiguredInv
<1>. QED
  BY <1>1, <1>2, <1>3, <1>4, <1>5, <1>6 DEF SourceNext

\* Neither write of configure takes away what a directory had: with the entry
\* made first, a kill in between leaves no name without its entry.
LEMMA ConfigureWrites ==
  ASSUME SourceShapes, ConfiguredInv, ConfiguredInv', command \in ConfigureSteps,
         SourceNext \/ \E tree \in Sources : Edit(tree), ~edited'
  PROVE  EntryKept
<1>1. CASE EnsureEntry
  <2>1. command' = "save" /\ answered' = answered
    BY <1>1 DEF EnsureEntry
  <2>2. CASE answered.entry = DefaultEntry
    <3>1. Is(source', EntryName, {"file"})
      BY <2>1, <2>2 DEF ConfiguredInv, Is
    <3>. QED
      BY <2>1, <3>1 DEF EntryKept, EntryIfNamed, Is
  <2>3. CASE answered.entry # DefaultEntry
    BY <1>1, <2>1, <2>3 DEF EnsureEntry, EntryKept
  <2>. QED
    BY <2>2, <2>3
<1>2. CASE SaveConfig
  <2>1. command' = "reload"
    BY <1>2 DEF SaveConfig
  <2>2. RuntimeLoad(source').config = answered'
    BY <2>1 DEF ConfiguredInv, RuntimeLoad
  <2>3. answered'.entry = DefaultEntry => Is(source', EntryName, {"file"})
    BY <2>1 DEF ConfiguredInv, Is
  <2>. QED
    BY <2>1, <2>2, <2>3 DEF EntryKept, EntryIfNamed, RuntimeLoad, Is
<1>3. CASE ReloadConfig
  <2>1. command' = "configured" /\ source' = source
    BY <1>3 DEF ReloadConfig
  <2>2. RuntimeLoad(source').ok /\ RuntimeLoad(source').config = answered'
    BY <2>1 DEF ConfiguredInv, RuntimeLoad
  <2>3. answered'.entry = DefaultEntry => Is(source', EntryName, {"file"})
    BY <2>1 DEF ConfiguredInv, Is
  <2>. QED
    BY <2>1, <2>2, <2>3 DEF EntryKept, EntryIfNamed, RuntimeLoad, Is
<1>4. CASE LoadAndAsk \/ Fail \/ KilledAtSource
  BY <1>4 DEF LoadAndAsk, Fail, KilledAtSource, EntryKept
<1>5. ~\E tree \in Sources : Edit(tree)
  BY DEF Edit
<1>. QED
  BY <1>1, <1>2, <1>3, <1>4, <1>5
  DEF SourceNext, ConfigureSteps, CommandEnded, StartConfigure, StartPack,
      PutLauncher, CheckSource, Collect, CreateTemporary, TemporaryInTheWay,
      WriteEntry, FinishArchive, Publish, FinishPack

\* No step of configure, killed or failing at any moment, leaves a directory
\* that names a missing default entry if it did not before, and one that
\* reports success has left a configuration that reads back with its entry,
\* whatever was in the directory and whatever was typed (EnsureEntry,
\* SaveConfig, ReloadConfig).
THEOREM ConfiguredIsThere == Spec => ConfigureKeepsEntry
<1>1. Init => ConfiguredInv
  BY DEF Init, SourceInit, ConfiguredInv, ConfigureSteps
<1>2. Inv /\ ConfiguredInv /\ [Next]_vars => ConfiguredInv'
  BY SourceMoves, ConfiguredStep DEF Inv, sourceVars, ConfiguredInv
<1>3. Inv /\ ConfiguredInv /\ ConfiguredInv' /\ [Next]_vars 
       => [~edited' /\ command \in ConfigureSteps => EntryKept]_sourceVars
  BY SourceMoves, ConfigureWrites DEF Inv
<1>. QED
  BY <1>1, <1>2, <1>3, Invariant, PTL DEF Spec, ConfigureKeepsEntry

\* The entries are the nodes of the tree.
WrittenFrom(tree) ==
  \A i \in DOMAIN written :
    LET name == written[i].name
    IN  /\ name \in DOMAIN tree
        /\ written[i] = Entry(name, tree[name].kind, tree[name].data, NoName)

\* What is published has been verified; while the owner changes nothing, the
\* packer goes through all that is there, and what must be there is.
PackInv ==
  /\ command \in {"launcher", "check", "collect", "create"} => written = <<>>
  /\ command \in {"sync", "packed"} => Verify(Packed, packFormat, TRUE).ok
  /\ ~edited =>
       /\ command \in {"collect", "create", "write", "verify", "sync", "packed"}
            => RequiredNames \subseteq DOMAIN source
       /\ command \in {"create", "write"} /\ packFormat = "cpio"
            => visited = DOMAIN source
       /\ command \in {"write", "verify", "sync", "packed"} => WrittenFrom(source)
       /\ command \in {"verify", "sync", "packed"} => DOMAIN source \subseteq Written

LEMMA PackStep ==
  ASSUME SourceShapes, PackInv,
         SourceNext \/ \E tree \in Sources : Edit(tree)
  PROVE  PackInv'
<1>1. CASE \E wanted \in {"cpio", "tar.gz"} : StartPack(wanted)
  <2>1. command' = "launcher" /\ written' = <<>>
    BY <1>1 DEF StartPack
  <2>. QED
    BY <2>1 DEF PackInv
<1>2. CASE PutLauncher
  <2>1. command = "launcher" /\ command' = "check" /\ written' = written
    BY <1>2 DEF PutLauncher
  <2>. QED
    BY <2>1 DEF PackInv
<1>3. CASE CheckSource
  <2>1. /\ command = "check" /\ command' \in {"collect", "create"}
        /\ packFormat = "cpio" => command' = "collect"
        /\ UNCHANGED <<source, packFormat, written, edited>>
        /\ \A name \in RequiredNames : name \in DOMAIN source
    BY <1>3 DEF CheckSource, SourceVerify, Is
  <2>. QED
    BY <2>1 DEF PackInv
<1>4. CASE Collect
  <2>1. /\ command = "collect" /\ command' = "create"
        /\ visited' = DOMAIN source
        /\ UNCHANGED <<source, packFormat, written, edited>>
    BY <1>4 DEF Collect
  <2>. QED
    BY <2>1 DEF PackInv
<1>5. CASE CreateTemporary
  <2>1. /\ command = "create" /\ command' = "write" /\ written = <<>>
        /\ UNCHANGED <<source, packFormat, visited, written, edited>>
    BY <1>5 DEF CreateTemporary, PackInv
  <2>2. DOMAIN written' = {}
    BY <2>1, EmptySeq
  <2>. QED
    BY <2>1, <2>2 DEF PackInv, WrittenFrom
<1>6. CASE WriteEntry
  <2>1. /\ command = "write"
        /\ UNCHANGED <<source, command, packFormat, visited, edited>>
    BY <1>6 DEF WriteEntry
  <2>2. PICK path \in DOMAIN source :
          written' = Append(written, Entry(path, source[path].kind,
                                           source[path].data, NoName))
    BY <1>6 DEF WriteEntry
  <2>. DEFINE e == Entry(path, source[path].kind, source[path].data, NoName)
  <2>3. IsTree(source) /\ AreEntries(written) /\ IsEntry(e)
    BY <2>1, EntryOfNode DEF SourceShapes, CommandEnded
  <2>4. /\ DOMAIN written' = DOMAIN written \cup {Len(written) + 1}
        /\ \A i \in DOMAIN written : written'[i] = written[i]
        /\ written'[Len(written) + 1] = e
    <3>. HIDE DEF e
    <3>. QED
      BY <2>2, <2>3, AppendEntry DEF e
  <2>5. e.name = path
    BY DEF Entry
  <2>6. ASSUME WrittenFrom(source)  PROVE WrittenFrom(source)'
    BY <2>1, <2>4, <2>5, <2>6 DEF WrittenFrom
  <2>. QED
    BY <2>1, <2>6 DEF PackInv
<1>7. CASE FinishArchive
  <2>1. /\ command = "write" /\ command' = "verify" /\ ToWrite = {}
        /\ UNCHANGED <<source, packFormat, written, edited>>
        /\ packFormat \in {"cpio", "tar.gz"}
    BY <1>7 DEF FinishArchive, SourceShapes
  <2>2. ~edited => DOMAIN source \subseteq Written
    BY <2>1 DEF PackInv, ToWrite
  <2>. QED
    BY <2>1, <2>2 DEF PackInv, WrittenFrom, Written
<1>8. CASE Publish \/ FinishPack
  <2>1. /\ command \in {"verify", "sync"} /\ command' \in {"sync", "packed"}
        /\ UNCHANGED <<source, packFormat, written, edited>>
        /\ Verify(Packed, packFormat, TRUE).ok
    BY <1>8 DEF Publish, FinishPack, PackInv
  <2>2. Verify(Packed, packFormat, TRUE)' = Verify(Packed, packFormat, TRUE)
    BY <2>1 DEF Packed
  <2>. QED
    BY <2>1, <2>2 DEF PackInv, WrittenFrom, Written
<1>9. CASE \/ StartConfigure \/ LoadAndAsk \/ EnsureEntry \/ SaveConfig
           \/ ReloadConfig \/ TemporaryInTheWay \/ Fail \/ KilledAtSource
  <2>1. command' \in {"load", "entry", "save", "reload", "configured", "failed",
                     "idle"}
    BY <1>9 DEF StartConfigure, LoadAndAsk, EnsureEntry, SaveConfig,
         ReloadConfig, TemporaryInTheWay, Fail, KilledAtSource
  <2>. QED
    BY <2>1 DEF PackInv
<1>10. CASE \E tree \in Sources : Edit(tree)
  <2>1. edited' /\ UNCHANGED <<command, packFormat, written>>
    BY <1>10 DEF Edit
  <2>2. Verify(Packed, packFormat, TRUE)' = Verify(Packed, packFormat, TRUE)
    BY <2>1 DEF Packed
  <2>. QED
    BY <2>1, <2>2 DEF PackInv
<1>. QED
  BY <1>1, <1>2, <1>3, <1>4, <1>5, <1>6, <1>7, <1>8, <1>9, <1>10 DEF SourceNext

\* What is a path already is a name without "./" or slashes to take away.
LEMMA PathIsTrimmed ==
  ASSUME NEW path, IsPath(path)
  PROVE  Trimmed(path) = path /\ ~IsRootName(path)
<1>1. /\ path \in Seq(ToSet(path)) /\ Len(path) \in Nat \ {0}
      /\ \A i \in 1..Len(path) : path[i] \notin Special
  BY NameFacts DEF IsPath
<1>2. \A i \in 1..Len(path) : path[i] # "." /\ path[i] # Nothing
  BY <1>1, Zenon DEF Special
<1>. DEFINE dots == {i \in 1..(Len(path) - 1) : \A j \in 1..i : path[j] = "."}
            first == 1 + Cardinality(dots)
            blanks == {i \in first..Len(path) :
                         \A j \in i..Len(path) : path[j] = Nothing}
<1>3. dots = {}
  <2>1. \A i \in 1..(Len(path) - 1) : 1 \in 1..i /\ 1 \in 1..Len(path)
    BY <1>1
  <2>. QED
    BY ONLY <1>2, <2>1
<1>4. first = 1
  BY <1>3, FS_EmptySet
<1>5. blanks = {}
  <2>1. \A i \in 1..Len(path) : i \in i..Len(path)
    BY <1>1
  <2>. QED
    BY ONLY <1>2, <1>4, <2>1
<1>6. Len(path) - Cardinality(blanks) = Len(path)
  <2>. HIDE DEF blanks
  <2>. QED
    BY <1>1, <1>5, FS_EmptySet
<1>7. Trimmed(path) = SubSeq(path, first, Len(path) - Cardinality(blanks))
  BY DEF Trimmed
<1>8. Trimmed(path) = path
  <2>. HIDE DEF first, blanks
  <2>. QED
    BY <1>1, <1>4, <1>6, <1>7, SubSeqFull
<1>9. path # <<>> /\ path # <<".">>
  <2>1. <<".">>[1] = "."
    OBVIOUS
  <2>2. 1 \in 1..Len(path)
    BY <1>1
  <2>. QED
    BY ONLY <1>1, <1>2, <2>1, <2>2, IsPath(path) DEF IsPath, IsName, NoName
<1>. QED
  BY <1>8, <1>9 DEF IsRootName

\* No directory at the top has both bin/sh and sbin/burning-progress in it.
LEMMA NoRootPrefix ==
  ASSUME NEW items,
         \A path \in RequiredNames : \E i \in DOMAIN items : items[i].name = path
  PROVE  RootPrefix(items) = NoName
<1>1. SUFFICES ASSUME NEW top \in RootCandidates(items)  PROVE FALSE
  BY DEF RootPrefix
<1>. DEFINE name == items[top].name
<1>2. Len(name) = 1 /\ \A path \in RequiredNames : Within(path, name)
  BY DEF RootCandidates
<1>3. name # NoName
  BY <1>2, EmptySeq DEF NoName
<1>4. \A path \in RequiredNames : SubSeq(name, 1, 1) = SubSeq(path, 1, 1)
  BY <1>2, <1>3 DEF Within, IsPrefix
<1>5. /\ SubSeq(ShellName, 1, 1) = <<"bin">>
      /\ SubSeq(ProgressName, 1, 1) = <<"sbin">>
  BY OnlyFirst DEF ShellName, ProgressName
<1>6. <<"bin">> # <<"sbin">>
  OBVIOUS
<1>. HIDE DEF name
<1>. QED
  BY <1>4, <1>5, <1>6 DEF RequiredNames

\* The names in a packed archive are paths, so each of them is an item.
LEMMA PackedItems ==
  ASSUME NEW tree, IsTree(tree), WrittenFrom(tree)
  PROVE  LET items == TarItems(written)
         IN  /\ DOMAIN items = DOMAIN written
             /\ \A i \in DOMAIN items : items[i].name = written[i].name
<1>1. \A i \in DOMAIN written : IsPath(written[i].name)
  BY DEF WrittenFrom, IsTree
<1>2. \A i \in DOMAIN written : /\ ~IsRootName(written[i].name)
                               /\ Trimmed(written[i].name) = written[i].name
  BY <1>1, PathIsTrimmed
<1>. QED
  BY <1>2 DEF TarItems, TarItem, Entry

\* The entries of all nodes of a tree make that tree again.
LEMMA WrittenIsTree ==
  ASSUME NEW tree, IsTree(tree), WrittenFrom(tree), DOMAIN tree \subseteq Written
  PROVE  TreeOf(written) = tree
<1>1. {e.name : e \in ToSet(written)} = DOMAIN tree
  BY DEF ToSet, Written, WrittenFrom
<1>2. ASSUME NEW path \in DOMAIN tree
      PROVE  TreeOf(written)[path] = tree[path]
  <2>. DEFINE e == CHOOSE f \in ToSet(written) : f.name = path
  <2>1. e \in ToSet(written) /\ e.name = path
    BY <1>1, <1>2
  <2>2. e = Entry(path, tree[path].kind, tree[path].data, NoName)
    BY <2>1 DEF ToSet, WrittenFrom
  <2>3. TreeOf(written)[path] = Node(e.kind, e.data)
    BY <1>1, <1>2 DEF TreeOf
  <2>. HIDE DEF e
  <2>4. TreeOf(written)[path] = Node(tree[path].kind, tree[path].data)
    BY <2>2, <2>3 DEF Entry
  <2>. QED
    BY <2>4, <1>2 DEF IsTree
<1>3. TreeOf(written) = [path \in DOMAIN tree |-> TreeOf(written)[path]]
  BY <1>1 DEF TreeOf
<1>4. tree = [path \in DOMAIN tree |-> tree[path]]
  BY DEF IsTree
<1>. QED
  BY <1>2, <1>3, <1>4

\* An archive that holds bin/sh and sbin/burning-progress where they belong
\* has no wrapper, whatever else is in it.
LEMMA NoWrapper ==
  ASSUME NEW tree, IsTree(tree), WrittenFrom(tree), DOMAIN tree \subseteq Written,
         RequiredNames \subseteq DOMAIN tree
  PROVE  Verify(Packed, packFormat, TRUE).prefix = NoName
<1>1. Refused.prefix = NoName
  BY DEF Refused
<1>2. \A ok, runtime : Verdict(ok, runtime, NoName).prefix = NoName
  BY <1>1 DEF Verdict
<1>3. CpioVerify(Packed, TRUE).prefix = NoName
  BY <1>2 DEF CpioVerify
<1>4. RootPrefix(TarItems(written)) = NoName
  <2>1. \A path \in RequiredNames : \E i \in DOMAIN written : written[i].name = path
    BY DEF Written
  <2>. DEFINE items == TarItems(written)
  <2>2. \A path \in RequiredNames : \E i \in DOMAIN items : items[i].name = path
    BY <2>1, PackedItems
  <2>. HIDE DEF items
  <2>. QED
    BY <2>2, NoRootPrefix DEF items
<1>5. TarVerify(Packed, TRUE).prefix = NoName
  BY <1>2, <1>4 DEF TarVerify, Packed
<1>. QED
  BY <1>1, <1>3, <1>5 DEF Verify

\* A pack that reports success has published a recovery root: always one that
\* passes the verification, and the directory itself, under no wrapper, if its
\* owner left it alone.
THEOREM PackIsFaithful == Spec => []PackedIsSource
<1>1. Init => PackInv
  BY DEF Init, SourceInit, PackInv
<1>2. Inv /\ PackInv /\ [Next]_vars => PackInv'
  <2>1. ASSUME PackInv, UNCHANGED sourceVars  PROVE PackInv'
    <3>1. Verify(Packed, packFormat, TRUE)' = Verify(Packed, packFormat, TRUE)
      BY <2>1 DEF Packed, sourceVars
    <3>. QED
      BY <2>1, <3>1 DEF PackInv, sourceVars, WrittenFrom, Written
  <2>. QED
    BY <2>1, SourceMoves, PackStep DEF Inv
<1>3. Inv /\ PackInv => PackedIsSource
  <2>. SUFFICES ASSUME Inv, PackInv, command = "packed"
                PROVE  /\ Verify(Packed, packFormat, TRUE).ok
                       /\ ~edited => /\ TreeOf(written) = source
                                     /\ Verify(Packed, packFormat, TRUE).prefix = NoName
    BY DEF PackedIsSource
  <2>1. Verify(Packed, packFormat, TRUE).ok
    BY DEF PackInv
  <2>2. ASSUME ~edited
        PROVE  /\ TreeOf(written) = source
               /\ Verify(Packed, packFormat, TRUE).prefix = NoName
    <3>1. /\ WrittenFrom(source) /\ DOMAIN source \subseteq Written
          /\ RequiredNames \subseteq DOMAIN source
      BY <2>2 DEF PackInv
    <3>2. IsTree(source)
      BY <2>2 DEF Inv, SourceShapes
    <3>. QED
      BY <3>1, <3>2, WrittenIsTree, NoWrapper
  <2>. QED
    BY <2>1, <2>2
<1>. QED
  BY <1>1, <1>2, <1>3, Invariant, PTL DEF Spec

-----------------------------------------------------------------------------
(* What an extraction counts and makes.                                     *)

GoodNode(node) ==
  node.kind \in NodeKinds /\ (node.kind = "dir" => node = Directory)

GoodNodes(tree) == \A path \in DOMAIN tree : GoodNode(tree[path])

LEMMA DirectoryIsGood == GoodNode(Directory)
BY DEF GoodNode, Directory, Node, NodeKinds, Kinds

LEMMA MadeIsGood ==
  ASSUME NEW e, IsEntry(e), e.kind # "hard"
  PROVE  GoodNode(Made(e))
<1>1. CASE e.kind = "dir"
  BY <1>1, DirectoryIsGood DEF Made
<1>2. CASE e.kind # "dir"
  BY <1>2 DEF Made, Node, GoodNode, IsEntry
<1>. QED
  BY <1>1, <1>2

LEMMA GoodDirectories ==
  ASSUME NEW tree, GoodNodes(tree), NEW paths
  PROVE  GoodNodes(WithDirectories(tree, paths))
BY DirectoryIsGood DEF GoodNodes, WithDirectories

LEMMA GoodWithNode ==
  ASSUME NEW tree, GoodNodes(tree), NEW path, NEW node, GoodNode(node)
  PROVE  GoodNodes(WithNode(tree, path, node))
BY DEF GoodNodes, WithNode

LEMMA GoodCpio ==
  ASSUME NEW tree, GoodNodes(tree), NEW e, IsEntry(e),
         NEW new \in CpioTrees(tree, e) \cup CpioPutOff(tree, e)
  PROVE  GoodNodes(new)
<1>. DEFINE parents == WithDirectories(tree, Parents(e.name))
<1>1. GoodNodes(parents)
  BY GoodDirectories
<1>2. \/ new = parents
      \/ e.kind # "hard" /\ new = WithNode(parents, PathOf(e.name), Made(e))
  BY DEF CpioTrees, CpioPutOff
<1>. HIDE DEF parents
<1>. QED
  BY <1>1, <1>2, MadeIsGood, GoodWithNode

LEMMA GoodTar ==
  ASSUME NEW tree, GoodNodes(tree), NEW e, IsEntry(e),
         NEW new \in TarTrees(tree, e)
  PROVE  GoodNodes(new)
<1>. DEFINE path == TarPath(e)
            files == {p \in Parents(path) \cap DOMAIN tree : tree[p].kind # "dir"}
            kept == Without(tree, files)
            parents == WithDirectories(kept, Parents(path))
<1>1. GoodNodes(kept)
  BY DEF Without, GoodNodes
<1>2. GoodNodes(parents)
  <2>. HIDE DEF kept
  <2>. QED
    BY <1>1, GoodDirectories
<1>3. PICK data : new = WithNode(parents, path, IF e.kind # "hard" THEN Made(e)
                                               ELSE Node("file", data))
  BY DEF TarTrees
<1>4. GoodNode(Node("file", data))
  BY DEF GoodNode, Node, NodeKinds, Kinds
<1>. HIDE DEF parents, path
<1>. QED
  BY <1>2, <1>3, <1>4, MadeIsGood, GoodWithNode

ExtractTypes ==
  /\ unpack \in UnpackSteps \cup {"idle", "extracted", "refused"}
  /\ require \in BOOLEAN /\ swapped \in BOOLEAN
  /\ done \in 0..Len(opened.entries) /\ Len(links) \in 0..done
  /\ unpack \in {"idle", "detect", "verify", "reopen"} => done = 0
  /\ unpack \in {"links", "extracted"} => done = Len(opened.entries)
  /\ unpack = "extracted" => links = <<>>
  /\ GoodNodes(dest)

\* The entry that is next.
LEMMA NextEntry ==
  ASSUME ExtractionInv, ExtractTypes, More
  PROVE  /\ Current = opened.entries[done + 1] /\ IsEntry(Current)
         /\ done + 1 \in 0..Len(opened.entries)
         /\ done + 1 \in DOMAIN opened.entries
         /\ done \in Nat /\ 1..(done + 1) = 1..done \cup {done + 1}
<1>1. /\ Len(opened.entries) \in Nat
      /\ DOMAIN opened.entries = 1..Len(opened.entries)
  BY LenProperties DEF ExtractionInv, AreEntries
<1>2. done < Len(opened.entries) /\ done \in 0..Len(opened.entries)
  BY DEF More, ExtractTypes
<1>3. /\ done \in Nat /\ done + 1 \in 0..Len(opened.entries)
      /\ done + 1 \in 1..Len(opened.entries)
      /\ 1..(done + 1) = 1..done \cup {done + 1}
  BY <1>1, <1>2
<1>. QED
  BY <1>1, <1>3 DEF ExtractionInv, AreEntries, Current

\* The links after an entry.
LEMMA MoreLinks ==
  ASSUME ExtractionInv, NEW e
  PROVE  /\ links \o <<>> = links
         /\ Len(links) \in Nat /\ Len(links \o <<e>>) = Len(links) + 1
         /\ ToSet(links \o <<e>>) = ToSet(links) \cup {e}
<1>. DEFINE S == ToSet(links) \cup {e}
            new == links \o <<e>>
<1>1. /\ links \in Seq(S) /\ <<e>> \in Seq(S) /\ Len(<<e>>) = 1 /\ <<e>>[1] = e
  BY DEF ExtractionInv, PutOff
<1>. HIDE DEF S
<1>2. /\ new \in Seq(S) /\ Len(new) = Len(links) + 1
      /\ \A i \in 1..(Len(links) + 1) :
           new[i] = IF i <= Len(links) THEN links[i] ELSE <<e>>[i - Len(links)]
  BY <1>1, ConcatProperties
<1>3. /\ Len(links) \in Nat /\ DOMAIN links = 1..Len(links)
      /\ DOMAIN new = 1..(Len(links) + 1)
  BY <1>1, <1>2, LenProperties
<1>. HIDE DEF new
<1>4. /\ \A i \in DOMAIN links : i \in DOMAIN new /\ new[i] = links[i]
      /\ Len(links) + 1 \in DOMAIN new /\ new[Len(links) + 1] = e
      /\ \A i \in DOMAIN new : i \in DOMAIN links \/ i = Len(links) + 1
  BY <1>1, <1>2, <1>3
<1>5. ToSet(new) = ToSet(links) \cup {e}
  BY <1>4 DEF ToSet
<1>. QED
  BY <1>1, <1>2, <1>3, <1>5, ConcatEmptySeq DEF new

LEMMA ExtractTypesStep ==
  ASSUME ExtractionInv, IsArchive(archive), ExtractTypes, UnpackNext
  PROVE  ExtractTypes'
<1>. USE DEF ExtractTypes, UnpackSteps
<1>1. CASE \E required, empty \in BOOLEAN : StartUnpack(required, empty)
  <2>1. GoodNodes(EmptyTree)
    BY EmptySeq DEF GoodNodes, EmptyTree
  <2>2. GoodNodes(dest')
    BY <1>1, <2>1, DirectoryIsGood, GoodWithNode DEF StartUnpack
  <2>. QED
    BY <1>1, <2>2 DEF StartUnpack
<1>2. CASE Detect \/ VerifyArchive \/ EndOfEntries \/ FinishUnpack \/ UnpackFails
  BY <1>2 DEF Detect, VerifyArchive, EndOfEntries, FinishUnpack, UnpackFails,
              GoodNodes
<1>3. CASE Reopen
  <2>1. Len(archive.entries) \in Nat
    BY LenProperties DEF IsArchive, AreEntries
  <2>. QED
    BY <1>3, <2>1 DEF Reopen, GoodNodes
<1>4. CASE CpioEntry
  <2>1. More /\ UNCHANGED <<require, swapped, opened>>
        /\ \/ /\ dest' \in CpioTrees(dest, Current) /\ done' = done + 1
              /\ links' = links \o <<>> /\ unpack' = unpack
           \/ unpack' = "refused" /\ UNCHANGED <<dest, done, links>>
    BY <1>4 DEF CpioEntry, Extract
  <2>2. \/ GoodNodes(dest')
        \/ UNCHANGED dest
    BY <2>1, NextEntry, GoodCpio
  <2>. QED
    BY <2>1, <2>2, NextEntry, MoreLinks DEF GoodNodes, More
<1>5. CASE CpioLink
  <2>1. More /\ UNCHANGED <<require, swapped, opened>>
        /\ \/ /\ dest' \in CpioPutOff(dest, Current) /\ done' = done + 1
              /\ links' = links \o <<Current>> /\ unpack' = unpack
           \/ unpack' = "refused" /\ UNCHANGED <<dest, done, links>>
    BY <1>5 DEF CpioLink, Extract
  <2>2. \/ GoodNodes(dest')
        \/ UNCHANGED dest
    BY <2>1, NextEntry, GoodCpio
  <2>. QED
    BY <2>1, <2>2, NextEntry, MoreLinks DEF GoodNodes, More
<1>6. CASE TarEntry
  <2>1. More /\ UNCHANGED <<require, swapped, opened>>
        /\ \/ /\ dest' = dest \/ dest' \in TarTrees(dest, Current)
              /\ done' = done + 1
              /\ links' = links \o <<>> /\ unpack' = unpack
           \/ unpack' = "refused" /\ UNCHANGED <<dest, done, links>>
    BY <1>6 DEF TarEntry, Extract
  <2>2. \/ GoodNodes(dest')
        \/ UNCHANGED dest
    BY <2>1, NextEntry, GoodTar
  <2>. QED
    BY <2>1, <2>2, NextEntry, MoreLinks DEF GoodNodes, More
<1>7. CASE MakeLink
  <2>1. /\ unpack = "links" /\ links # <<>>
        /\ UNCHANGED <<require, swapped, opened, done>>
        /\ \/ unpack' = "refused" /\ UNCHANGED <<dest, links>>
           \/ /\ dest' = WithNode(dest, Head(links).name,
                                  Node("link", Head(links).data))
              /\ links' = Tail(links) /\ unpack' = unpack
    BY <1>7 DEF MakeLink
  <2>2. /\ Len(links) \in Nat \ {0} /\ Len(Tail(links)) = Len(links) - 1
    BY <2>1, LenProperties, EmptySeq, HeadTailProperties DEF ExtractionInv, PutOff
  <2>3. \A data : GoodNode(Node("link", data))
    BY DEF GoodNode, Node, NodeKinds, Kinds
  <2>4. \/ GoodNodes(dest')
        \/ UNCHANGED dest
    BY <2>1, <2>3, GoodWithNode
  <2>5. Len(links') \in 0..done'
    <3>1. Len(links) \in 0..done /\ done' = done
      BY <2>1
    <3>2. links' = links \/ links' = Tail(links)
      BY <2>1
    <3>3. CASE links' = Tail(links)
      <4>1. \A n \in Nat \ {0} : n \in 0..done => n - 1 \in 0..done
        OBVIOUS
      <4>. QED
        BY ONLY <3>1, <3>3, <2>2, <4>1
    <3>. QED
      BY <3>1, <3>2, <3>3
  <2>6. GoodNodes(dest)'
    BY <2>4 DEF GoodNodes
  <2>7. /\ unpack' \in {"links", "refused"} /\ done = Len(opened.entries)
        /\ done' \in 0..Len(opened'.entries)
        /\ require' \in BOOLEAN /\ swapped' \in BOOLEAN
    BY <2>1
  <2>. QED
    BY ONLY <2>1, <2>5, <2>6, <2>7 DEF ExtractTypes, UnpackSteps
<1>8. CASE LeaveDestination
  <2>1. GoodNodes(EmptyTree)
    BY EmptySeq DEF GoodNodes, EmptyTree
  <2>2. Len(<<>>) = 0
    BY EmptySeq
  <2>3. /\ GoodNodes(dest') /\ Len(links') = 0 /\ Len(opened'.entries) = 0
        /\ unpack' = "idle" /\ done' = 0 /\ require' = FALSE /\ swapped' = FALSE
    BY <1>8, <2>1, <2>2 DEF LeaveDestination, NoArchive
  <2>4. GoodNodes(dest)'
    BY <2>3 DEF GoodNodes
  <2>. QED
    <3>1. /\ done' \in 0..Len(opened'.entries) /\ Len(links') \in 0..done'
      BY ONLY <2>3
    <3>2. require' \in BOOLEAN /\ swapped' \in BOOLEAN
      BY ONLY <2>3
    <3>3. /\ unpack' = "idle" /\ done' = 0
      BY ONLY <2>3
    <3>. QED
      BY ONLY <3>1, <3>2, <3>3, <2>4 DEF ExtractTypes
<1>. QED
  BY <1>1, <1>2, <1>3, <1>4, <1>5, <1>6, <1>7, <1>8 DEF UnpackNext

LEMMA ExtractTypesInit == Init => ExtractTypes
<1>. SUFFICES ASSUME Init PROVE ExtractTypes
  OBVIOUS
<1>1. GoodNodes(EmptyTree) /\ Len(<<>>) = 0
  BY EmptySeq DEF GoodNodes, EmptyTree
<1>2. /\ done = 0 /\ links = <<>> /\ opened.entries = <<>> /\ dest = EmptyTree
      /\ unpack = "idle" /\ require = FALSE /\ swapped = FALSE
  BY DEF Init, UnpackInit, NoArchive
<1>3. /\ done \in 0..Len(opened.entries) /\ Len(links) \in 0..done
  BY ONLY <1>1, <1>2
<1>. QED
  BY <1>1, <1>2, <1>3 DEF ExtractTypes

LEMMA ExtractTypesInvariant == Spec => []ExtractTypes
<1>1. Inv /\ ExtractTypes /\ [Next]_vars => ExtractTypes'
  <2>. SUFFICES ASSUME Inv, ExtractTypes, [Next]_vars  PROVE ExtractTypes'
    OBVIOUS
  <2>1. CASE Extraction
    BY <2>1, ExtractTypesStep DEF Extraction, Inv
  <2>2. CASE Command \/ Replaced
    BY <2>2 DEF Command, Replaced, NoticeReplaced, ExtractTypes, GoodNodes
  <2>3. CASE OwnerEdits \/ UNCHANGED vars
    BY <2>3 DEF OwnerEdits, vars, unpackVars, ExtractTypes, GoodNodes
  <2>. QED
    BY <2>1, <2>2, <2>3 DEF Next
<1>. QED
  BY <1>1, ExtractTypesInit, Invariant, PTL DEF Spec

\* The variables of both sides keep their shapes.
THEOREM TypeCorrect == Spec => []TypeOK
<1>1. Inv /\ ExtractTypes /\ TemporaryInv => TypeOK
  <2>. SUFFICES ASSUME Inv, ExtractTypes, TemporaryInv  PROVE TypeOK
    OBVIOUS
  <2>1. HasNodes(dest)
    BY DEF ExtractTypes, GoodNodes, GoodNode, HasNodes
  <2>2. HasNodes(source)
    BY DEF Inv, SourceShapes, IsTree, HasNodes, NoSource, Node, NodeKinds
  <2>3. \A key \in DOMAIN answered : RuntimeLegal(key, answered[key])
    BY DEF Inv, SourceShapes, LegalConfig, Legal
  <2>4. done \in 0..Len(opened.entries) /\ Len(links) <= done
    <3>1. done \in 0..Len(opened.entries) /\ Len(links) \in 0..done
      BY DEF ExtractTypes
    <3>. QED
      BY ONLY <3>1
  <2>5. {require, swapped, edited} \subseteq BOOLEAN
    BY DEF ExtractTypes, Inv, SourceShapes
  <2>. QED
    BY <2>1, <2>2, <2>3, <2>4, <2>5
       DEF Inv, SourceShapes, ExtractTypes, TemporaryInv, TypeOK, IsArchive
<1>. QED
  BY <1>1, Invariant, ExtractTypesInvariant, TemporaryInvariant, PTL

-----------------------------------------------------------------------------
(* What is extracted is what was verified.                                  *)

Extracting == unpack \in {"entries", "links", "extracted"}

\* As long as no other file has come to the path, the verification was of the
\* archive that is read.
VerifiedInv ==
  ~swapped =>
    /\ unpack = "reopen" => info = Verify(archive, format, require) /\ info.ok
    /\ Extracting => info = Verify(opened, format, require) /\ info.ok

LEMMA VerifiedStep == VerifiedInv /\ [Next]_vars => VerifiedInv'
<1>. SUFFICES ASSUME VerifiedInv, [Next]_vars  PROVE VerifiedInv'
  OBVIOUS
<1>1. CASE Extraction
  <2>1. CASE VerifyArchive
    <3>1. /\ info' = Verify(archive, format, require)
          /\ unpack' = IF info'.ok THEN "reopen" ELSE "refused"
          /\ UNCHANGED <<archive, format, require>>
      BY <2>1 DEF VerifyArchive
    <3>2. Verify(archive, format, require)' = Verify(archive, format, require)
      BY <3>1
    <3>. QED
      BY <3>1, <3>2 DEF VerifiedInv, Extracting
  <2>2. CASE Reopen
    <3>1. /\ unpack = "reopen" /\ UNCHANGED <<info, format, require, swapped>>
          /\ \/ unpack' = "entries" /\ opened' = archive
             \/ unpack' = "refused"
      BY <2>2 DEF Reopen
    <3>2. opened' = archive => Verify(opened, format, require)'
                                 = Verify(archive, format, require)
      BY <3>1
    <3>. QED
      BY <3>1, <3>2 DEF VerifiedInv, Extracting
  <2>3. CASE CpioEntry \/ CpioLink \/ TarEntry \/ EndOfEntries \/ MakeLink
             \/ FinishUnpack
    <3>1. /\ Extracting /\ unpack' # "reopen"
          /\ UNCHANGED <<info, opened, format, require, swapped>>
      BY <2>3 DEF CpioEntry, CpioLink, TarEntry, EndOfEntries, MakeLink,
                  FinishUnpack, Extract, More, Extracting
    <3>2. Verify(opened, format, require)' = Verify(opened, format, require)
      BY <3>1
    <3>. QED
      BY <3>1, <3>2 DEF VerifiedInv
  <2>4. CASE \/ \E required, empty \in BOOLEAN : StartUnpack(required, empty)
             \/ Detect \/ UnpackFails \/ LeaveDestination
    <3>1. unpack' \in {"detect", "verify", "refused", "idle"}
      BY <2>4 DEF StartUnpack, Detect, UnpackFails, LeaveDestination
    <3>. QED
      BY <3>1 DEF VerifiedInv, Extracting
  <2>. QED
    BY <1>1, <2>1, <2>2, <2>3, <2>4 DEF Extraction, UnpackNext
<1>2. CASE Command \/ Replaced
  <2>1. /\ swapped' = (swapped \/ (unpack = "reopen" /\ archive' # archive))
        /\ UNCHANGED <<unpack, info, opened, format, require>>
    BY <1>2 DEF Command, Replaced, NoticeReplaced
  <2>2. /\ Verify(opened, format, require)' = Verify(opened, format, require)
        /\ archive' = archive => Verify(archive, format, require)'
                                  = Verify(archive, format, require)
    BY <2>1
  <2>. QED
    BY <2>1, <2>2 DEF VerifiedInv, Extracting
<1>3. CASE OwnerEdits \/ UNCHANGED vars
  <2>1. UNCHANGED <<archive, unpack, info, opened, format, require, swapped>>
    BY <1>3 DEF OwnerEdits, Edit, vars, unpackVars
  <2>2. /\ Verify(opened, format, require)' = Verify(opened, format, require)
        /\ Verify(archive, format, require)' = Verify(archive, format, require)
    BY <2>1
  <2>. QED
    BY <2>1, <2>2 DEF VerifiedInv, Extracting
<1>. QED
  BY <1>1, <1>2, <1>3 DEF Next

\* What a verification that succeeds says of a CPIO archive.
LEMMA CpioVerified ==
  ASSUME NEW a, NEW required, Verify(a, "cpio", required).ok
  PROVE  LET configs == {e \in ToSet(a.entries) : e.name = ConfigName}
         IN  /\ \A i \in DOMAIN a.entries :
                  /\ ValidArchiveName(a.entries[i].name) /\ a.entries[i].kind \in Kinds
                  /\ a.entries[i].kind = "dir" => a.entries[i].data = <<>>
             /\ Distinct(a.entries)
             /\ \A e \in configs : e.kind = "file"
             /\ Verify(a, "cpio", required).runtime = RuntimeOf(configs).config
<1>. DEFINE configs == {e \in ToSet(a.entries) : e.name = ConfigName}
            runtime == RuntimeOf(configs)
            good == /\ ~a.cut
                    /\ \A i \in DOMAIN a.entries :
                         /\ ValidArchiveName(a.entries[i].name)
                         /\ a.entries[i].kind \in Kinds
                         /\ a.entries[i].kind = "dir" => a.entries[i].data = <<>>
                    /\ Distinct(a.entries)
                    /\ \A e \in configs : e.kind = "file"
                    /\ runtime.ok
                    /\ required => IsRecoveryRoot(a.entries, runtime.config)
<1>1. Refused.ok = FALSE
  BY DEF Refused
<1>2. Verify(a, "cpio", required) = Verdict(good, runtime.config, NoName)
  BY <1>1 DEF Verify, CpioVerify
<1>. HIDE DEF good, runtime
<1>3. good /\ Verify(a, "cpio", required).runtime = runtime.config
  BY <1>1, <1>2 DEF Verdict
<1>. QED
  BY <1>3 DEF good, runtime

\* The entries of a CPIO archive that are extracted, or put off.
Reached == {opened.entries[i] : i \in 1..done}

\* Each of them has its directories and, unless it waits, its node; nothing
\* else is there.
CpioProgress ==
  format = "cpio" /\ Extracting =>
    /\ \A e \in Reached :
         /\ \A path \in Parents(e.name) : DirectoryAt(dest, path)
         /\ \/ e \in ToSet(links)
            \/ PathOf(e.name) \in DOMAIN dest /\ dest[PathOf(e.name)] = Made(e)
    /\ \A path \in DOMAIN dest : \E e \in Reached :
         path = PathOf(e.name) \/ path \in Parents(e.name)
    /\ \A e \in ToSet(links) : e \in Reached /\ e.kind = "link"

LEMMA CpioTreeFacts ==
  ASSUME NEW tree, GoodNodes(tree), NEW e, IsEntry(e),
         NEW new \in CpioTrees(tree, e)
  PROVE  /\ DOMAIN new = DOMAIN tree \cup Parents(e.name) \cup {PathOf(e.name)}
         /\ new[PathOf(e.name)] = Made(e)
         /\ \A p \in Parents(e.name) : DirectoryAt(new, p)
<1>. DEFINE path == PathOf(e.name)
            parents == WithDirectories(tree, Parents(e.name))
<1>1. /\ DOMAIN parents = DOMAIN tree \cup Parents(e.name)
      /\ GoodNodes(parents)
      /\ \A p \in Parents(e.name) : DirectoryAt(parents, p)
  BY GoodDirectories DEF CpioTrees, SafeParents, WithDirectories, DirectoryAt,
                         Directory, Node
<1>2. \/ /\ path \notin DOMAIN parents
         /\ new = WithNode(parents, path, Made(e))
      \/ /\ path \in DOMAIN parents /\ new = parents
         /\ e.kind = "dir" /\ parents[path].kind = "dir"
  BY DEF CpioTrees
<1>. HIDE DEF path, parents
<1>3. CASE path \notin DOMAIN parents
  BY <1>1, <1>2, <1>3 DEF WithNode, DirectoryAt, path
<1>4. CASE path \in DOMAIN parents
  <2>1. new = parents /\ new[path] = Directory /\ Made(e) = Directory
    BY <1>1, <1>2, <1>4 DEF GoodNodes, GoodNode, Made
  <2>. QED
    BY <1>1, <1>4, <2>1 DEF path
<1>. QED
  BY <1>3, <1>4

LEMMA ReachedGrows ==
  ASSUME ExtractionInv, ExtractTypes, More, done' = done + 1, UNCHANGED opened
  PROVE  Reached' = Reached \cup {Current}
<1>1. 1..(done + 1) = 1..done \cup {done + 1} /\ Current = opened.entries[done + 1]
  BY NextEntry
<1>. QED
  BY <1>1 DEF Reached

LEMMA CpioProgressStep ==
  ASSUME ExtractionInv, ExtractTypes, CpioProgress, UnpackNext
  PROVE  CpioProgress'
<1>1. CASE Reopen
  <2>1. CASE unpack' = "refused"
    BY <2>1 DEF CpioProgress, Extracting
  <2>2. CASE unpack' # "refused"
    <3>1. done' = 0 /\ links' = <<>> /\ dest' = <<>>
      BY <1>1, <2>2 DEF Reopen, EmptyTree, ExtractTypes, ExtractionInv
    <3>2. DOMAIN <<>> = {} /\ 1..0 = {}
      BY EmptySeq
    <3>3. DOMAIN dest' = {} /\ ToSet(links') = {} /\ Reached' = {}
      BY <3>1, <3>2 DEF ToSet, Reached
    <3>. QED
      BY <3>3 DEF CpioProgress
  <2>. QED
    BY <2>1, <2>2
<1>2. CASE CpioEntry
  <2>1. /\ More /\ UNCHANGED <<format, opened>>
        /\ \/ /\ dest' \in CpioTrees(dest, Current) /\ done' = done + 1
              /\ links' = links \o <<>> /\ unpack' = unpack
           \/ unpack' = "refused"
    BY <1>2 DEF CpioEntry, Extract
  <2>2. CASE unpack' = "refused"
    BY <2>2 DEF CpioProgress, Extracting
  <2>3. CASE unpack' # "refused"
    <3>1. IsEntry(Current) /\ IsName(Current.name)
      BY <2>1, NextEntry DEF IsEntry
    <3>2. /\ Reached' = Reached \cup {Current} /\ links' = links
          /\ DOMAIN dest' = DOMAIN dest \cup Parents(Current.name)
                                       \cup {PathOf(Current.name)}
          /\ dest'[PathOf(Current.name)] = Made(Current)
          /\ \A path \in DOMAIN dest : dest'[path] = dest[path]
          /\ \A path \in Parents(Current.name) : DirectoryAt(dest', path)
      <4>1. Reached' = Reached \cup {Current} /\ links' = links
        BY <2>1, <2>3, ReachedGrows, MoreLinks
      <4>2. GoodNodes(dest) /\ Closed(dest)
        BY DEF ExtractTypes, ExtractionInv
      <4>3. dest' \in CpioTrees(dest, Current)
        BY <2>1, <2>3
      <4>4. \A path \in DOMAIN dest : dest'[path] = dest[path]
        BY <3>1, <4>2, <4>3, CpioTreesClosed
      <4>5. /\ DOMAIN dest' = DOMAIN dest \cup Parents(Current.name)
                                         \cup {PathOf(Current.name)}
            /\ dest'[PathOf(Current.name)] = Made(Current)
            /\ \A path \in Parents(Current.name) : DirectoryAt(dest', path)
        BY ONLY <3>1, <4>2, <4>3, CpioTreeFacts
      <4>. QED
        BY <4>1, <4>4, <4>5
    <3>3. CpioProgress /\ Extracting
      BY <2>1 DEF More, Extracting
    <3>. QED
      BY <2>1, <3>2, <3>3 DEF CpioProgress, DirectoryAt
  <2>. QED
    BY <2>2, <2>3
<1>3. CASE CpioLink
  <2>1. /\ More /\ UNCHANGED <<format, opened>> /\ Current.kind = "link"
        /\ \/ /\ dest' \in CpioPutOff(dest, Current) /\ done' = done + 1
              /\ links' = links \o <<Current>> /\ unpack' = unpack
           \/ unpack' = "refused"
    BY <1>3 DEF CpioLink, Extract
  <2>2. CASE unpack' = "refused"
    BY <2>2 DEF CpioProgress, Extracting
  <2>3. CASE unpack' # "refused"
    <3>1. /\ Reached' = Reached \cup {Current}
          /\ ToSet(links') = ToSet(links) \cup {Current}
      BY <2>1, <2>3, ReachedGrows, MoreLinks
    <3>2. dest' = WithDirectories(dest, Parents(Current.name))
      BY <2>1, <2>3 DEF CpioPutOff
    <3>3. /\ DOMAIN dest' = DOMAIN dest \cup Parents(Current.name)
          /\ \A path \in DOMAIN dest : dest'[path] = dest[path]
          /\ \A path \in Parents(Current.name) : DirectoryAt(dest', path)
      BY <2>1, <2>3, <3>2 DEF WithDirectories, CpioPutOff, SafeParents,
                              DirectoryAt, Directory, Node
    <3>4. CpioProgress /\ Extracting
      BY <2>1 DEF More, Extracting
    <3>. QED
      BY <2>1, <3>1, <3>3, <3>4 DEF CpioProgress, DirectoryAt
  <2>. QED
    BY <2>2, <2>3
<1>4. CASE MakeLink
  <2>. DEFINE link == Head(links)
  <2>1. /\ unpack = "links" /\ links # <<>> /\ UNCHANGED <<format, opened, done>>
        /\ \/ unpack' = "refused"
           \/ /\ Last(link.name) # Nothing /\ link.name \notin DOMAIN dest
              /\ dest' = WithNode(dest, link.name, Node("link", link.data))
              /\ links' = Tail(links) /\ unpack' = unpack
    BY <1>4 DEF MakeLink
  <2>2. CASE unpack' = "refused"
    BY <2>2 DEF CpioProgress, Extracting
  <2>3. CASE unpack' # "refused" /\ format = "cpio"
    <3>1. ToSet(links) = {link} \cup ToSet(Tail(links))
      <4>1. links \in Seq(ToSet(links))
        BY DEF ExtractionInv, PutOff
      <4>2. /\ Len(links) \in Nat \ {0} /\ DOMAIN links = 1..Len(links)
            /\ link = links[1] /\ Tail(links) \in Seq(ToSet(links))
            /\ Len(Tail(links)) = Len(links) - 1
            /\ \A i \in 1..Len(Tail(links)) : Tail(links)[i] = links[i + 1]
        BY <2>1, <4>1, EmptySeq, LenProperties, HeadTailProperties
      <4>3. DOMAIN Tail(links) = 1..Len(Tail(links))
        BY <4>2, LenProperties
      <4>. HIDE DEF link
      <4>4. /\ 1 \in DOMAIN links
            /\ \A i \in DOMAIN Tail(links) : i + 1 \in DOMAIN links
            /\ \A i \in DOMAIN links :
                 i = 1 \/ (i - 1 \in DOMAIN Tail(links) /\ (i - 1) + 1 = i)
        BY ONLY <4>2, <4>3
      <4>. QED
        BY <4>2, <4>3, <4>4 DEF ToSet
    <3>2. /\ CpioProgress /\ Extracting /\ Extracting'
      BY <2>1, <2>3 DEF Extracting
    <3>3. link.kind = "link" /\ link \in Reached /\ Reached' = Reached
      BY <2>1, <2>3, <3>1, <3>2 DEF CpioProgress, Reached
    <3>4. PathOf(link.name) = link.name /\ Made(link) = Node("link", link.data)
      BY <2>1, <2>3, <3>3 DEF PathOf, Made
    <3>5. /\ DOMAIN dest' = DOMAIN dest \cup {link.name}
          /\ dest'[link.name] = Made(link)
          /\ \A path \in DOMAIN dest : dest'[path] = dest[path]
      BY <2>1, <2>3, <3>4 DEF WithNode
    <3>6. links' = Tail(links) /\ UNCHANGED format
      BY <2>1, <2>3
    <3>. HIDE DEF link
    <3>. QED
      BY <2>3, <3>1, <3>2, <3>3, <3>4, <3>5, <3>6 DEF CpioProgress, DirectoryAt
  <2>. QED
    BY <2>1, <2>2, <2>3 DEF CpioProgress
<1>5. CASE EndOfEntries \/ FinishUnpack
  <2>1. Extracting /\ UNCHANGED <<dest, format, opened, done, links>>
    BY <1>5 DEF EndOfEntries, FinishUnpack, Extracting
  <2>. QED
    BY <2>1 DEF CpioProgress, Reached, DirectoryAt
<1>6. CASE TarEntry
  BY <1>6 DEF TarEntry, Extract, CpioProgress
<1>7. CASE \/ \E required, empty \in BOOLEAN : StartUnpack(required, empty)
           \/ Detect \/ VerifyArchive \/ UnpackFails \/ LeaveDestination
  <2>1. unpack' \in {"detect", "verify", "reopen", "refused", "idle"}
    BY <1>7 DEF StartUnpack, Detect, VerifyArchive, UnpackFails, LeaveDestination
  <2>. QED
    BY <2>1 DEF CpioProgress, Extracting
<1>. QED
  BY <1>1, <1>2, <1>3, <1>4, <1>5, <1>6, <1>7 DEF UnpackNext

\* What is above a name is above its path, or is the path.
LEMMA AbovePath ==
  ASSUME NEW name, IsName(name), ValidArchiveName(name)
  PROVE  Parents(name) \subseteq Parents(PathOf(name)) \cup {PathOf(name)}
<1>1. CASE Last(name) # Nothing
  BY <1>1 DEF PathOf
<1>2. CASE Last(name) = Nothing
  <2>. DEFINE path == PathOf(name)
              S == ToSet(name)
  <2>1. /\ name \in Seq(S) /\ Len(name) \in Nat \ {0}
        /\ \A i \in 1..Len(name) : name[i] \in S
    BY NameFacts
  <2>2. path = SubSeq(name, 1, Len(name) - 1)
    BY <1>2 DEF PathOf, Front
  <2>3. PICK n \in Nat : n = Len(name) - 1
    BY <2>1
  <2>4. 1..n \subseteq 1..Len(name) /\ Len(name) = n + 1
    BY <2>1, <2>3
  <2>5. Len(path) = n
    <3>1. \A i \in 1..n : name[i] \in S
      BY <2>1, <2>4
    <3>2. Len(SubSeq(name, 1, n)) = IF 1 <= n THEN n - 1 + 1 ELSE 0
      BY <3>1, SubSeqProperties
    <3>. QED
      BY <3>2, <2>2, <2>3
  <2>. HIDE DEF path, S
  <2>6. ASSUME NEW k \in 1..(n - 1)
        PROVE  SubSeq(path, 1, k) = SubSeq(name, 1, k)
    <3>1. /\ 1 \in 1..Len(name) /\ n \in 1..Len(name)
          /\ 1 \in 1..(n - 1 + 1) /\ k \in 1..(n - 1 + 1)
          /\ 1 + 1 - 1 = 1 /\ 1 + k - 1 = k
      BY <2>4
    <3>2. SubSeq(SubSeq(name, 1, n), 1, k) = SubSeq(name, 1 + 1 - 1, 1 + k - 1)
      BY <2>1, <3>1, SubSeqOfSubSeq
    <3>. QED
      BY ONLY <3>1, <3>2, <2>2, <2>3
  <2>7. Parents(name) = {SubSeq(name, 1, k) : k \in 1..n}
    BY <2>3 DEF Parents
  <2>8. Parents(path) = {SubSeq(path, 1, k) : k \in 1..(n - 1)}
    BY <2>5 DEF Parents
  <2>9. \A k \in 1..n : k = n \/ k \in 1..(n - 1)
    BY <2>3
  <2>10. Parents(name) \subseteq Parents(path) \cup {path}
    BY <2>2, <2>3, <2>6, <2>7, <2>8, <2>9
  <2>. QED
    BY <2>10 DEF path
<1>. QED
  BY <1>1, <1>2

\* A text without lines gives the default.
LEMMA NothingIsDefault == RuntimeParse(<<>>).config = RuntimeDefault
<1>1. ParseStates("runtime", <<>>)[0] = ParseStart("runtime")
  <2>1. IsParse("runtime", <<>>, ParseStates("runtime", <<>>), 0)
    BY ShortTexts, ParseStatesDefined, EmptySeq
  <2>. QED
    BY <2>1 DEF IsParse
<1>2. RuntimeParse(<<>>) = ParseStart("runtime")
  BY <1>1, EmptySeq DEF RuntimeParse, Parse
<1>. QED
  BY <1>2 DEF ParseStart, Default

\* What ExtractedIsVerified says of the tree, and of the configuration.
SameTree ==
  LET above == UNION {Parents(e.name) : e \in ToSet(Listed)}
  IN  /\ DOMAIN dest = {e.name : e \in ToSet(Listed)} \cup above
      /\ \A e \in ToSet(Listed) :
           \/ dest[e.name] = NodeOf(e)
           \/ format = "tar.gz" /\ e.name \in above

SameConfig ==
  info.runtime =
    IF ConfigName \in DOMAIN dest THEN RuntimeParse(dest[ConfigName].data).config
    ELSE RuntimeDefault

LEMMA CpioExtracted ==
  ASSUME ExtractionInv, ExtractTypes, CpioProgress,
         unpack = "extracted", format = "cpio",
         info = Verify(opened, format, require), info.ok
  PROVE  SameTree /\ SameConfig
<1>. DEFINE entries == opened.entries
            listed(e) == Entry(PathOf(e.name), e.kind, e.data, NoName)
<1>1. /\ \A e \in ToSet(entries) :
           /\ IsName(e.name) /\ ValidArchiveName(e.name) /\ e.kind \in Kinds
           /\ e.kind = "dir" => e.data = <<>>
      /\ \A e, f \in ToSet(entries) : e.name = f.name => e = f
      /\ \A e \in ToSet(entries) : e.name = ConfigName => e.kind = "file"
      /\ info.runtime =
           RuntimeOf({e \in ToSet(entries) : e.name = ConfigName}).config
  <2>1. Verify(opened, "cpio", require).ok /\ info = Verify(opened, "cpio", require)
    OBVIOUS
  <2>2. \A e \in ToSet(entries) : IsName(e.name)
    BY DEF ExtractionInv, AreEntries, IsEntry, ToSet
  <2>3. /\ \A i \in DOMAIN entries :
             /\ ValidArchiveName(entries[i].name) /\ entries[i].kind \in Kinds
             /\ entries[i].kind = "dir" => entries[i].data = <<>>
        /\ Distinct(entries)
        /\ \A e \in {f \in ToSet(entries) : f.name = ConfigName} : e.kind = "file"
        /\ info.runtime =
             RuntimeOf({e \in ToSet(entries) : e.name = ConfigName}).config
    BY <2>1, CpioVerified
  <2>. QED
    BY <2>2, <2>3 DEF Distinct, ToSet
<1>2. Reached = ToSet(entries)
  <2>1. DOMAIN entries = 1..Len(entries)
    BY LenProperties DEF ExtractionInv, AreEntries
  <2>2. done = Len(entries)
    BY DEF ExtractTypes
  <2>. QED
    BY <2>1, <2>2 DEF Reached, ToSet
<1>3. /\ \A e \in ToSet(entries) :
           /\ \A path \in Parents(e.name) : DirectoryAt(dest, path)
           /\ PathOf(e.name) \in DOMAIN dest /\ dest[PathOf(e.name)] = Made(e)
      /\ \A path \in DOMAIN dest : \E e \in ToSet(entries) :
           path = PathOf(e.name) \/ path \in Parents(e.name)
  <2>1. ToSet(links) = {}
    BY EmptySeq DEF ExtractTypes, ToSet
  <2>. QED
    BY <2>1, <1>2 DEF CpioProgress, Extracting
<1>4. ToSet(Listed) = {listed(e) : e \in ToSet(entries)}
  BY DEF Listed, ToSet
<1>5. \A e : listed(e).name = PathOf(e.name) /\ listed(e).kind = e.kind
              /\ listed(e).data = e.data
  BY DEF Entry
<1>6. \A e \in ToSet(entries) :
        /\ Parents(PathOf(e.name)) \subseteq Parents(e.name)
        /\ Parents(e.name) \subseteq Parents(PathOf(e.name)) \cup {PathOf(e.name)}
  BY <1>1, CpioPath, AbovePath
<1>. HIDE DEF listed, entries
<1>7. \A e \in ToSet(entries) : NodeOf(listed(e)) = Made(e)
  <2>. TAKE e \in ToSet(entries)
  <2>1. e.kind \in Kinds /\ (e.kind = "dir" => e.data = <<>>)
    BY <1>1
  <2>2. NodeOf(listed(e)) = Node(e.kind, e.data)
    BY <2>1, <1>5 DEF NodeOf, Kinds
  <2>. QED
    BY <2>1, <2>2 DEF Made, Directory
<1>8. SameTree
  <2>1. {e.name : e \in ToSet(Listed)} = {PathOf(e.name) : e \in ToSet(entries)}
    BY <1>4, <1>5
  <2>2. UNION {Parents(e.name) : e \in ToSet(Listed)}
          = UNION {Parents(PathOf(e.name)) : e \in ToSet(entries)}
    BY <1>4, <1>5
  <2>3. DOMAIN dest = {PathOf(e.name) : e \in ToSet(entries)}
                        \cup UNION {Parents(PathOf(e.name)) : e \in ToSet(entries)}
    <3>1. \A e \in ToSet(entries) :
            /\ PathOf(e.name) \in DOMAIN dest
            /\ Parents(PathOf(e.name)) \subseteq DOMAIN dest
      BY <1>3, <1>6 DEF DirectoryAt
    <3>2. \A path \in DOMAIN dest : \E e \in ToSet(entries) :
            path = PathOf(e.name) \/ path \in Parents(PathOf(e.name))
      BY <1>3, <1>6
    <3>3. \A path : path \in DOMAIN dest <=>
            \E e \in ToSet(entries) :
              path = PathOf(e.name) \/ path \in Parents(PathOf(e.name))
      BY <3>1, <3>2
    <3>. QED
      BY ONLY <3>3
  <2>4. \A e \in ToSet(Listed) : dest[e.name] = NodeOf(e)
    BY <1>3, <1>4, <1>5, <1>7
  <2>. QED
    BY <2>1, <2>2, <2>3, <2>4 DEF SameTree
<1>9. SameConfig
  <2>. DEFINE configs == {e \in ToSet(entries) : e.name = ConfigName}
  <2>1. Last(ConfigName) # Nothing
    <3>1. Last(ConfigName) = "burning-progress.conf"
      BY DEF ConfigName, Last
    <3>. QED
      BY <3>1, Zenon DEF Nothing
  <2>2. info.runtime = RuntimeOf(configs).config
    BY <1>1
  <2>3. CASE configs # {}
    <3>. DEFINE e == CHOOSE f \in configs : TRUE
    <3>1. e \in ToSet(entries) /\ e.name = ConfigName
      BY <2>3
    <3>2. RuntimeOf(configs) = RuntimeParse(e.data)
      BY <2>3 DEF RuntimeOf
    <3>. HIDE DEF e
    <3>3. ConfigName \in DOMAIN dest /\ dest[ConfigName] = Made(e)
      BY <2>1, <3>1, <1>3 DEF PathOf
    <3>4. dest[ConfigName].data = e.data
      BY <1>1, <3>1, <3>3 DEF Made, Node
    <3>. QED
      BY <2>2, <3>2, <3>3, <3>4 DEF SameConfig
  <2>4. CASE configs = {}
    <3>1. info.runtime = RuntimeDefault
      BY <2>2, <2>4 DEF RuntimeOf
    <3>2. ASSUME ConfigName \in DOMAIN dest
          PROVE  dest[ConfigName].data = <<>>
      <4>1. PICK e \in ToSet(entries) :
              ConfigName = PathOf(e.name) \/ ConfigName \in Parents(e.name)
        BY <3>2, <1>3
      <4>2. e.name # ConfigName
        BY <2>4
      <4>3. ConfigName \in Parents(e.name)
        BY <4>1, <4>2, <1>1, CpioPath
      <4>4. dest[ConfigName].kind = "dir"
        BY <4>3, <1>3 DEF DirectoryAt
      <4>. QED
        BY <3>2, <4>4 DEF ExtractTypes, GoodNodes, GoodNode, Directory, Node
    <3>. QED
      BY <3>1, <3>2, NothingIsDefault DEF SameConfig
  <2>. QED
    BY <2>3, <2>4
<1>. QED
  BY <1>8, <1>9

\* The names of items are sequences.
LEMMA ItemNames ==
  ASSUME NEW entries, AreEntries(entries), NEW i \in DOMAIN TarItems(entries)
  PROVE  LET item == TarItems(entries)[i]
         IN  /\ i \in DOMAIN entries
             /\ item.name = Trimmed(entries[i].name)
             /\ item.kind = entries[i].kind
             /\ item.kind = "hard" => item.to = Trimmed(entries[i].to)
             /\ item.name \in Seq(ToSet(entries[i].name))
<1>1. i \in DOMAIN entries /\ TarItems(entries)[i] = TarItem(entries[i])
  BY DEF TarItems
<1>2. IsName(entries[i].name)
  BY <1>1 DEF AreEntries, IsEntry
<1>. QED
  BY <1>1, <1>2, TrimmedFacts DEF TarItem, Entry

\* All directories that everything else is inside of have one name.
LEMMA OneWrapper ==
  ASSUME NEW entries, AreEntries(entries),
         NEW i \in RootCandidates(TarItems(entries)),
         NEW j \in RootCandidates(TarItems(entries))
  PROVE  TarItems(entries)[i].name = TarItems(entries)[j].name
<1>. DEFINE items == TarItems(entries)
            a == items[i].name
            b == items[j].name
<1>1. /\ i \in DOMAIN items /\ j \in DOMAIN items
      /\ Len(a) = 1 /\ Len(b) = 1 /\ Within(b, a)
  BY DEF RootCandidates
<1>2. PICK S : a \in Seq(S)
  BY <1>1, ItemNames
<1>3. PICK T : b \in Seq(T)
  BY <1>1, ItemNames
<1>. HIDE DEF items, a, b
<1>4. a # NoName
  <2>1. Len(NoName) # 1
    BY EmptySeq DEF NoName
  <2>2. a = NoName => Len(a) = Len(NoName)
    OBVIOUS
  <2>. QED
    BY <1>1, <2>1, <2>2, Zenon
<1>5. SubSeq(a, 1, 1) = SubSeq(b, 1, 1)
  BY <1>1, <1>4 DEF Within, IsPrefix
<1>6. SubSeq(a, 1, 1) = a /\ SubSeq(b, 1, 1) = b
  BY <1>1, <1>2, <1>3, SubSeqFull
<1>. QED
  BY <1>5, <1>6 DEF a, b, items

\* An entry that is not skipped is in the list that was verified, under the
\* path it is extracted to.
LEMMA StaysInList ==
  ASSUME NEW entries, AreEntries(entries),
         info.prefix = RootPrefix(TarItems(entries)),
         NEW i \in DOMAIN entries, ~TarSkips(entries[i])
  PROVE  LET list == StrippedItems(TarItems(entries), info.prefix)
         IN  /\ i \in DOMAIN list
             /\ list[i].name = TarPath(entries[i])
             /\ list[i].kind = entries[i].kind
             /\ entries[i].kind = "hard" =>
                  list[i].to = Stripped(Trimmed(entries[i].to), info.prefix)
<1>. DEFINE items == TarItems(entries)
            prefix == info.prefix
            candidates == RootCandidates(items)
            item == items[i]
<1>1. /\ i \in DOMAIN items /\ Stripped(Trimmed(entries[i].name), prefix) # NoName
  BY DEF TarSkips, TarPath, TarItems
<1>2. /\ item.name = Trimmed(entries[i].name) /\ item.kind = entries[i].kind
      /\ item.kind = "hard" => item.to = Trimmed(entries[i].to)
      /\ item.name \in Seq(ToSet(entries[i].name))
  BY <1>1, ItemNames
<1>3. CASE prefix = NoName
  <2>1. \A S : \A path \in Seq(S) : Stripped(path, prefix) = path
    <3>1. Len(prefix) + 1 = 1
      BY <1>3, EmptySeq DEF NoName
    <3>. QED
      BY <3>1, SubSeqFull DEF Stripped
  <2>2. entries[i].kind = "hard" =>
          Trimmed(entries[i].to) \in Seq(ToSet(entries[i].to))
    BY TrimmedFacts DEF AreEntries, IsEntry
  <2>3. StrippedItems(items, prefix) = items
    BY <1>3 DEF StrippedItems
  <2>. HIDE DEF items, prefix
  <2>. QED
    BY <1>1, <1>2, <2>1, <2>2, <2>3 DEF TarPath, items, prefix
<1>4. CASE prefix # NoName
  <2>1. candidates # {}
    BY <1>4 DEF RootPrefix
  <2>2. PICK m : m = Min(candidates) /\ m \in candidates
    <3>1. candidates \in SUBSET Nat
      <4>1. candidates \subseteq DOMAIN entries
        BY DEF RootCandidates, TarItems
      <4>2. DOMAIN entries \subseteq Nat
        BY LenProperties DEF AreEntries
      <4>. QED
        BY <4>1, <4>2
    <3>. HIDE DEF candidates
    <3>2. \E n \in candidates : \A k \in candidates : n <= k
      BY <2>1, <3>1, LeastNumber
    <3>. QED
      BY <3>2 DEF Min
  <2>3. items[m].name = prefix
    <3>1. \E k \in candidates : prefix = items[k].name
      BY <2>1 DEF RootPrefix
    <3>. QED
      BY <2>2, <3>1, OneWrapper
  <2>4. item.name # prefix
    <3>1. Len(prefix) = 1
      BY <2>2, <2>3 DEF RootCandidates
    <3>2. Stripped(prefix, prefix) = SubSeq(prefix, 2, 1)
      BY <3>1 DEF Stripped
    <3>3. SubSeq(prefix, 2, 1) = NoName
      BY SubSeqEmpty DEF NoName
    <3>. QED
      BY <1>1, <1>2, <3>2, <3>3
  <2>. DEFINE list == StrippedItems(items, prefix)
  <2>5. /\ i \in DOMAIN list /\ list[i] = StrippedItem(item, prefix)
    BY <1>1, <1>4, <2>2, <2>3, <2>4 DEF StrippedItems
  <2>. HIDE DEF list, item, prefix
  <2>6. list[i] = Entry(Stripped(item.name, prefix), item.kind, item.data,
                        IF item.kind = "hard" THEN Stripped(item.to, prefix)
                        ELSE item.to)
    BY <2>4, <2>5 DEF StrippedItem
  <2>7. /\ list[i].name = Stripped(item.name, prefix) /\ list[i].kind = item.kind
        /\ item.kind = "hard" => list[i].to = Stripped(item.to, prefix)
    BY <2>6 DEF Entry
  <2>. QED
    BY <1>2, <2>5, <2>7 DEF TarPath, list, prefix
<1>. QED
  BY <1>3, <1>4

\* What a verification that succeeds says of a tar archive.
LEMMA TarVerified ==
  ASSUME NEW a, NEW required, Verify(a, "tar.gz", required).ok
  PROVE  LET prefix == Verify(a, "tar.gz", required).prefix
             list == StrippedItems(TarItems(a.entries), prefix)
         IN  /\ \A i \in DOMAIN a.entries : SafeTarEntry(a.entries[i])
             /\ prefix = RootPrefix(TarItems(a.entries))
             /\ Distinct(list) /\ HardLinksSafe(list)
<1>. DEFINE items == TarItems(a.entries)
            candidates == {i \in DOMAIN items :
                             required /\ IsSuffix(ConfigName, items[i].name)}
            prefix == RootPrefix(items)
            list == StrippedItems(items, prefix)
            runtime == RuntimeOf({items[i] : i \in {j \in candidates :
                         Stripped(items[j].name, prefix) = ConfigName}})
            safe == \A i \in DOMAIN a.entries : SafeTarEntry(a.entries[i])
            one == /\ Cardinality(candidates) <= 1
                   /\ \A i \in candidates : items[i].kind = "file"
                   /\ HardLinksStripped(items, prefix)
            root == /\ runtime.ok
                    /\ required => IsRecoveryRoot(list, runtime.config)
            good == /\ ~a.cut /\ safe /\ one
                    /\ Distinct(list) /\ HardLinksSafe(list) /\ root
<1>1. Refused.ok = FALSE
  BY DEF Refused
<1>2. Verify(a, "tar.gz", required) = Verdict(good, runtime.config, prefix)
  BY <1>1 DEF Verify, TarVerify
<1>. HIDE DEF good, runtime, prefix
<1>3. good /\ Verify(a, "tar.gz", required).prefix = prefix
  BY <1>1, <1>2 DEF Verdict
<1>. QED
  BY <1>3 DEF good, prefix

\* What the verification of a tar archive means for what is extracted of it.
ListedFacts ==
  /\ \A i, j \in DOMAIN Listed : Listed[i].name = Listed[j].name => i = j
  /\ \A i \in DOMAIN Listed : Listed[i].kind = "dir" => Listed[i].data = <<>>
  /\ \A i, j \in DOMAIN Listed :
       Listed[i].kind = "hard" /\ Listed[j].name = Listed[i].to
         => Listed[j].kind = "file"

LEMMA TarListed ==
  ASSUME format = "tar.gz"
  PROVE  /\ DOMAIN Listed \subseteq DOMAIN opened.entries
         /\ \A i \in DOMAIN opened.entries :
              i \in DOMAIN Listed <=> ~TarSkips(opened.entries[i])
         /\ \A i \in DOMAIN Listed :
              LET e == opened.entries[i]
              IN  /\ Listed[i].name = TarPath(e) /\ Listed[i].kind = e.kind
                  /\ Listed[i].data = e.data
                  /\ Listed[i].to = Stripped(Trimmed(e.to), info.prefix)
BY DEF Listed, Entry

LEMMA ListedIsVerified ==
  ASSUME ExtractionInv, format = "tar.gz",
         info = Verify(opened, format, require), info.ok
  PROVE  ListedFacts
<1>. DEFINE entries == opened.entries
            list == StrippedItems(TarItems(entries), info.prefix)
<1>1. AreEntries(entries)
  BY DEF ExtractionInv
<1>2. /\ \A i \in DOMAIN entries : SafeTarEntry(entries[i])
      /\ info.prefix = RootPrefix(TarItems(entries))
      /\ Distinct(list) /\ HardLinksSafe(list)
  <2>1. info = Verify(opened, "tar.gz", require)
    OBVIOUS
  <2>. QED
    BY <2>1, TarVerified
<1>3. \A i \in DOMAIN Listed :
        /\ i \in DOMAIN list
        /\ list[i].name = Listed[i].name /\ list[i].kind = Listed[i].kind
        /\ Listed[i].kind = "hard" => list[i].to = Listed[i].to
  <2>. TAKE i \in DOMAIN Listed
  <2>1. i \in DOMAIN entries /\ ~TarSkips(entries[i])
    BY TarListed
  <2>2. /\ i \in DOMAIN list /\ list[i].name = TarPath(entries[i])
        /\ list[i].kind = entries[i].kind
        /\ entries[i].kind = "hard" =>
             list[i].to = Stripped(Trimmed(entries[i].to), info.prefix)
    BY <1>1, <1>2, <2>1, StaysInList
  <2>. QED
    BY <2>2, TarListed
<1>4. \A i \in DOMAIN Listed : Listed[i].kind = "dir" => Listed[i].data = <<>>
  BY <1>2, TarListed DEF SafeTarEntry, TarSkips
<1>. HIDE DEF list
<1>5. \A i, j \in DOMAIN Listed : Listed[i].name = Listed[j].name => i = j
  BY <1>2, <1>3 DEF Distinct
<1>6. \A i, j \in DOMAIN Listed :
        Listed[i].kind = "hard" /\ Listed[j].name = Listed[i].to
          => Listed[j].kind = "file"
  BY <1>2, <1>3 DEF Distinct, HardLinksSafe
<1>. QED
  BY <1>4, <1>5, <1>6 DEF ListedFacts

\* The entries of a tar archive that are extracted.
Shown == 1..done \cap DOMAIN Listed

\* Each of them has its node, unless a later one has made a directory of it;
\* nothing else is there.
TarProgress ==
  format = "tar.gz" /\ Extracting /\ ~swapped =>
    /\ \A i \in Shown :
         LET path == Listed[i].name
         IN  /\ path \in DOMAIN dest
             /\ \/ dest[path] = NodeOf(Listed[i])
                \/ \E j \in Shown : path \in Parents(Listed[j].name)
    /\ \A path \in DOMAIN dest : \E i \in Shown :
         path = Listed[i].name \/ path \in Parents(Listed[i].name)

LEMMA TarTreeFacts ==
  ASSUME NEW tree, NEW e, NEW new \in TarTrees(tree, e)
  PROVE  LET path == TarPath(e)
             target == Stripped(Trimmed(e.to), info.prefix)
         IN  /\ DOMAIN new = DOMAIN tree \cup Parents(path) \cup {path}
             /\ \A p \in DOMAIN tree \ {path} :
                  new[p] = tree[p] \/ p \in Parents(path)
             /\ e.kind # "hard" => new[path] = Made(e)
             /\ e.kind = "hard" =>
                  /\ target \in DOMAIN tree /\ tree[target].kind = "file"
                  /\ new[path] = Node("file", tree[target].data)
<1>. DEFINE path == TarPath(e)
            target == Stripped(Trimmed(e.to), info.prefix)
            files == {p \in Parents(path) \cap DOMAIN tree : tree[p].kind # "dir"}
            parents == WithDirectories(Without(tree, files), Parents(path))
            node == IF e.kind # "hard" THEN Made(e)
                    ELSE Node("file", parents[target].data)
<1>1. /\ new = WithNode(parents, path, node)
      /\ e.kind = "hard" => target \in DOMAIN parents /\ parents[target].kind = "file"
  BY DEF TarTrees
<1>2. /\ DOMAIN parents = DOMAIN tree \cup Parents(path)
      /\ \A p \in DOMAIN parents :
           parents[p] = IF p \in DOMAIN tree \ files THEN tree[p] ELSE Directory
  BY DEF Without, WithDirectories
<1>3. \A p \in files : p \in Parents(path)
  OBVIOUS
<1>4. Directory.kind # "file"
  BY DEF Directory, Node
<1>. HIDE DEF path, target, files, parents
<1>5. /\ DOMAIN new = DOMAIN tree \cup Parents(path) \cup {path}
      /\ new[path] = node
      /\ \A p \in DOMAIN parents \ {path} : new[p] = parents[p]
  BY <1>1, <1>2 DEF WithNode
<1>6. e.kind = "hard" => /\ target \in DOMAIN tree /\ parents[target] = tree[target]
                         /\ tree[target].kind = "file"
  BY <1>1, <1>2, <1>4
<1>7. \A p \in DOMAIN tree \ {path} : new[p] = tree[p] \/ p \in Parents(path)
  BY <1>2, <1>3, <1>5
<1>. QED
  BY <1>5, <1>6, <1>7 DEF path, target

\* A file that is there and that a hard link names is the one it is a link to.
LEMMA LinkedFile ==
  ASSUME Closed(dest), ListedFacts, TarProgress,
         format = "tar.gz", Extracting, ~swapped,
         NEW i \in DOMAIN Listed, Listed[i].kind = "hard",
         Listed[i].to \in DOMAIN dest, dest[Listed[i].to].kind = "file"
  PROVE  Node("file", dest[Listed[i].to].data) = NodeOf(Listed[i])
<1>. DEFINE target == Listed[i].to
            t == CHOOSE t \in ToSet(Listed) : t.name = target
<1>1. \A k \in Shown : target \notin Parents(Listed[k].name)
  BY DEF TarProgress, Closed, DirectoryAt
<1>2. PICK k \in Shown : target = Listed[k].name
  BY <1>1 DEF TarProgress
<1>3. dest[target] = NodeOf(Listed[k])
  BY <1>1, <1>2 DEF TarProgress
<1>4. k \in DOMAIN Listed /\ Listed[k].kind = "file"
  BY <1>2 DEF Shown, ListedFacts
<1>5. t = Listed[k]
  <2>1. Listed[k] \in ToSet(Listed) /\ Listed[k].name = target
    BY <1>2, <1>4 DEF ToSet
  <2>2. t \in ToSet(Listed) /\ t.name = target
    BY <2>1
  <2>3. PICK m \in DOMAIN Listed : t = Listed[m]
    BY <2>2 DEF ToSet
  <2>. HIDE DEF t, target
  <2>. QED
    BY <2>1, <2>2, <2>3, <1>4 DEF ListedFacts
<1>6. NodeOf(Listed[i]) = Node("file", t.data)
  BY DEF NodeOf
<1>7. NodeOf(Listed[k]) = Node("file", Listed[k].data)
  BY <1>4 DEF NodeOf
<1>. HIDE DEF t
<1>. QED
  BY <1>3, <1>5, <1>6, <1>7 DEF Node

LEMMA TarProgressEntry ==
  ASSUME ExtractionInv, ExtractTypes, ListedFacts, TarProgress, TarEntry, ~swapped
  PROVE  TarProgress'
<1>. DEFINE i == done + 1
            e == Current
<1>1. /\ More /\ format = "tar.gz" /\ Extracting
      /\ UNCHANGED <<format, info, opened, swapped>>
      /\ \/ unpack' = "refused"
         \/ /\ done' = i
            /\ \/ TarSkips(e) /\ dest' = dest
               \/ ~TarSkips(e) /\ dest' \in TarTrees(dest, e)
  BY DEF TarEntry, Extract, More, Extracting
<1>2. /\ e = opened.entries[i] /\ i \in DOMAIN opened.entries
      /\ 1..i = 1..done \cup {i} /\ done \in Nat
  BY <1>1, NextEntry
<1>3. Listed' = Listed
  BY <1>1 DEF Listed, TarSkips, TarPath
<1>4. CASE unpack' = "refused"
  BY <1>4 DEF TarProgress, Extracting
<1>5. CASE done' = i /\ TarSkips(e) /\ dest' = dest
  <2>1. i \notin DOMAIN Listed
    BY <1>1, <1>2, <1>5, TarListed
  <2>2. Shown' = Shown
    BY <1>2, <1>3, <1>5, <2>1 DEF Shown
  <2>. QED
    BY <1>1, <1>3, <1>5, <2>2 DEF TarProgress, NodeOf
<1>6. CASE done' = i /\ ~TarSkips(e) /\ dest' \in TarTrees(dest, e)
  <2>. DEFINE path == Listed[i].name
  <2>1. /\ i \in DOMAIN Listed /\ path = TarPath(e) /\ Listed[i].kind = e.kind
        /\ Listed[i].data = e.data
        /\ Listed[i].to = Stripped(Trimmed(e.to), info.prefix)
    BY <1>1, <1>2, <1>6, TarListed
  <2>2. Shown' = Shown \cup {i}
    BY <1>2, <1>3, <1>6, <2>1 DEF Shown
  <2>3. i \notin Shown
    BY <1>2 DEF Shown
  <2>4. /\ DOMAIN dest' = DOMAIN dest \cup Parents(path) \cup {path}
        /\ \A p \in DOMAIN dest \ {path} :
             dest'[p] = dest[p] \/ p \in Parents(path)
        /\ e.kind # "hard" => dest'[path] = Made(e)
        /\ e.kind = "hard" =>
             /\ Listed[i].to \in DOMAIN dest /\ dest[Listed[i].to].kind = "file"
             /\ dest'[path] = Node("file", dest[Listed[i].to].data)
    <3>1. LET q == TarPath(e)
              target == Stripped(Trimmed(e.to), info.prefix)
          IN  /\ DOMAIN dest' = DOMAIN dest \cup Parents(q) \cup {q}
              /\ \A p \in DOMAIN dest \ {q} : dest'[p] = dest[p] \/ p \in Parents(q)
              /\ e.kind # "hard" => dest'[q] = Made(e)
              /\ e.kind = "hard" =>
                   /\ target \in DOMAIN dest /\ dest[target].kind = "file"
                   /\ dest'[q] = Node("file", dest[target].data)
      <4>. HIDE DEF e
      <4>. QED
        BY <1>6, TarTreeFacts
    <3>. HIDE DEF e, path
    <3>. QED
      BY <3>1, <2>1
  <2>5. dest'[path] = NodeOf(Listed[i])
    <3>1. CASE e.kind = "hard"
      BY <3>1, <1>1, <2>1, <2>4, LinkedFile DEF ExtractionInv
    <3>2. CASE e.kind # "hard"
      <4>1. NodeOf(Listed[i]) = Node(e.kind, e.data)
        BY <3>2, <2>1 DEF NodeOf
      <4>2. e.kind = "dir" => e.data = <<>>
        BY <2>1 DEF ListedFacts
      <4>. QED
        BY <3>2, <4>1, <4>2, <2>4 DEF Made, Directory
    <3>. QED
      BY <3>1, <3>2
  <2>6. \A k \in Shown : Listed[k].name # path
    BY <2>1, <2>3 DEF Shown, ListedFacts
  <2>7. \A k : (NodeOf(Listed[k]))' = NodeOf(Listed[k])
    BY <1>3 DEF NodeOf
  <2>. HIDE DEF i, e, path
  <2>8. ASSUME NEW k \in Shown'
        PROVE  /\ Listed[k].name \in DOMAIN dest'
               /\ \/ dest'[Listed[k].name] = NodeOf(Listed[k])
                  \/ \E j \in Shown' : Listed[k].name \in Parents(Listed[j].name)
    <3>1. CASE k = i
      BY <3>1, <2>4, <2>5 DEF path
    <3>2. CASE k # i
      <4>1. k \in Shown
        BY <3>2, <2>2
      <4>2. /\ Listed[k].name \in DOMAIN dest \ {path}
            /\ \/ dest[Listed[k].name] = NodeOf(Listed[k])
               \/ \E j \in Shown : Listed[k].name \in Parents(Listed[j].name)
        BY <4>1, <1>1, <2>6 DEF TarProgress
      <4>. QED
        BY <4>2, <2>2, <2>4 DEF path
    <3>. QED
      BY <3>1, <3>2
  <2>9. ASSUME NEW p \in DOMAIN dest'
        PROVE  \E k \in Shown' : p = Listed[k].name \/ p \in Parents(Listed[k].name)
    <3>1. CASE p \in DOMAIN dest
      BY <3>1, <1>1, <2>2 DEF TarProgress
    <3>2. CASE p \notin DOMAIN dest
      BY <3>2, <2>2, <2>4 DEF path
    <3>. QED
      BY <3>1, <3>2
  <2>. QED
    BY <1>3, <2>7, <2>8, <2>9 DEF TarProgress
<1>. QED
  BY <1>1, <1>4, <1>5, <1>6

LEMMA TarProgressStep ==
  ASSUME ExtractionInv, ExtractTypes, VerifiedInv, TarProgress, UnpackNext
  PROVE  TarProgress'
<1>1. CASE Reopen
  <2>1. CASE unpack' = "refused"
    BY <2>1 DEF TarProgress, Extracting
  <2>2. CASE unpack' # "refused"
    <3>1. done' = 0 /\ dest' = <<>>
      BY <1>1, <2>2 DEF Reopen, EmptyTree, ExtractTypes
    <3>2. DOMAIN <<>> = {} /\ 1..0 = {}
      BY EmptySeq
    <3>3. DOMAIN dest' = {} /\ Shown' = {}
      BY <3>1, <3>2 DEF Shown
    <3>. QED
      BY <3>3 DEF TarProgress
  <2>. QED
    BY <2>1, <2>2
<1>2. CASE TarEntry
  <2>1. CASE swapped
    BY <1>2, <2>1 DEF TarEntry, Extract, TarProgress
  <2>2. CASE ~swapped
    <3>1. Extracting /\ format = "tar.gz"
      BY <1>2 DEF TarEntry, More, Extracting
    <3>2. ListedFacts
      BY <2>2, <3>1, ListedIsVerified DEF VerifiedInv
    <3>. QED
      BY <1>2, <2>2, <3>2, TarProgressEntry
  <2>. QED
    BY <2>1, <2>2
<1>3. CASE CpioEntry \/ CpioLink
  BY <1>3 DEF CpioEntry, CpioLink, Extract, TarProgress
<1>4. CASE MakeLink
  <2>1. format # "tar.gz" /\ UNCHANGED format
    BY <1>4 DEF MakeLink, ExtractionInv
  <2>. QED
    BY <2>1 DEF TarProgress
<1>5. CASE EndOfEntries \/ FinishUnpack
  <2>1. Extracting /\ UNCHANGED <<dest, format, info, opened, done, swapped>>
    BY <1>5 DEF EndOfEntries, FinishUnpack, Extracting
  <2>2. Listed' = Listed
    BY <2>1 DEF Listed, TarSkips, TarPath
  <2>. QED
    BY <2>1, <2>2 DEF TarProgress, Shown, NodeOf
<1>6. CASE \/ \E required, empty \in BOOLEAN : StartUnpack(required, empty)
           \/ Detect \/ VerifyArchive \/ UnpackFails \/ LeaveDestination
  <2>1. unpack' \in {"detect", "verify", "reopen", "refused", "idle"}
    BY <1>6 DEF StartUnpack, Detect, VerifyArchive, UnpackFails, LeaveDestination
  <2>. QED
    BY <2>1 DEF TarProgress, Extracting
<1>. QED
  BY <1>1, <1>2, <1>3, <1>4, <1>5, <1>6 DEF UnpackNext

LEMMA TarExtracted ==
  ASSUME ExtractionInv, ExtractTypes, TarProgress,
         unpack = "extracted", format = "tar.gz", ~swapped
  PROVE  SameTree
<1>1. Shown = DOMAIN Listed
  <2>1. DOMAIN opened.entries = 1..Len(opened.entries)
    BY LenProperties DEF ExtractionInv, AreEntries
  <2>2. done = Len(opened.entries)
    BY DEF ExtractTypes
  <2>. QED
    BY <2>1, <2>2, TarListed DEF Shown
<1>. DEFINE above == UNION {Parents(e.name) : e \in ToSet(Listed)}
<1>2. above = UNION {Parents(Listed[i].name) : i \in DOMAIN Listed}
  BY DEF ToSet
<1>3. \A i \in DOMAIN Listed :
        /\ Listed[i].name \in DOMAIN dest
        /\ dest[Listed[i].name] = NodeOf(Listed[i]) \/ Listed[i].name \in above
  BY <1>1, <1>2 DEF TarProgress, Extracting
<1>4. \A path \in DOMAIN dest : \E i \in DOMAIN Listed :
        path = Listed[i].name \/ path \in Parents(Listed[i].name)
  BY <1>1 DEF TarProgress, Extracting
<1>5. \A i \in DOMAIN Listed : Parents(Listed[i].name) \subseteq DOMAIN dest
  BY <1>3 DEF ExtractionInv, Closed, DirectoryAt
<1>6. DOMAIN dest = {e.name : e \in ToSet(Listed)} \cup above
  <2>1. \A path : path \in DOMAIN dest <=>
          \E i \in DOMAIN Listed :
            path = Listed[i].name \/ path \in Parents(Listed[i].name)
    BY <1>3, <1>4, <1>5
  <2>2. {e.name : e \in ToSet(Listed)} = {Listed[i].name : i \in DOMAIN Listed}
    BY DEF ToSet
  <2>. HIDE DEF above
  <2>. QED
    BY <2>1, <2>2, <1>2
<1>7. \A e \in ToSet(Listed) : dest[e.name] = NodeOf(e) \/ e.name \in above
  <2>. HIDE DEF above
  <2>. QED
    BY <1>3 DEF ToSet
<1>. QED
  BY <1>6, <1>7 DEF SameTree

\* What an extraction that succeeds has put into the directory is what the
\* verification of the archive saw, entry by entry, in both formats: the
\* archive is read twice more after the format is known, and only a file that
\* takes its place between can make a difference.
THEOREM Extracted == Spec => []ExtractedIsVerified
<1>. DEFINE Progress == VerifiedInv /\ CpioProgress /\ TarProgress
<1>1. Init => Progress
  BY DEF Init, UnpackInit, VerifiedInv, CpioProgress, TarProgress, Extracting
<1>2. Inv /\ ExtractTypes /\ Progress /\ [Next]_vars => Progress'
  <2>. SUFFICES ASSUME Inv, ExtractTypes, Progress, [Next]_vars  PROVE Progress'
    OBVIOUS
  <2>1. VerifiedInv'
    BY VerifiedStep
  <2>2. CASE Extraction
    BY <2>1, <2>2, CpioProgressStep, TarProgressStep DEF Extraction, Inv
  <2>3. CASE Command \/ Replaced \/ OwnerEdits \/ UNCHANGED vars
    <3>1. UNCHANGED <<dest, unpack, format, info, opened, done, links>>
      BY <2>3 DEF Command, Replaced, NoticeReplaced, OwnerEdits, vars, unpackVars
    <3>0. ~swapped' => ~swapped
      <4>1. \/ swapped' = (swapped \/ (unpack = "reopen" /\ archive' # archive))
            \/ swapped' = swapped
        BY <2>3 DEF Command, Replaced, NoticeReplaced, OwnerEdits, vars, unpackVars
      <4>. QED
        BY <4>1
    <3>2. Listed' = Listed
      BY <3>1 DEF Listed, TarSkips, TarPath
    <3>3. CpioProgress'
      BY <3>1 DEF CpioProgress, Extracting, Reached, DirectoryAt
    <3>4. TarProgress'
      <4>1. TarProgress /\ Shown' = Shown /\ (Extracting' <=> Extracting)
            /\ \A i : NodeOf(Listed[i])' = NodeOf(Listed[i])
        BY <3>1, <3>2 DEF Extracting, Shown, NodeOf
      <4>. QED
        BY <3>0, <3>1, <3>2, <4>1 DEF TarProgress
    <3>. QED
      BY <2>1, <3>3, <3>4
  <2>. QED
    BY <2>2, <2>3 DEF Next
<1>3. Inv /\ ExtractTypes /\ Progress => ExtractedIsVerified
  <2>. SUFFICES ASSUME Inv, ExtractTypes, Progress, unpack = "extracted", ~swapped
                PROVE  SameTree /\ (format = "cpio" => SameConfig)
    BY DEF ExtractedIsVerified, SameTree, SameConfig
  <2>1. info = Verify(opened, format, require) /\ info.ok
    BY DEF VerifiedInv, Extracting
  <2>2. format \in {"cpio", "tar.gz"}
    BY <2>1 DEF Verify, Refused
  <2>. QED
    BY <2>1, <2>2, CpioExtracted, TarExtracted DEF Inv
<1>. QED
  BY <1>1, <1>2, <1>3, Invariant, ExtractTypesInvariant, PTL DEF Spec
=============================================================================
