----------------------------- MODULE ImageProofs -----------------------------
(***************************************************************************)
(* Proofs about OciImage and the modules it is made of: for any tree and   *)
(* any names, any number of builders, publishers and readers, any failures *)
(* and kills.                                                              *)
(***************************************************************************)
EXTENDS OciImage, TLAPS, SequenceTheorems, WellFoundedInduction

-----------------------------------------------------------------------------
(* Paths.                                                                  *)

(* A prefix of a sequence, element by element.                             *)
LEMMA PrefixMeans ==
  ASSUME NEW S, NEW s \in Seq(S), NEW t \in Seq(S)
  PROVE  IsPrefix(s, t) <=>
           Len(s) <= Len(t) /\ \A i \in 1 .. Len(s) : s[i] = t[i]
<1>1. CASE Len(s) <= Len(t)
  <2>. DEFINE n == Len(s)
  <2>1. /\ n \in Nat /\ n - 1 + 1 = n /\ 1 \in Int /\ n \in Int
        /\ \A i \in 1 .. n : s[i] \in S /\ t[i] \in S /\ 1 + i - 1 = i
    BY <1>1, ElementOfSeq
  <2>2. SubSeq(s, 1, n) = s
    BY SubSeqFull
  <2>3. /\ SubSeq(t, 1, n) \in Seq(S)
        /\ Len(SubSeq(t, 1, n)) = n
        /\ \A i \in 1 .. n : SubSeq(t, 1, n)[i] = t[i]
    <3>. HIDE DEF n
    <3>1. /\ SubSeq(t, 1, n) \in Seq(S)
          /\ Len(SubSeq(t, 1, n)) = IF 1 <= n THEN n - 1 + 1 ELSE 0
          /\ \A i \in 1 .. n - 1 + 1 : SubSeq(t, 1, n)[i] = t[1 + i - 1]
      BY <2>1, SubSeqProperties
    <3>. QED BY <2>1, <3>1
  <2>4. SubSeq(s, 1, n) = SubSeq(t, 1, n) <=> \A i \in 1 .. n : s[i] = t[i]
    <3>. HIDE DEF n
    <3>1. ASSUME \A i \in 1 .. n : s[i] = t[i] PROVE s = SubSeq(t, 1, n)
      BY <2>3, <3>1, SeqEqual DEF n
    <3>. QED BY <2>2, <2>3, <3>1
  <2>. QED BY <1>1, <2>4 DEF IsPrefix
<1>2. CASE ~(Len(s) <= Len(t))
  BY <1>2 DEF IsPrefix
<1>. QED BY <1>1, <1>2

(* The directory of a path: all of it but the last name.                   *)
LEMMA FrontMeans ==
  ASSUME NEW p \in Tree
  PROVE  /\ Front(p) \in Seq(Names) /\ Len(Front(p)) = Len(p) - 1
         /\ \A i \in 1 .. Len(p) - 1 : Front(p)[i] = p[i]
<1>1. p \in Seq(Names) /\ p # << >>
  BY TreeAssumption
<1>2. Len(p) \in Nat \ {0} /\ \A i \in 1 .. Len(p) - 1 : p[i] \in Names
  BY <1>1, EmptySeq, ElementOfSeq
<1>. DEFINE n == Len(p) - 1
<1>3. n \in Nat /\ 1 \in Int /\ n \in Int /\ n - 1 + 1 = n /\ \A i \in 1 .. n : 1 + i - 1 = i /\ p[i] \in Names
  BY <1>2
<1>4. /\ SubSeq(p, 1, n) \in Seq(Names)
      /\ Len(SubSeq(p, 1, n)) = IF 1 <= n THEN n - 1 + 1 ELSE 0
      /\ \A i \in 1 .. n - 1 + 1 : SubSeq(p, 1, n)[i] = p[1 + i - 1]
  <2>. HIDE DEF n
  <2>. QED BY <1>3, SubSeqProperties
<1>. QED BY <1>3, <1>4 DEF Front

(* What is above a path, other than itself, is at or above its directory;  *)
(* what is above its directory is above it.                                *)
LEMMA PrefixUp ==
  ASSUME NEW p \in Tree, NEW e \in Tree
  PROVE  /\ IsPrefix(p, p)
         /\ IsPrefix(e, p) /\ e # p => IsPrefix(e, Front(p))
         /\ IsPrefix(e, Front(p)) => IsPrefix(e, p)
<1>1. p \in Seq(Names) /\ e \in Seq(Names) /\ Front(p) \in Seq(Names)
  BY TreeAssumption, FrontMeans
<1>2. Len(p) \in Nat /\ Len(e) \in Nat /\ Len(Front(p)) = Len(p) - 1
  BY <1>1, FrontMeans, LenProperties
<1>3. IsPrefix(p, p)
  BY <1>1, <1>2, PrefixMeans
<1>4. ASSUME IsPrefix(e, p), e # p PROVE IsPrefix(e, Front(p))
  <2>1. Len(e) <= Len(p) /\ \A i \in 1 .. Len(e) : e[i] = p[i]
    BY <1>1, <1>4, PrefixMeans
  <2>2. Len(e) # Len(p)
    BY <1>1, <1>2, <1>4, <2>1, SeqEqual
  <2>3. Len(e) <= Len(Front(p)) /\ \A i \in 1 .. Len(e) : e[i] = Front(p)[i]
    BY <1>2, <2>1, <2>2, FrontMeans
  <2>. QED BY <1>1, <2>3, PrefixMeans
<1>5. ASSUME IsPrefix(e, Front(p)) PROVE IsPrefix(e, p)
  <2>1. Len(e) <= Len(Front(p)) /\ \A i \in 1 .. Len(e) : e[i] = Front(p)[i]
    BY <1>1, <1>5, PrefixMeans
  <2>2. \A i \in 1 .. Len(p) - 1 : Front(p)[i] = p[i]
    BY FrontMeans
  <2>3. Len(e) <= Len(p) /\ \A i \in 1 .. Len(e) : i \in 1 .. Len(p) - 1
    BY <1>2, <2>1
  <2>4. Len(e) <= Len(p) /\ \A i \in 1 .. Len(e) : e[i] = p[i]
    BY <2>1, <2>2, <2>3
  <2>. QED BY <1>1, <2>4, PrefixMeans
<1>. QED BY <1>3, <1>4, <1>5

(* Naming a path to exclude.                                               *)
LEMMA ExcludeStep ==
  ASSUME ExcludeInv, NEW p \in Tree \ named, named' = named \cup {p}, AddExclude(p)
  PROVE  ExcludeInv'
<1>. USE DEF ExcludeInv
<1>1. include' = include /\ p \notin include /\ p \notin exclude
  BY DEF AddExclude
<1>2. CASE \E inc \in include : HasPrefix(inc, p)
  <2>1. exclude' = exclude
    BY <1>2 DEF AddExclude
  <2>2. IncludedKept'
    BY <1>1, <2>1 DEF IncludedKept, Dropped
  <2>. QED BY <1>1, <1>2, <2>1, <2>2
<1>3. CASE ~ \E inc \in include : HasPrefix(inc, p)
  <2>1. exclude' = exclude \cup {p}
    BY <1>3 DEF AddExclude
  <2>2. IncludedKept'
    BY <1>1, <1>3, <2>1 DEF IncludedKept, Dropped, HasPrefix
  <2>. QED BY <1>1, <2>1, <2>2
<1>. QED BY <1>2, <1>3

(* Naming a path to include.                                               *)
LEMMA IncludeStep ==
  ASSUME ExcludeInv, NEW p \in Tree \ named, named' = named \cup {p}, AddInclude(p)
  PROVE  ExcludeInv'
<1>. USE DEF ExcludeInv
<1>. DEFINE start == IF p \in Dirs THEN p ELSE Front(p)
<1>1. /\ exclude' = {q \in exclude : ~IsPrefix(q, start)}
      /\ include' = include \cup {p}
      /\ p \notin exclude
  BY DEF AddInclude
<1>2. \A e \in exclude : IsPrefix(e, p) <=> IsPrefix(e, start)
  BY <1>1, PrefixUp
<1>. HIDE DEF start
<1>3. IncludedKept'
  BY <1>1, <1>2 DEF IncludedKept, Dropped
<1>4. ASSUME NEW q \in named' \ include',
             \A inc \in include' : ~HasPrefix(inc, q)
      PROVE  q \in exclude'
  <2>1. q \in exclude /\ ~HasPrefix(p, q)
    BY <1>1, <1>4
  <2>. QED BY <1>1, <1>2, <2>1 DEF HasPrefix
<1>. QED BY <1>1, <1>3, <1>4

(* The list is right from the beginning.                                   *)
LEMMA ExcludeInitially == ExcludeInit => ExcludeInv
BY DEF ExcludeInit, ExcludeInv, IncludedKept

LEMMA WalkStep == ExcludeInv /\ [Walk]_excludeVars => ExcludeInv'
<1>1. ASSUME ExcludeInv, Walk PROVE ExcludeInv'
  BY <1>1, ExcludeStep, IncludeStep DEF Walk, NamePath
<1>2. ASSUME ExcludeInv, UNCHANGED excludeVars PROVE ExcludeInv'
  BY <1>2 DEF ExcludeInv, excludeVars, IncludedKept, Dropped
<1>. QED BY <1>1, <1>2

(* An excluded path that nothing shields is dropped.                       *)
LEMMA ExcludeConsequence == ExcludeInv => IncludedKept /\ ExcludedDropped
<1>1. ASSUME ExcludeInv PROVE ExcludedDropped
  BY <1>1, PrefixUp DEF ExcludeInv, ExcludedDropped, Dropped
<1>. QED BY <1>1 DEF ExcludeInv

(* No included path is ever left out of the image, for any tree, any names *)
(* and any order in which the paths are named (exclude.go:30-63).          *)
THEOREM IncludedNeverDropped == ExcludeSpec => []IncludedKept
<1>1. ExcludeInv => IncludedKept
  BY ExcludeConsequence
<1>. QED BY <1>1, ExcludeInitially, WalkStep, PTL DEF ExcludeSpec

(* Every excluded path that no included one shields is left out.           *)
THEOREM ExcludedAlwaysDropped == ExcludeSpec => []ExcludedDropped
<1>1. ExcludeInv => ExcludedDropped
  BY ExcludeConsequence
<1>. QED BY <1>1, ExcludeInitially, WalkStep, PTL DEF ExcludeSpec
-----------------------------------------------------------------------------
(* Builders.                                                               *)

(* The steps of a builder, with what each does to the files: it writes a   *)
(* file of a free name, writes or removes one of its own, or ends.         *)
LEMMA BuildTypesStep ==
  ASSUME BuildTypes, NEW b \in Builders, Make(b)
  PROVE  BuildTypes'
<1>. USE DEF BuildTypes, BGoto
<1>0. ListNames \subseteq FileNames /\ ImageNames[b] \subseteq FileNames
  BY DEF FileNames
<1>1. CASE WriteExcludes(b)
  BY <1>0, <1>1 DEF WriteExcludes
<1>2. CASE CreateTemp(b)
  BY <1>0, <1>2 DEF CreateTemp, Users
<1>3. CASE RemoveTemp(b)
  BY <1>3 DEF RemoveTemp
<1>4. CASE Mkfs(b)
  BY <1>4 DEF Mkfs
<1>5. CASE AppendVerityData(b)
  BY <1>5 DEF AppendVerityData
<1>6. CASE Open(b)
  BY <1>6 DEF Open, Return
<1>7. CASE StepFails(b)
  BY <1>7 DEF StepFails, Return
<1>8. CASE Kill(b)
  BY <1>8 DEF Kill
<1>. QED BY <1>1, <1>2, <1>3, <1>4, <1>5, <1>6, <1>7, <1>8 DEF Make

(* The own variables of another builder stay, and so do its files: the     *)
(* list, and the image while its name is its own.                          *)
LEMMA OtherBuilder ==
  ASSUME BuildTypes, NamesInv, NEW b \in Builders, Make(b), NEW c \in Builders \ {b}
  PROVE  /\ bpc'[c] = bpc[c] /\ list'[c] = list[c] /\ img'[c] = img[c]
         /\ blob'[c] = blob[c] /\ root'[c] = root[c]
         /\ clash \subseteq clash'
         /\ list[c] # NoName => temp'[list[c]] = temp[list[c]]
         /\ c \notin clash' /\ bpc[c] \in Making => temp'[img[c]] = temp[img[c]]
         /\ c \notin clash' /\ bpc[c] \in Making /\ img'[b] = img[c] => bpc'[b] \notin Making
<1>. USE DEF BuildTypes, BGoto
<1>0. /\ list[c] # NoName => c = Walker /\ list[c] \in ListNames /\ list[b] = NoName
      /\ img[b] # NoName => img[b] \in ImageNames[b]
      /\ img[c] # NoName => img[c] \in ImageNames[c]
      /\ list[b] # NoName => list[b] \in ListNames
      /\ bpc[b] \in {"start", "createTemp"} => img[b] = NoName
      /\ bpc[c] \in Making => img[c] # NoName
      /\ c \notin clash /\ bpc[c] \in Making /\ img[b] = img[c] => bpc[b] \notin Making
      /\ \A d \in Builders : ListNames \cap ImageNames[d] = {}
      /\ NoName \notin FileNames /\ ListNames \subseteq FileNames
      /\ \A d \in Builders : ImageNames[d] \subseteq FileNames
  BY BuildAssumption DEF NamesInv, OwnName, FileNames
<1>1. CASE WriteExcludes(b)
  <2>1. /\ bpc'[b] = "createTemp" /\ UNCHANGED <<img, blob, root, clash>>
        /\ \A d \in Builders \ {b} : bpc'[d] = bpc[d] /\ list'[d] = list[d]
        /\ \A n \in FileNames : n \notin ListNames \/ b # Walker => temp'[n] = temp[n]
    BY <1>1 DEF WriteExcludes
  <2>. QED BY <1>0, <2>1 DEF Making
<1>2. CASE CreateTemp(b)
  <2>1. PICK n \in ImageNames[b] :
          /\ temp[n] = NoFile /\ temp' = [temp EXCEPT ![n] = TextFile({})]
          /\ img' = [img EXCEPT ![b] = n]
          /\ clash' = IF temp[n] = NoFile /\ Users(n) # {}
                      THEN clash \cup Users(n) \cup {b} ELSE clash
    BY <1>2 DEF CreateTemp, Free
  <2>2. UNCHANGED <<list, blob, root>> /\ bpc'[c] = bpc[c]
    BY <1>2 DEF CreateTemp
  <2>3. c \notin clash' /\ bpc[c] \in Making => img[c] # n
    BY <2>1 DEF Users
  <2>. QED BY <1>0, <2>1, <2>2, <2>3
<1>3. CASE RemoveTemp(b)
  BY <1>0, <1>3 DEF RemoveTemp, Making
<1>4. CASE Mkfs(b)
  <2>1. /\ \A n \in FileNames : n # img[b] => temp'[n] = temp[n]
        /\ bpc[b] = "mkfs" /\ UNCHANGED <<list, img, blob, root, clash>> /\ bpc'[c] = bpc[c]
    BY <1>4 DEF Mkfs
  <2>. QED BY <1>0, <2>1 DEF Making
<1>5. CASE AppendVerityData(b)
  <2>1. /\ \A n \in FileNames : n # img[b] => temp'[n] = temp[n]
        /\ bpc[b] = "appendVerity" /\ UNCHANGED <<list, img, blob, clash>> /\ bpc'[c] = bpc[c]
        /\ root'[c] = root[c]
    BY <1>5 DEF AppendVerityData
  <2>. QED BY <1>0, <2>1 DEF Making
<1>6. CASE Open(b) \/ StepFails(b)
  <2>1. /\ \A n \in FileNames : n \notin {list[b], img[b]} => temp'[n] = temp[n]
        /\ bpc[b] \in Making \/ img[b] = NoName
        /\ UNCHANGED <<list, img, clash>> /\ bpc'[b] \notin Making /\ bpc'[c] = bpc[c]
        /\ root'[c] = root[c] /\ blob'[c] = blob[c]
    BY <1>0, <1>6 DEF Open, StepFails, Return, Making
  <2>. QED BY <1>0, <2>1
<1>7. CASE Kill(b)
  BY <1>0, <1>7 DEF Kill, Making
<1>. QED BY <1>1, <1>2, <1>3, <1>4, <1>5, <1>6, <1>7 DEF Make

(* What the acting builder knows of its own names afterwards.              *)
OwnNames(b) ==
  /\ list[b] # NoName => b = Walker /\ list[b] \in ListNames
  /\ img[b] # NoName => img[b] \in ImageNames[b]
  /\ bpc[b] = "start" => list[b] = NoName
  /\ bpc[b] \in {"start", "createTemp"} => img[b] = NoName
  /\ bpc[b] \in Making => img[b] # NoName
  /\ b = Walker /\ bpc[b] \in {"createTemp", "remove", "mkfs"} =>
       list[b] # NoName /\ temp[list[b]] = TextFile(exclude)

LEMMA OwnNamesStep ==
  ASSUME BuildTypes, NEW b \in Builders, OwnNames(b), Make(b), UNCHANGED excludeVars
  PROVE  /\ OwnNames(b)'
         /\ bpc'[b] = "mkfs" => temp'[img'[b]] = NoFile
         /\ bpc'[b] \in Making => \/ bpc[b] \in Making /\ img'[b] = img[b]
                                  \/ CreateTemp(b)
<1>. USE DEF BuildTypes, BGoto, OwnNames, excludeVars, Making
<1>0. /\ NoName \notin FileNames /\ TextFile(exclude)' = TextFile(exclude)
      /\ ListNames \subseteq FileNames /\ ImageNames[b] \subseteq FileNames
      /\ ListNames \cap ImageNames[b] = {}
  BY BuildAssumption DEF TextFile, NoVerity, FileNames
<1>1. CASE WriteExcludes(b)
  <2>1. bpc[b] = "start" /\ bpc' = [bpc EXCEPT ![b] = "createTemp"] /\ img' = img
    BY <1>1 DEF WriteExcludes
  <2>2. CASE b = Walker
    <3>1. PICK n \in ListNames : /\ temp' = [temp EXCEPT ![n] = TextFile(exclude)]
                                 /\ list' = [list EXCEPT ![b] = n]
      BY <1>1, <2>2 DEF WriteExcludes
    <3>. QED BY <1>0, <2>1, <2>2, <3>1
  <2>3. CASE b # Walker
    BY <1>0, <1>1, <2>1, <2>3 DEF WriteExcludes
  <2>. QED BY <2>2, <2>3
<1>2. CASE CreateTemp(b)
  <2>1. /\ bpc[b] = "createTemp" /\ bpc' = [bpc EXCEPT ![b] = "remove"] /\ list' = list
        /\ img[b] = NoName
    BY <1>2 DEF CreateTemp
  <2>2. PICK n \in ImageNames[b] : /\ temp' = [temp EXCEPT ![n] = TextFile({})]
                                   /\ img' = [img EXCEPT ![b] = n]
    BY <1>2 DEF CreateTemp
  <2>. QED BY <1>0, <1>2, <2>1, <2>2
<1>3. CASE RemoveTemp(b)
  BY <1>0, <1>3 DEF RemoveTemp
<1>4. CASE Mkfs(b)
  <2>1. bpc[b] = "mkfs" /\ bpc'[b] \in {"appendVerity", "open"} /\ UNCHANGED <<list, img>>
    BY <1>4 DEF Mkfs
  <2>. QED BY <2>1
<1>5. CASE AppendVerityData(b)
  <2>1. bpc[b] = "appendVerity" /\ bpc'[b] = "open" /\ UNCHANGED <<list, img>>
    BY <1>5 DEF AppendVerityData
  <2>. QED BY <2>1
<1>6. CASE Open(b)
  BY <1>6 DEF Open, Return
<1>7. CASE StepFails(b)
  BY <1>7 DEF StepFails, Return
<1>8. CASE Kill(b)
  BY <1>8 DEF Kill
<1>. QED BY <1>1, <1>2, <1>3, <1>4, <1>5, <1>6, <1>7, <1>8 DEF Make

(* A name that was not drawn twice stays its builder's.                    *)
LEMMA NamesStep ==
  ASSUME BuildTypes, NamesInv, NEW b \in Builders, Make(b), UNCHANGED excludeVars
  PROVE  NamesInv'
<1>1. \A x \in Builders : OwnNames(x) /\ (x \notin clash => OwnName(x))
  BY DEF NamesInv, OwnNames
<1>2. /\ OwnNames(b)'
      /\ bpc'[b] = "mkfs" => temp'[img'[b]] = NoFile
      /\ bpc'[b] \in Making => \/ bpc[b] \in Making /\ img'[b] = img[b]
                               \/ CreateTemp(b)
  BY <1>1, OwnNamesStep
<1>3. \A c \in Builders \ {b} :
        /\ bpc'[c] = bpc[c] /\ list'[c] = list[c] /\ img'[c] = img[c] /\ clash \subseteq clash'
        /\ list[c] # NoName => temp'[list[c]] = temp[list[c]]
        /\ c \notin clash' /\ bpc[c] \in Making => temp'[img[c]] = temp[img[c]]
        /\ c \notin clash' /\ bpc[c] \in Making /\ img'[b] = img[c] => bpc'[b] \notin Making
  BY OtherBuilder
<1>4. ASSUME NEW c \in Builders \ {b} PROVE OwnNames(c)' /\ (c \notin clash' => OwnName(c)')
  <2>1. OwnNames(c) /\ TextFile(exclude)' = TextFile(exclude)
    BY <1>1 DEF TextFile, NoVerity, excludeVars
  <2>2. OwnNames(c)'
    <3>1. CASE c = Walker /\ bpc[c] \in {"createTemp", "remove", "mkfs"}
      <4>1. temp[list[c]] = TextFile(exclude) /\ list[c] # NoName
        BY <2>1, <3>1 DEF OwnNames
      <4>. QED BY <1>3, <2>1, <4>1 DEF OwnNames
    <3>2. CASE ~(c = Walker /\ bpc[c] \in {"createTemp", "remove", "mkfs"})
      BY <1>3, <2>1, <3>2 DEF OwnNames
    <3>. QED BY <3>1, <3>2
  <2>3. ASSUME c \notin clash' PROVE OwnName(c)'
    BY <1>1, <1>3, <2>3 DEF OwnName, Making
  <2>. QED BY <2>2, <2>3
<1>5. ASSUME b \notin clash' PROVE OwnName(b)'
  <2>1. CASE bpc'[b] \in Making /\ ~CreateTemp(b)
    <3>1. bpc[b] \in Making /\ img'[b] = img[b] /\ b \notin clash
      <4>1. clash \subseteq clash'
        BY DEF Make, WriteExcludes, CreateTemp, RemoveTemp, Mkfs, AppendVerityData, Open, StepFails, Kill
      <4>. QED BY <1>2, <1>5, <2>1, <4>1
    <3>. QED BY <1>1, <1>2, <1>3, <3>1 DEF OwnName
  <2>2. CASE CreateTemp(b)
    <3>1. PICK n \in ImageNames[b] :
            /\ temp[n] = NoFile /\ img'[b] = n
            /\ clash' = IF temp[n] = NoFile /\ Users(n) # {}
                        THEN clash \cup Users(n) \cup {b} ELSE clash
      BY <2>2 DEF CreateTemp, Free, BuildTypes
    <3>2. Users(n) = {}
      BY <1>5, <3>1
    <3>. QED BY <1>2, <1>3, <3>1, <3>2 DEF OwnName, Users
  <2>3. CASE bpc'[b] \notin Making
    BY <1>2, <2>3 DEF OwnName, Making
  <2>. QED BY <2>1, <2>2, <2>3
<1>. QED BY <1>2, <1>4, <1>5 DEF NamesInv, OwnNames

(* Files are removed by the call that made them.                           *)
LEMMA TempStep ==
  ASSUME BuildTypes, NamesInv, TempFilesRemoved, NEW b \in Builders, Make(b)
  PROVE  TempFilesRemoved'
<1>. USE DEF BuildTypes, BGoto
<1>. SUFFICES ASSUME NEW n \in FileNames, temp'[n] # NoFile
              PROVE  \E c \in Builders : bpc'[c] \notin Returned /\ n \in {list'[c], img'[c]}
  BY DEF TempFilesRemoved
<1>1. CASE temp[n] # NoFile
  <2>1. PICK c \in Builders : bpc[c] \notin Returned /\ n \in {list[c], img[c]}
    BY <1>1 DEF TempFilesRemoved
  <2>2. CASE c # b
    BY <2>1, <2>2, OtherBuilder
  <2>3. CASE c = b
    <3>1. CASE WriteExcludes(b)
      BY <2>1, <2>3, <3>1, BuildAssumption DEF WriteExcludes, NamesInv, Returned
    <3>2. CASE CreateTemp(b)
      BY <2>1, <2>3, <3>2, BuildAssumption DEF CreateTemp, NamesInv, Returned
    <3>3. CASE RemoveTemp(b) \/ Mkfs(b) \/ AppendVerityData(b)
      BY <2>1, <2>3, <3>3 DEF RemoveTemp, Mkfs, AppendVerityData, Returned
    <3>4. CASE Open(b) \/ StepFails(b)
      BY <2>1, <2>3, <3>4 DEF Open, StepFails, Return
    <3>5. CASE Kill(b)
      BY <2>1, <2>3, <3>5 DEF Kill, Returned
    <3>. QED BY <3>1, <3>2, <3>3, <3>4, <3>5 DEF Make
  <2>. QED BY <2>2, <2>3
<1>2. CASE temp[n] = NoFile
  <2>1. CASE WriteExcludes(b)
    BY <1>2, <2>1 DEF WriteExcludes, Returned
  <2>2. CASE CreateTemp(b)
    BY <1>2, <2>2 DEF CreateTemp, Returned
  <2>3. CASE Mkfs(b)
    BY <1>2, <2>3 DEF Mkfs, Returned
  <2>4. CASE AppendVerityData(b)
    BY <1>2, <2>4 DEF AppendVerityData, Returned
  <2>5. CASE RemoveTemp(b) \/ Open(b) \/ StepFails(b) \/ Kill(b)
    BY <1>2, <2>5 DEF RemoveTemp, Open, StepFails, Return, Kill
  <2>. QED BY <2>1, <2>2, <2>3, <2>4, <2>5 DEF Make
<1>. QED BY <1>1, <1>2
(* What a builder wants does not change while ExcludePaths does not.       *)
LEMMA WantedStays ==
  ASSUME UNCHANGED excludeVars, NEW b \in Builders
  PROVE  Plain(b)' = Plain(b) /\ Made(b)' = Made(b) /\ Hash(b)' = Hash(b)
<1>1. Plain(b)' = Plain(b)
  BY DEF Plain, Wanted, Unit, RoundUp, NoVerity, Dropped, excludeVars
<1>. QED BY <1>1 DEF Made, Hash, Signed, Contents

(* mkfs makes what is wanted: nothing is in its way, and the list is that  *)
(* of the ExcludePaths.                                                    *)
LEMMA MkfsMakes ==
  ASSUME BuildTypes, NamesInv, NEW b \in Builders \ clash, Mkfs(b)
  PROVE  temp'[img[b]] = Plain(b)
<1>1. /\ img[b] \in DOMAIN temp /\ temp[img[b]] = NoFile
      /\ b = Walker => temp[list[b]].paths = exclude
  <2>1. bpc[b] = "mkfs" /\ img[b] # NoName /\ img[b] \in FileNames /\ OwnName(b)
    BY DEF Mkfs, NamesInv, BuildTypes, Making
  <2>. QED BY <2>1 DEF NamesInv, OwnName, BuildTypes, TextFile
<1>2. (IF b = Walker THEN {p \in Tree : ~Dropped(temp[list[b]].paths, p)} ELSE Tree) = Wanted(b)
  BY <1>1 DEF Wanted
<1>. DEFINE old  == temp[img[b]]
            adds == Kind[b] = "squashfs" /\ old # NoFile /\ old.kind = "squashfs"
            kept == IF b = Walker THEN {p \in Tree : ~Dropped(temp[list[b]].paths, p)} ELSE Tree
            file == [kind |-> Kind[b],
                     from |-> {b} \cup IF adds THEN old.from ELSE {},
                     paths |-> kept \cup IF adds THEN old.paths ELSE {},
                     used |-> Used[b], block |-> Unit(b), size |-> RoundUp(Used[b], Unit(b)),
                     verity |-> NoVerity]
<1>3. temp'[img[b]] = file
  <2>1. temp' = [temp EXCEPT ![img[b]] = file]
    BY SMT DEF Mkfs, Unit
  <2>. HIDE DEF file
  <2>. QED BY <1>1, <2>1
<1>4. ~adds
  BY <1>1
<1>5. {b} \cup {} = {b} /\ Wanted(b) \cup {} = Wanted(b)
  OBVIOUS
<1>6. kept = Wanted(b)
  BY <1>2
<1>. HIDE DEF adds, kept, old
<1>. QED BY <1>3, <1>4, <1>5, <1>6 DEF Plain

(* What is made is what was wanted, at each step and in the end.           *)
LEMMA MadeStep ==
  ASSUME BuildTypes, NamesInv, MadeInv, NEW b \in Builders, Make(b), UNCHANGED excludeVars
  PROVE  MadeInv'
<1>. USE DEF BuildTypes, BGoto
<1>. DEFINE OwnMade(c) ==
       /\ bpc[c] \in {"start", "createTemp", "remove", "mkfs", "appendVerity"} => root[c] = NoRoot
       /\ bpc[c] = "appendVerity" => c \in WantVerity
       /\ c \notin clash =>
            /\ bpc[c] = "appendVerity" => temp[img[c]] = Plain(c)
            /\ bpc[c] = "open" => temp[img[c]] = Made(c) /\ root[c] = Hash(c)
            /\ bpc[c] = "ok" => blob[c] = Made(c) /\ root[c] = Hash(c)
<1>0. \A c \in Builders : /\ Plain(c)' = Plain(c) /\ Made(c)' = Made(c) /\ Hash(c)' = Hash(c)
                          /\ OwnMade(c)
                          /\ bpc[c] \in Making => img[c] \in FileNames
  BY WantedStays DEF MadeInv, NamesInv
<1>1. ASSUME NEW c \in Builders \ {b} PROVE OwnMade(c)'
  <2>1. /\ bpc'[c] = bpc[c] /\ img'[c] = img[c] /\ blob'[c] = blob[c] /\ root'[c] = root[c]
        /\ clash \subseteq clash'
        /\ c \notin clash' /\ bpc[c] \in Making => temp'[img[c]] = temp[img[c]]
    BY <1>1, OtherBuilder
  <2>. QED BY <1>0, <2>1 DEF Making
<1>2. OwnMade(b)'
  <2>1. CASE WriteExcludes(b)
    BY <1>0, <2>1 DEF WriteExcludes
  <2>2. CASE CreateTemp(b)
    BY <1>0, <2>2 DEF CreateTemp
  <2>3. CASE RemoveTemp(b)
    BY <1>0, <2>3 DEF RemoveTemp
  <2>4. CASE Mkfs(b)
    <3>1. /\ bpc[b] = "mkfs" /\ img' = img /\ blob' = blob /\ root' = root /\ clash' = clash
          /\ bpc'[b] = IF b \in WantVerity THEN "appendVerity" ELSE "open"
      BY <2>4 DEF Mkfs
    <3>2. b \notin clash => temp'[img[b]] = Plain(b)
      BY <2>4, MkfsMakes
    <3>. QED BY <1>0, <3>1, <3>2 DEF Made, Hash
  <2>5. CASE AppendVerityData(b)
    <3>1. /\ bpc[b] = "appendVerity" /\ b \in WantVerity /\ img[b] \in FileNames
          /\ b \notin clash => temp[img[b]] = Plain(b)
      BY <1>0, <2>5 DEF AppendVerityData, Making
    <3>2. /\ bpc'[b] = "open" /\ img' = img /\ clash' = clash
          /\ b \notin clash => root'[b] = Contents(Plain(b))
      BY <2>5, <3>1 DEF AppendVerityData
    <3>3. b \notin clash => temp'[img[b]] = Signed(b)
      BY <2>5, <3>1 DEF AppendVerityData, Signed
    <3>. QED BY <1>0, <3>1, <3>2, <3>3 DEF Made, Hash
  <2>6. CASE Open(b)
    BY <1>0, <2>6 DEF Open, Return
  <2>7. CASE StepFails(b)
    BY <1>0, <2>7 DEF StepFails, Return
  <2>8. CASE Kill(b)
    BY <1>0, <2>8 DEF Kill
  <2>. QED BY <2>1, <2>2, <2>3, <2>4, <2>5, <2>6, <2>7, <2>8 DEF Make
<1>. QED BY <1>1, <1>2 DEF MadeInv

(* The walk happens before its builder begins, and concerns no other.      *)
LEMMA WalkBuild ==
  ASSUME BuildInv, bpc[Walker] = "start", UNCHANGED buildVars
  PROVE  BuildInv'
<1>. USE DEF BuildInv, buildVars
<1>1. BuildTypes'
  BY DEF BuildTypes
<1>2. NamesInv'
  BY DEF NamesInv, OwnName
<1>3. MadeInv'
  <2>1. ASSUME NEW b \in Builders \ {Walker}
        PROVE  Plain(b)' = Plain(b) /\ Made(b)' = Made(b) /\ Hash(b)' = Hash(b)
    <3>1. Plain(b)' = Plain(b)
      BY DEF Plain, Wanted, Unit, RoundUp, NoVerity
    <3>. QED BY <3>1 DEF Made, Hash, Signed, Contents
  <2>2. root[Walker] = NoRoot
    BY BuildAssumption DEF MadeInv
  <2>. QED BY <2>1, <2>2 DEF MadeInv
<1>4. TempFilesRemoved'
  BY DEF TempFilesRemoved
<1>. QED BY <1>1, <1>2, <1>3, <1>4

LEMMA BuildInitially == BuildInit => BuildInv
BY BuildAssumption DEF BuildInit, BuildInv, BuildTypes, NamesInv, OwnName, Making, MadeInv, TempFilesRemoved

LEMMA BuildStep == BuildInv /\ [ImageNext]_imageVars => BuildInv'
<1>1. ASSUME BuildInv, NEW b \in Builders, Make(b), UNCHANGED excludeVars PROVE BuildInv'
  BY <1>1, BuildTypesStep, NamesStep, MadeStep, TempStep DEF BuildInv
<1>2. ASSUME BuildInv, UNCHANGED <<excludeVars, buildVars>> PROVE BuildInv'
  <2>1. \A b \in Builders : Plain(b)' = Plain(b) /\ Made(b)' = Made(b) /\ Hash(b)' = Hash(b)
    BY <1>2, WantedStays
  <2>2. TextFile(exclude)' = TextFile(exclude)
    BY <1>2 DEF TextFile, NoVerity, excludeVars
  <2>3. BuildTypes' /\ NamesInv' /\ TempFilesRemoved'
    BY <1>2, <2>2 DEF BuildInv, BuildTypes, NamesInv, OwnName, TempFilesRemoved, buildVars
  <2>4. MadeInv'
    BY <1>2, <2>1 DEF BuildInv, MadeInv, buildVars
  <2>. QED BY <2>3, <2>4 DEF BuildInv
<1>3. ASSUME UNCHANGED imageVars PROVE UNCHANGED <<excludeVars, buildVars>>
  BY <1>3 DEF imageVars, excludeVars, buildVars
<1>. QED BY <1>1, <1>2, <1>3, WalkBuild DEF ImageNext, BuildNext, OciNext
(* A returned blob is of its own tree.                                     *)
LEMMA OwnBlob == BuildInv => BlobIsOwn
<1>. SUFFICES ASSUME BuildInv, NEW b \in Builders \ clash, bpc[b] = "ok"
              PROVE  /\ blob[b].from = {b} /\ blob[b].kind = Kind[b]
                     /\ blob[b].paths = Wanted(b)
  BY DEF BlobIsOwn, Wanted
<1>1. blob[b] = Made(b)
  BY DEF BuildInv, MadeInv
<1>. QED BY <1>1 DEF Made, Signed, Plain

(* Where the code looks for verity data is where mkfs stops, and hash      *)
(* trees of pages of 4096 bytes cover all of it.                           *)
LEMMA Rounding ==
  ASSUME NEW u \in Nat \ {0}
  PROVE  /\ RoundUp(u, 4096) \in Nat /\ u <= RoundUp(u, 4096)
         /\ SquashLocation([size |-> u]) = RoundUp(u, 4096)
         /\ ErofsLocation([blocks |-> RoundUp(u, 4096) \div 4096, blockSize |-> 4096])
              = RoundUp(u, 4096)
         /\ 4096 * (RoundUp(u, 4096) \div 4096) = RoundUp(u, 4096)
<1>. DEFINE k == (u + 4096 - 1) \div 4096
<1>1. k \in Nat /\ 4096 * k >= u /\ 4096 * k < u + 4096
  OBVIOUS
<1>2. RoundUp(u, 4096) = 4096 * k
  BY DEF RoundUp
<1>. HIDE DEF k
<1>3. (4096 * k) \div 4096 = k
  BY <1>1
<1>4. (IF u % 4096 = 0 THEN u ELSE u + (4096 - (u % 4096))) = 4096 * k
  BY <1>1
<1>5. SquashLocation([size |-> u]) = 4096 * k
  BY <1>4 DEF SquashLocation
<1>6. ErofsLocation([blocks |-> k, blockSize |-> 4096]) = 4096 * k
  BY <1>1 DEF ErofsLocation
<1>. QED BY <1>1, <1>2, <1>3, <1>5, <1>6

(* The two ways a host mount succeeds.                                     *)
LEMMA HostMountCases ==
  ASSUME NEW f, NEW fs, NEW h, NEW n, NEW sb, sb # NoSuperblock,
         \/ fs = "squashfs" /\ SquashSuperblock(f) = sb /\ SquashLocation(sb) = n
         \/ fs = "erofs" /\ ErofsSuperblock(f) = sb /\ ErofsLocation(sb) = n
  PROVE  /\ n = f.size /\ h = NoRoot => HostMount(f, fs, h) = "loop"
         /\ /\ n # f.size /\ h # NoRoot /\ n = f.verity.at /\ h = f.verity.hash
            /\ f.used <= f.verity.covered
            => HostMount(f, fs, h) = "device"
<1>1. CASE fs = "squashfs" /\ SquashSuperblock(f) = sb /\ SquashLocation(sb) = n
  BY <1>1, Zenon DEF HostMount
<1>2. CASE fs = "erofs" /\ ErofsSuperblock(f) = sb /\ ErofsLocation(sb) = n
  <2>1. fs # "squashfs"
    BY <1>2
  <2>. QED BY <1>2, <2>1, Zenon DEF HostMount
<1>. QED BY <1>1, <1>2

(* What VerityHostMount concludes from a blob that Make has made.          *)
LEMMA MadeMounts ==
  ASSUME PageSize = 4096, NEW b \in Builders, NoRoot # Contents(Plain(b)),
         \A x : NoSuperblock # [size |-> x], \A x, y : NoSuperblock # [blocks |-> x, blockSize |-> y]
  PROVE  HostMount(Made(b), Kind[b], Hash(b)) = IF b \in WantVerity THEN "device" ELSE "loop"
<1>. DEFINE n == RoundUp(Used[b], 4096)
<1>1. /\ n \in Nat /\ Used[b] <= n /\ 4096 * (n \div 4096) = n
      /\ SquashLocation([size |-> Used[b]]) = n
      /\ ErofsLocation([blocks |-> n \div 4096, blockSize |-> 4096]) = n
  BY Rounding, BuildAssumption
<1>. HIDE DEF n
<1>2. Kind[b] \in {"squashfs", "erofs"} /\ Unit(b) = 4096
  BY BuildAssumption DEF Unit
<1>3. /\ Made(b).kind = Kind[b] /\ Made(b).used = Used[b] /\ Made(b).block = 4096
      /\ Made(b).size = IF b \in WantVerity THEN n + 8192 ELSE n
      /\ b \in WantVerity => Made(b).verity = [at |-> n, hash |-> Contents(Plain(b)), covered |-> n]
  BY <1>1, <1>2 DEF Made, Signed, Plain, n
<1>0. IF b \in WantVerity
      THEN /\ n # Made(b).size /\ Hash(b) # NoRoot
           /\ n = Made(b).verity.at /\ Hash(b) = Made(b).verity.hash
           /\ Made(b).used <= Made(b).verity.covered
      ELSE n = Made(b).size /\ Hash(b) = NoRoot
  BY <1>1, <1>3 DEF Hash
<1>. DEFINE Goal == HostMount(Made(b), Kind[b], Hash(b)) = IF b \in WantVerity THEN "device" ELSE "loop"
<1>6. ASSUME NEW sb, sb # NoSuperblock,
             \/ Kind[b] = "squashfs" /\ SquashSuperblock(Made(b)) = sb /\ SquashLocation(sb) = n
             \/ Kind[b] = "erofs" /\ ErofsSuperblock(Made(b)) = sb /\ ErofsLocation(sb) = n
      PROVE  Goal
  <2>1. /\ n = Made(b).size /\ Hash(b) = NoRoot => HostMount(Made(b), Kind[b], Hash(b)) = "loop"
        /\ /\ n # Made(b).size /\ Hash(b) # NoRoot /\ n = Made(b).verity.at
           /\ Hash(b) = Made(b).verity.hash /\ Made(b).used <= Made(b).verity.covered
           => HostMount(Made(b), Kind[b], Hash(b)) = "device"
    BY <1>6, HostMountCases, Zenon
  <2>. QED BY <1>0, <2>1, Zenon
<1>. HIDE DEF Goal
<1>4. CASE Kind[b] = "squashfs"
  <2>1. SquashSuperblock(Made(b)) = [size |-> Used[b]]
    BY <1>3, <1>4 DEF SquashSuperblock
  <2>2. NoSuperblock # [size |-> Used[b]]
    OBVIOUS
  <2>3. SquashLocation([size |-> Used[b]]) = n
    BY <1>1
  <2>. QED BY <1>4, <1>6, <2>1, <2>2, <2>3 DEF Goal
<1>5. CASE Kind[b] = "erofs"
  <2>1. ErofsSuperblock(Made(b)) = [blocks |-> n \div 4096, blockSize |-> 4096]
    <3>1. 4096 % 4096 = 0
      OBVIOUS
    <3>. QED BY <1>3, <1>5, <3>1 DEF ErofsSuperblock, n
  <2>2. NoSuperblock # [blocks |-> n \div 4096, blockSize |-> 4096]
    OBVIOUS
  <2>3. ErofsLocation([blocks |-> n \div 4096, blockSize |-> 4096]) = n
    BY <1>1
  <2>. QED BY <1>5, <1>6, <2>1, <2>2, <2>3 DEF Goal
<1>. QED BY <1>2, <1>4, <1>5

-----------------------------------------------------------------------------
(* Publishing.                                                             *)

(* A manifest, with some set its layers are taken from.                    *)
Manifest(m) ==
  /\ m = [layers |-> m.layers, config |-> m.config]
  /\ \E S : m.layers \in Seq(S)

TagInv ==
  /\ PublishInv
  /\ tag # NoManifest => Manifest(tag)
  /\ \A u \in Publishers : Manifest(man[u])

LEMMA TagInitially == OciInit => TagInv
<1>. SUFFICES ASSUME OciInit PROVE TagInv
  OBVIOUS
<1>1. << >> \in Seq({})
  OBVIOUS
<1>2. Manifest(EmptyManifest)
  BY <1>1 DEF Manifest, EmptyManifest
<1>3. PublishInv
  BY DEF OciInit, PublishInv
<1>. QED BY <1>2, <1>3 DEF OciInit, TagInv

(* What is in the layout stays in it.                                      *)
LEMMA LayersStay ==
  ASSUME NEW m, LayersIn(m), blobs \subseteq blobs'
  PROVE  \A i \in DOMAIN m.layers : m.layers[i].digest \in blobs'
BY DEF LayersIn

(* Layers added to layers that are there.                                  *)
LEMMA MoreLayers ==
  ASSUME NEW S, NEW T, NEW s \in Seq(S), NEW t \in Seq(T)
  PROVE  /\ s \o t \in Seq(S \cup T)
         /\ \A i \in DOMAIN (s \o t) : \/ \E j \in DOMAIN s : (s \o t)[i] = s[j]
                                       \/ \E j \in DOMAIN t : (s \o t)[i] = t[j]
<1>1. s \in Seq(S \cup T) /\ t \in Seq(S \cup T)
  OBVIOUS
<1>2. /\ DOMAIN s = 1 .. Len(s) /\ DOMAIN t = 1 .. Len(t) /\ DOMAIN (s \o t) = 1 .. Len(s) + Len(t)
      /\ Len(s) \in Nat /\ Len(t) \in Nat
      /\ s \o t \in Seq(S \cup T)
      /\ \A i \in 1 .. Len(s) + Len(t) :
           (s \o t)[i] = IF i <= Len(s) THEN s[i] ELSE t[i - Len(s)]
  BY <1>1
<1>3. ASSUME NEW i \in 1 .. Len(s) + Len(t)
      PROVE  \/ \E j \in DOMAIN s : (s \o t)[i] = s[j]
             \/ \E j \in DOMAIN t : (s \o t)[i] = t[j]
  <2>1. CASE i <= Len(s)
    BY <1>2, <2>1
  <2>2. CASE ~(i <= Len(s))
    <3>1. i - Len(s) \in DOMAIN t
      BY <1>2, <2>2
    <3>. QED BY <1>2, <2>2, <3>1
  <2>. QED BY <2>1, <2>2
<1>. QED BY <1>2, <1>3

(* What PutLayers makes of u's manifest.                                   *)
LEMMA ManifestAfterPut ==
  ASSUME TagInv, NEW u \in Publishers, PutLayers(u)
  PROVE  /\ man'[u] = [layers |-> man'[u].layers, config |-> man[u].config]
         /\ \E S : man'[u].layers \in Seq(S)
         /\ \A i \in DOMAIN man'[u].layers :
              \/ \E j \in DOMAIN man[u].layers : man'[u].layers[i] = man[u].layers[j]
              \/ \E j \in DOMAIN AddLayers[u] : man'[u].layers[i] = Descriptor(AddLayers[u][j])
         /\ DOMAIN man' = Publishers /\ \A v \in Publishers \ {u} : man'[v] = man[v]
<1>. DEFINE new == AddLayers[u]
            more == [i \in DOMAIN new |-> Descriptor(new[i])]
            all == man[u].layers \o more
            T == {Descriptor(new[i]) : i \in DOMAIN new}
<1>1. man' = [man EXCEPT ![u].layers = all]
  BY DEF PutLayers
<1>2. PICK S : man[u].layers \in Seq(S)
  BY DEF TagInv, Manifest
<1>3. more \in Seq(T) /\ \A j \in DOMAIN more : j \in DOMAIN new /\ more[j] = Descriptor(new[j])
  <2>1. new \in Seq(Builders)
    BY OciAssumption
  <2>. QED BY <2>1
<1>. HIDE DEF T, more
<1>4. /\ all \in Seq(S \cup T)
      /\ \A i \in DOMAIN all : \/ \E j \in DOMAIN man[u].layers : all[i] = man[u].layers[j]
                               \/ \E j \in DOMAIN more : all[i] = more[j]
  BY <1>2, <1>3, MoreLayers
<1>5. man'[u] = [layers |-> all, config |-> man[u].config]
  <2>1. u \in DOMAIN man /\ man[u] = [layers |-> man[u].layers, config |-> man[u].config]
    BY DEF TagInv, PublishInv, Manifest
  <2>2. man'[u] = [man[u] EXCEPT !.layers = all]
    BY <1>1, <2>1
  <2>. HIDE DEF all
  <2>3. [man[u] EXCEPT !.layers = all] = [layers |-> all, config |-> man[u].config]
    BY <2>1
  <2>. QED BY <2>2, <2>3
<1>6. \A i \in DOMAIN all : \/ \E j \in DOMAIN man[u].layers : all[i] = man[u].layers[j]
                            \/ \E j \in DOMAIN new : all[i] = Descriptor(new[j])
  BY <1>3, <1>4
<1>7. DOMAIN man' = Publishers /\ \A v \in Publishers \ {u} : man'[v] = man[v]
  BY <1>1 DEF TagInv, PublishInv
<1>. HIDE DEF all
<1>8. \E V : all \in Seq(V)
  BY <1>4
<1>9. man'[u].layers = all
  BY <1>5
<1>. QED BY <1>5, <1>6, <1>7, <1>8, <1>9

LEMMA PutLayersStep ==
  ASSUME TagInv, NEW u \in Publishers, PutLayers(u)
  PROVE  TagInv'
<1>. DEFINE new == AddLayers[u]
            all == man'[u].layers
<1>1. /\ ppc[u] = "layers" /\ ppc' = [ppc EXCEPT ![u] = "putConfig"] /\ tag' = tag
      /\ blobs' = blobs \cup {blob[new[i]] : i \in DOMAIN new}
  BY DEF PutLayers, PGoto
<1>2. Manifest(man'[u])
  BY ManifestAfterPut DEF Manifest
<1>3. \A i \in DOMAIN all : \/ \E j \in DOMAIN man[u].layers : all[i] = man[u].layers[j]
                            \/ \E j \in DOMAIN new : all[i] = Descriptor(new[j])
  BY ManifestAfterPut
<1>8. \A i \in DOMAIN all : all[i].digest \in blobs'
  <2>1. \A j \in DOMAIN new : Descriptor(new[j]).digest \in blobs'
    BY <1>1 DEF Descriptor
  <2>2. \A j \in DOMAIN man[u].layers : man[u].layers[j].digest \in blobs'
    BY <1>1 DEF TagInv, PublishInv, LayersIn
  <2>. QED BY <1>3, <2>1, <2>2
<1>9. \A v \in Publishers \ {u} : man'[v] = man[v] /\ ppc'[v] = ppc[v]
  BY <1>1, ManifestAfterPut DEF TagInv, PublishInv
<1>10. DOMAIN man' = Publishers /\ ppc'[u] = "putConfig" /\ blobs \subseteq blobs'
  BY <1>1, ManifestAfterPut DEF TagInv, PublishInv
<1>11. PublishInv'
  BY <1>1, <1>8, <1>9, <1>10 DEF TagInv, PublishInv, LayersIn
<1>. QED BY <1>1, <1>2, <1>9, <1>11 DEF TagInv

(* The other steps of a publisher.                                         *)
LEMMA PublishStep ==
  ASSUME TagInv, NEW u \in Publishers, Publish(u)
  PROVE  TagInv'
<1>. USE DEF TagInv, PublishInv, PGoto, LayersIn
<1>1. CASE LookupManifest(u)
  <2>1. << >> \in Seq({})
    OBVIOUS
  <2>2. Manifest(EmptyManifest) /\ DOMAIN EmptyManifest.layers = {}
    BY <2>1 DEF Manifest, EmptyManifest
  <2>3. /\ man' = [man EXCEPT ![u] = IF tag = NoManifest THEN EmptyManifest ELSE tag]
        /\ tag' = tag /\ blobs' = blobs
        /\ ppc' = [ppc EXCEPT ![u] = "layers"] \/ ppc' = [ppc EXCEPT ![u] = "err"]
    BY <1>1 DEF LookupManifest
  <2>4. \A v \in Publishers : Manifest(man'[v]) /\ v # u => man'[v] = man[v] /\ ppc'[v] = ppc[v]
    BY <2>2, <2>3
  <2>5. ppc'[u] \in {"layers", "err"} /\ \A i \in DOMAIN man'[u].layers : man'[u].layers[i].digest \in blobs
    BY <2>2, <2>3
  <2>6. \A v \in Publishers : Manifest(man'[v])
    BY <2>2, <2>3
  <2>7. DOMAIN man' = Publishers
    BY <2>3
  <2>8. PublishInv'
    BY <2>3, <2>4, <2>5, <2>6, <2>7
  <2>. QED BY <2>3, <2>6, <2>8
<1>2. CASE PutLayers(u)
  BY <1>2, PutLayersStep
<1>3. CASE PutConfig(u)
  <2>1. /\ ppc[u] = "putConfig" /\ ppc' = [ppc EXCEPT ![u] = "putManifest"] /\ tag' = tag
        /\ blobs' = blobs \cup {u} /\ man' = [man EXCEPT ![u].config = u]
    BY <1>3 DEF PutConfig
  <2>2. man'[u] = [layers |-> man[u].layers, config |-> u]
    BY <2>1 DEF Manifest
  <2>3. Manifest(man'[u]) /\ \A v \in Publishers \ {u} : man'[v] = man[v] /\ ppc'[v] = ppc[v]
    BY <2>1, <2>2 DEF Manifest
  <2>4. DOMAIN man' = Publishers /\ ppc'[u] = "putManifest"
    BY <2>1
  <2>6. \A v \in Publishers : ppc'[v] \notin {"start", "err"} =>
          \A i \in DOMAIN man'[v].layers : man'[v].layers[i].digest \in blobs'
    <3>1. man'[u].layers = man[u].layers /\ ppc[u] \notin {"start", "err"} /\ blobs \subseteq blobs'
      BY <2>1, <2>2
    <3>. QED BY <2>3, <3>1
  <2>7. \A v \in Publishers : ppc'[v] \in {"putManifest", "updateReference"} => man'[v].config \in blobs'
    BY <2>1, <2>2, <2>3
  <2>5. PublishInv'
    BY <2>1, <2>3, <2>4, <2>6, <2>7
  <2>. QED BY <2>1, <2>3, <2>5
<1>4. CASE PutManifest(u)
  BY <1>4 DEF PutManifest
<1>5. CASE UpdateReference(u)
  BY <1>5 DEF UpdateReference
<1>6. CASE PublishFails(u)
  BY <1>6 DEF PublishFails
<1>. QED BY <1>1, <1>2, <1>3, <1>4, <1>5, <1>6 DEF Publish

LEMMA TagStep == TagInv /\ [ImageNext]_imageVars => TagInv'
<1>1. ASSUME TagInv, UNCHANGED <<blobs, tag, ppc, man>> PROVE TagInv'
  BY <1>1 DEF TagInv, PublishInv, LayersIn
<1>2. ASSUME UNCHANGED imageVars PROVE UNCHANGED <<blobs, tag, ppc, man>>
  BY <1>2 DEF imageVars
<1>3. ASSUME NEW r \in Readers, Read(r) PROVE UNCHANGED <<blobs, tag, ppc, man>>
  BY <1>3 DEF Read, ResolveReference, FromDescriptor
<1>. QED BY <1>1, <1>2, <1>3, PublishStep DEF ImageNext, OciNext, ociVars

-----------------------------------------------------------------------------
(* Reading.  The loop that turns the layers around.                        *)

(* A set of numbers, not empty, has a least element.                       *)
LEMMA LeastElement ==
  ASSUME NEW T, T \subseteq Nat, T # {}
  PROVE  \E x \in T : \A y \in T : x <= y
<1>. DEFINE R == OpToRel(<, Nat)
<1>1. IsWellFoundedOn(R, Nat)
  BY NatLessThanWellFounded
<1>2. \A y, x \in Nat : <<y, x>> \in R <=> y < x
  BY DEF OpToRel
<1>. HIDE DEF R
<1>3. PICK x \in T : \A y \in T : ~ (<<y, x>> \in R)
  BY <1>1, WFMin
<1>4. \A y \in T : ~ (y < x) /\ y \in Nat /\ x \in Nat
  BY <1>2, <1>3
<1>5. \A y \in T : x <= y
  BY <1>4
<1>. QED BY <1>3, <1>5

(* Counting down from h to 0 one reaches every number between.             *)
LEMMA Downwards ==
  ASSUME NEW h \in Nat, NEW S, h \in S, \A k \in 0 .. h - 1 : k + 1 \in S => k \in S
  PROVE  0 .. h \subseteq S
<1>. DEFINE T == {m \in Nat : m <= h /\ h - m \notin S}
<1>1. SUFFICES ASSUME NEW k \in 0 .. h, k \notin S PROVE FALSE
  OBVIOUS
<1>0. h - k \in T
  <2>1. h - k \in Nat /\ h - k <= h /\ h - (h - k) = k
    OBVIOUS
  <2>. QED BY <1>1, <2>1
<1>2. PICK x \in T : \A y \in T : x <= y
  BY <1>0, LeastElement
<1>3. x \in Nat /\ x <= h /\ h - x \notin S
  BY <1>2
<1>4. x # 0
  BY <1>3
<1>5. x - 1 \in Nat /\ x - 1 <= h /\ x - 1 \notin T
  <2>1. x - 1 \in Nat /\ x - 1 <= h /\ ~ (x <= x - 1)
    BY <1>3, <1>4
  <2>. QED BY <1>2, <2>1
<1>6. h - (x - 1) \in S
  BY <1>5
<1>7. h - x \in 0 .. h - 1 /\ (h - x) + 1 = h - (x - 1)
  BY <1>3, <1>4
<1>. QED BY <1>3, <1>6, <1>7

(* One turn of the loop: with the pairs beyond k + 1 exchanged it          *)
(* exchanges the next.                                                     *)
Swap(t, n, k) == [t EXCEPT ![k + 1] = t[n - k], ![n - k] = t[k + 1]]

Swapped(s, n, k) ==
  LET h == n \div 2
  IN [i \in 1 .. n |->
        IF (k < i /\ i <= h) \/ (n - h < i /\ i <= n - k) THEN s[n + 1 - i] ELSE s[i]]

LEMMA SwapNext ==
  ASSUME NEW s, NEW n \in Nat, NEW k \in 0 .. n \div 2 - 1
  PROVE  Swap(Swapped(s, n, k + 1), n, k) = Swapped(s, n, k)
<1>. DEFINE h == n \div 2
            t == Swapped(s, n, k + 1)
            u == Swapped(s, n, k)
<1>1. h \in Nat /\ n - 2 * h \in {0, 1} /\ k \in 0 .. h - 1
  OBVIOUS
<1>2. /\ \A i \in 1 .. n : t[i] = IF (k + 1 < i /\ i <= h) \/ (n - h < i /\ i <= n - (k + 1)) THEN s[n + 1 - i] ELSE s[i]
      /\ \A i \in 1 .. n : u[i] = IF (k < i /\ i <= h) \/ (n - h < i /\ i <= n - k) THEN s[n + 1 - i] ELSE s[i]
      /\ t = [i \in 1 .. n |-> t[i]] /\ u = [i \in 1 .. n |-> u[i]]
  BY DEF Swapped
<1>. HIDE DEF h, t, u
<1>3. /\ k + 1 \in 1 .. n /\ n - k \in 1 .. n /\ k + 1 # n - k /\ k < h /\ h <= n - h
      /\ n + 1 - (k + 1) = n - k /\ n + 1 - (n - k) = k + 1
  BY <1>1
<1>4. /\ ~ (k + 1 < n - k /\ n - k <= h) /\ ~ (n - k <= n - (k + 1))
      /\ ~ (k + 1 < k + 1) /\ ~ (n - h < k + 1)
      /\ k < k + 1 /\ k + 1 <= h /\ n - h < n - k /\ n - k <= n - k
  BY <1>1
<1>5. t[n - k] = s[n - k] /\ t[k + 1] = s[k + 1]
  BY <1>2, <1>3, <1>4
<1>6. u[k + 1] = s[n - k] /\ u[n - k] = s[k + 1]
  BY <1>2, <1>3, <1>4
<1>7. ASSUME NEW i \in 1 .. n, i # k + 1, i # n - k PROVE t[i] = u[i]
  <2>1. /\ k < i <=> k + 1 < i
        /\ i <= n - k <=> i <= n - (k + 1)
    BY <1>1, <1>7
  <2>. QED BY <1>2, <2>1
<1>8. Swap(t, n, k) = [i \in 1 .. n |-> IF i = n - k THEN t[k + 1] ELSE IF i = k + 1 THEN t[n - k] ELSE t[i]]
  BY <1>2, <1>3 DEF Swap
<1>9. \A i \in 1 .. n : u[i] = IF i = n - k THEN t[k + 1] ELSE IF i = k + 1 THEN t[n - k] ELSE t[i]
  BY <1>3, <1>5, <1>6, <1>7
<1>10. Swap(t, n, k) = u
  BY <1>2, <1>8, <1>9
<1>. QED BY <1>10 DEF t, u

(* The loop swaps the layers around: the first becomes the last.           *)
LEMMA ReversedReverses ==
  ASSUME NEW S, NEW s \in Seq(S)
  PROVE  Reversed(s) = Reverse(s)
<1>. DEFINE n == Len(s)
            h == n \div 2
            body(f) == [k \in 0 .. h |-> IF k = h THEN s ELSE Swap(f[k + 1], n, k)]
            sw == CHOOSE f : f = body(f)
<1>1. n \in Nat /\ s = [i \in 1 .. n |-> s[i]]
  BY LenProperties
<1>2. Reversed(s) = sw[0]
  BY Zenon DEF Reversed, Swap
<1>. HIDE DEF n
<1>3. h \in Nat /\ n - 2 * h \in {0, 1}
  BY <1>1
<1>4. Swapped(s, n, h) = s
  <2>1. \A i \in 1 .. n : ~ (h < i /\ i <= h) /\ ~ (n - h < i /\ i <= n - h)
    BY <1>1, <1>3
  <2>. QED BY <1>1, <2>1 DEF Swapped
<1>5. Swapped(s, n, 0) = Reverse(s)
  <2>1. ASSUME NEW i \in 1 .. n, ~ (0 < i /\ i <= h), ~ (n - h < i /\ i <= n - 0)
        PROVE  i = n + 1 - i
    <3>. HIDE DEF h
    <3>1. i > h /\ i <= n - h
      BY <1>1, <1>3, <2>1
    <3>2. i = h + 1 /\ n = 2 * h + 1
      BY <1>1, <1>3, <3>1
    <3>. QED BY <1>3, <3>2
  <2>0. \A i \in 1 .. n : n + 1 - i = n - i + 1
    BY <1>1
  <2>2. \A i \in 1 .. n : Swapped(s, n, 0)[i] = s[n - i + 1]
    BY <2>0, <2>1 DEF Swapped
  <2>3. Swapped(s, n, 0) = [i \in 1 .. n |-> Swapped(s, n, 0)[i]]
    BY DEF Swapped
  <2>. QED BY <2>2, <2>3 DEF Reverse, n
<1>6. \A k \in 0 .. h - 1 : Swap(Swapped(s, n, k + 1), n, k) = Swapped(s, n, k)
  BY <1>1, SwapNext
<1>. HIDE DEF h
<1>7. LET f == [k \in 0 .. h |-> Swapped(s, n, k)] IN f = body(f)
  <2>1. \A k \in 0 .. h : k # h => k \in 0 .. h - 1 /\ k + 1 \in 0 .. h
    BY <1>3
  <2>. QED BY <1>4, <1>6, <2>1
<1>8. sw = body(sw)
  <2>. HIDE DEF body
  <2>. QED BY <1>7
<1>9. \A k \in 0 .. h : sw[k] = IF k = h THEN s ELSE Swap(sw[k + 1], n, k)
  <2>. HIDE DEF sw
  <2>. QED BY <1>8
<1>. HIDE DEF sw, body
<1>10. \A k \in 0 .. h : sw[k] = Swapped(s, n, k)
  <2>. DEFINE T == {k \in 0 .. h : sw[k] = Swapped(s, n, k)}
  <2>1. h \in T
    BY <1>3, <1>4, <1>9
  <2>2. ASSUME NEW k \in 0 .. h - 1, k + 1 \in T PROVE k \in T
    <3>1. k \in 0 .. h /\ k # h
      BY <1>3
    <3>. QED BY <1>6, <1>9, <2>2, <3>1
  <2>. HIDE DEF T
  <2>3. 0 .. h \subseteq T
    BY <1>3, <2>1, <2>2, Downwards
  <2>. QED BY <2>3 DEF T
<1>11. 0 \in 0 .. h
  BY <1>3
<1>. QED BY <1>2, <1>5, <1>10, <1>11

(* A layer that root of the host can mount, or one of a call whose name    *)
(* was drawn twice, and a manifest of such layers.                         *)
Mountable(d) ==
  \/ HostMount(d.digest, d.kind, d.root) \in {"device", "loop"}
  \/ \E b \in clash : bpc[b] = "ok" /\ d = Descriptor(b)
AllMountable(m) == \A i \in DOMAIN m.layers : Mountable(m.layers[i])

(* Whatever goes from the publishers through the tag to a reader is made   *)
(* of mountable layers, and what a reader has built is what it has seen,   *)
(* turned around.                                                          *)
ReadInv ==
  /\ tag # NoManifest => AllMountable(tag)
  /\ \A u \in Publishers : AllMountable(man[u])
  /\ DOMAIN seen = Readers /\ DOMAIN rpc = Readers /\ DOMAIN atoms = Readers
  /\ \A r \in Readers :
       /\ rpc[r] \in {"read", "built"} =>
            seen[r] # NoManifest /\ Manifest(seen[r]) /\ AllMountable(seen[r])
       /\ rpc[r] = "built" => atoms[r] = Reverse(seen[r].layers)

(* Which of the blobs the publishers add are mountable: the returned ones. *)
LEMMA BlobsMount ==
  ASSUME BuildInv, PageSize = 4096,
         \A k, f, p : NoRoot # [kind |-> k, from |-> f, paths |-> p],
         \A x : NoSuperblock # [size |-> x], \A x, y : NoSuperblock # [blocks |-> x, blockSize |-> y]
  PROVE  ReturnedBlobMounts
<1>. SUFFICES ASSUME NEW b \in Builders \ clash, bpc[b] = "ok"
              PROVE  HostMount(blob[b], Kind[b], root[b]) = IF b \in WantVerity THEN "device" ELSE "loop"
  BY DEF ReturnedBlobMounts
<1>1. blob[b] = Made(b) /\ root[b] = Hash(b)
  BY DEF BuildInv, MadeInv
<1>2. NoRoot # Contents(Plain(b))
  BY DEF Contents
<1>. QED BY <1>1, <1>2, MadeMounts

(* What is mountable stays so: a call that has returned takes no more      *)
(* steps.                                                                  *)
LEMMA MountableStays ==
  ASSUME BuildInv, [ImageNext]_imageVars, NEW d, Mountable(d)
  PROVE  Mountable(d)'
<1>1. CASE HostMount(d.digest, d.kind, d.root) \in {"device", "loop"}
  BY <1>1 DEF Mountable
<1>2. ASSUME NEW c \in clash, bpc[c] = "ok", d = Descriptor(c)
      PROVE  c \in clash' /\ bpc'[c] = "ok" /\ d = Descriptor(c)'
  <2>0. c \in Builders
    BY <1>2 DEF BuildInv, BuildTypes
  <2>1. CASE UNCHANGED buildVars
    BY <1>2, <2>1 DEF buildVars, Descriptor
  <2>2. ASSUME NEW b \in Builders, Make(b)
        PROVE  clash \subseteq clash' /\ bpc'[c] = bpc[c] /\ blob'[c] = blob[c] /\ root'[c] = root[c]
    <3>1. CASE b = c
      BY <1>2, <2>2, <3>1 DEF Make, WriteExcludes, CreateTemp, RemoveTemp, Mkfs,
           AppendVerityData, Open, StepFails, Kill, Returned
    <3>2. CASE b # c
      BY <2>0, <2>2, <3>2, OtherBuilder DEF BuildInv
    <3>. QED BY <3>1, <3>2
  <2>3. ASSUME UNCHANGED imageVars PROVE UNCHANGED buildVars
    BY <2>3 DEF imageVars, buildVars
  <2>4. UNCHANGED buildVars \/ \E b \in Builders : Make(b)
    BY <2>3 DEF ImageNext, BuildNext, OciNext
  <2>. QED BY <1>2, <2>1, <2>2, <2>4 DEF Descriptor
<1>. QED BY <1>1, <1>2 DEF Mountable

LEMMA ReadInitially == OciInit => ReadInv
<1>. SUFFICES ASSUME OciInit PROVE ReadInv
  OBVIOUS
<1>1. AllMountable(EmptyManifest)
  BY DEF AllMountable, EmptyManifest
<1>. QED BY <1>1 DEF OciInit, ReadInv

(* The layers a publisher adds were returned, and the others were there.   *)
LEMMA PublishReadStep ==
  ASSUME ReadInv, TagInv, ReturnedBlobMounts, NEW u \in Publishers, Publish(u),
         \A d : Mountable(d) => Mountable(d)'
  PROVE  ReadInv'
<1>1. UNCHANGED <<rpc, seen, atoms>>
  BY DEF Publish, LookupManifest, PutLayers, PutConfig, PutManifest, UpdateReference, PublishFails
<1>2. (tag' = tag \/ tag' = man[u]) /\ (tag' # NoManifest => AllMountable(tag'))
  BY DEF ReadInv, Publish, LookupManifest, PutLayers, PutConfig, PutManifest, UpdateReference, PublishFails
<1>3. ASSUME NEW v \in Publishers PROVE AllMountable(man'[v])
  <2>1. CASE man' = man
    BY <2>1 DEF ReadInv
  <2>2. CASE LookupManifest(u)
    <3>1. AllMountable(EmptyManifest)
      BY DEF AllMountable, EmptyManifest
    <3>2. man' = [man EXCEPT ![u] = IF tag = NoManifest THEN EmptyManifest ELSE tag]
      BY <2>2 DEF LookupManifest
    <3>3. /\ v # u => man'[v] = man[v]
          /\ v = u => man'[v] = IF tag = NoManifest THEN EmptyManifest ELSE tag
      BY <3>2 DEF TagInv, PublishInv
    <3>. QED BY <3>1, <3>3 DEF ReadInv
  <2>3. CASE PutLayers(u)
    <3>1. CASE v # u
      BY <2>3, <3>1, ManifestAfterPut DEF ReadInv
    <3>2. CASE v = u
      <4>1. \A j \in DOMAIN AddLayers[u] : Mountable(Descriptor(AddLayers[u][j]))
        <5>. SUFFICES ASSUME NEW j \in DOMAIN AddLayers[u]
                      PROVE  Mountable(Descriptor(AddLayers[u][j]))
          OBVIOUS
        <5>. DEFINE b == AddLayers[u][j]
        <5>1. b \in Builders /\ bpc[b] = "ok"
          <6>1. AddLayers[u] \in Seq(Builders)
            BY OciAssumption
          <6>. QED BY <2>3, <6>1 DEF PutLayers
        <5>2. CASE b \in clash
          BY <5>1, <5>2 DEF Mountable
        <5>3. CASE b \notin clash
          BY <5>1, <5>3 DEF ReturnedBlobMounts, Mountable, Descriptor
        <5>. QED BY <5>2, <5>3
      <4>2. \A j \in DOMAIN man[u].layers : Mountable(man[u].layers[j])
        BY DEF ReadInv, AllMountable
      <4>3. \A i \in DOMAIN man'[u].layers :
              \/ \E j \in DOMAIN man[u].layers : man'[u].layers[i] = man[u].layers[j]
              \/ \E j \in DOMAIN AddLayers[u] : man'[u].layers[i] = Descriptor(AddLayers[u][j])
        BY <2>3, ManifestAfterPut
      <4>4. \A i \in DOMAIN man'[u].layers : Mountable(man'[u].layers[i])
        BY <4>1, <4>2, <4>3
      <4>. QED BY <3>2, <4>4 DEF AllMountable
    <3>. QED BY <3>1, <3>2
  <2>4. CASE PutConfig(u)
    <3>1. man' = [man EXCEPT ![u].config = u]
      BY <2>4 DEF PutConfig
    <3>2. man'[u] = [layers |-> man[u].layers, config |-> u]
      BY <3>1 DEF TagInv, PublishInv, Manifest
    <3>3. man'[v].layers = man[v].layers
      BY <3>1, <3>2 DEF TagInv, PublishInv
    <3>. QED BY <3>3 DEF ReadInv, AllMountable
  <2>. QED BY <2>1, <2>2, <2>3, <2>4 DEF Publish, PutManifest, UpdateReference, PublishFails
<1>4. ASSUME NEW m, AllMountable(m) PROVE \A i \in DOMAIN m.layers : Mountable(m.layers[i])'
  BY <1>4 DEF AllMountable
<1>5. (tag # NoManifest => AllMountable(tag))' /\ \A v \in Publishers : AllMountable(man[v])'
  BY <1>2, <1>3, <1>4 DEF AllMountable
<1>6. \A r \in Readers : rpc[r] \in {"read", "built"} => AllMountable(seen[r])'
  BY <1>1, <1>4 DEF ReadInv, AllMountable
<1>. QED BY <1>1, <1>5, <1>6 DEF ReadInv, Manifest

(* A reader takes the tag as it is, and builds what it saw.                *)
LEMMA ReaderStep ==
  ASSUME ReadInv, TagInv, NEW r \in Readers, Read(r),
         \A d : Mountable(d) => Mountable(d)'
  PROVE  ReadInv'
<1>1. UNCHANGED <<blobs, tag, ppc, man>>
  BY DEF Read, ResolveReference, FromDescriptor
<1>2. ASSUME NEW m, AllMountable(m) PROVE \A i \in DOMAIN m.layers : Mountable(m.layers[i])'
  BY <1>2 DEF AllMountable
<1>3. (tag # NoManifest => AllMountable(tag))' /\ \A u \in Publishers : AllMountable(man[u])'
  BY <1>1, <1>2 DEF ReadInv, AllMountable
<1>4. /\ DOMAIN seen' = Readers /\ DOMAIN rpc' = Readers /\ DOMAIN atoms' = Readers
      /\ \A q \in Readers :
           /\ rpc'[q] \in {"read", "built"} =>
                seen'[q] # NoManifest /\ Manifest(seen'[q]) /\ AllMountable(seen'[q])
           /\ rpc'[q] = "built" => atoms'[q] = Reverse(seen'[q].layers)
  <2>1. CASE ResolveReference(r)
    BY <2>1 DEF ResolveReference, ReadInv, TagInv
  <2>2. CASE FromDescriptor(r)
    <3>1. PICK S : seen[r].layers \in Seq(S)
      BY <2>2 DEF FromDescriptor, ReadInv, Manifest
    <3>2. Reversed(seen[r].layers) = Reverse(seen[r].layers)
      BY <3>1, ReversedReverses
    <3>. QED BY <2>2, <3>2 DEF FromDescriptor, ReadInv
  <2>. QED BY <2>1, <2>2 DEF Read
<1>5. \A q \in Readers : rpc'[q] \in {"read", "built"} => AllMountable(seen[q])'
  BY <1>2, <1>4 DEF AllMountable
<1>. QED BY <1>3, <1>4, <1>5 DEF ReadInv, Manifest

LEMMA ReadStep ==
  ReadInv /\ TagInv /\ BuildInv /\ ReturnedBlobMounts /\ [ImageNext]_imageVars => ReadInv'
<1>. SUFFICES ASSUME ReadInv, TagInv, BuildInv, ReturnedBlobMounts, [ImageNext]_imageVars
              PROVE  ReadInv'
  OBVIOUS
<1>1. \A d : Mountable(d) => Mountable(d)'
  BY MountableStays
<1>2. ASSUME UNCHANGED ociVars PROVE ReadInv'
  <2>1. ASSUME NEW m, AllMountable(m) PROVE \A i \in DOMAIN m.layers : Mountable(m.layers[i])'
    BY <1>1, <2>1 DEF AllMountable
  <2>2. (tag # NoManifest => AllMountable(tag))' /\ \A u \in Publishers : AllMountable(man[u])'
    BY <1>2, <2>1 DEF ReadInv, ociVars, AllMountable
  <2>3. \A q \in Readers : rpc[q] \in {"read", "built"} => AllMountable(seen[q])'
    BY <1>2, <2>1 DEF ReadInv, ociVars, AllMountable
  <2>. QED BY <1>2, <2>2, <2>3 DEF ReadInv, ociVars, Manifest
<1>3. ASSUME UNCHANGED imageVars PROVE UNCHANGED ociVars
  BY <1>3 DEF imageVars, ociVars
<1>. QED BY <1>1, <1>2, <1>3, PublishReadStep, ReaderStep DEF ImageNext, OciNext

LEMMA ReadConsequence == ReadInv => MoleculeTopFirst
<1>. SUFFICES ASSUME ReadInv, NEW r \in Readers, rpc[r] = "built"
              PROVE  /\ atoms[r] = Reverse(seen[r].layers)
                     /\ \A i \in DOMAIN atoms[r] : Mountable(atoms[r][i])
  BY DEF MoleculeTopFirst, Mountable
<1>1. atoms[r] = Reverse(seen[r].layers) /\ AllMountable(seen[r])
  BY DEF ReadInv
<1>2. PICK S : seen[r].layers \in Seq(S)
  BY DEF ReadInv, Manifest
<1>. DEFINE s == seen[r].layers
<1>3. DOMAIN s = 1 .. Len(s) /\ Len(s) \in Nat
  BY <1>2, LenProperties
<1>. HIDE DEF s
<1>4. \A i \in 1 .. Len(s) : Len(s) - i + 1 \in 1 .. Len(s)
  BY <1>3
<1>5. \A i \in DOMAIN Reverse(s) : Mountable(Reverse(s)[i])
  BY <1>1, <1>3, <1>4 DEF Reverse, AllMountable, s
<1>. QED BY <1>1, <1>5 DEF s

-----------------------------------------------------------------------------
(* The theorems.                                                           *)

LEMMA BuildInvariant == ImageSpec => []BuildInv
<1>1. ImageInit => BuildInv
  BY BuildInitially DEF ImageInit
<1>. QED BY <1>1, BuildStep, PTL DEF ImageSpec

(* No temporary file survives the call that made it, unless the call was   *)
(* killed.                                                                 *)
THEOREM NoTempFileLeft == ImageSpec => []TempFilesRemoved
<1>1. BuildInv => TempFilesRemoved
  BY DEF BuildInv
<1>. QED BY <1>1, BuildInvariant, PTL

(* A blob is of the tree of the call that returned it, for any number of   *)
(* calls that may draw each other's names again: only two calls of which   *)
(* one drew the name of the other between the removal of the temporary     *)
(* file and mkfs can get each other's.                                     *)
THEOREM BlobsNotMixed == ImageSpec => []BlobIsOwn
BY OwnBlob, BuildInvariant, PTL

(* With pages of 4096 bytes a returned blob is mountable with the returned *)
(* root hash, for any sizes of filesystems, if no other call drew its name *)
(* again.  What marks a missing superblock and a missing root hash is      *)
(* neither.                                                                *)
THEOREM BlobsMountable ==
  ASSUME PageSize = 4096,
         \A k, f, p : NoRoot # [kind |-> k, from |-> f, paths |-> p],
         \A x : NoSuperblock # [size |-> x], \A x, y : NoSuperblock # [blocks |-> x, blockSize |-> y]
  PROVE  ImageSpec => []ReturnedBlobMounts
<1>1. BuildInv => ReturnedBlobMounts
  BY BlobsMount
<1>. QED BY <1>1, BuildInvariant, PTL

LEMMA TagInvariant == ImageSpec => []TagInv
<1>1. ImageInit => TagInv
  BY TagInitially DEF ImageInit
<1>. QED BY <1>1, TagStep, PTL DEF ImageSpec

(* The tag always refers to an image that is complete in the layout, with  *)
(* any publishers failing or being killed at any step.                     *)
THEOREM TagNeverDangles == ImageSpec => []TagResolves
<1>1. TagInv => TagResolves
  BY DEF TagInv, PublishInv, TagResolves, LayersIn
<1>. QED BY <1>1, TagInvariant, PTL

(* A molecule built from the tag has the layers of one manifest, the first *)
(* on top, for manifests of any number of layers (the swapping loop of     *)
(* molecule/oci.go:63-67 is proved to reverse a slice of any length), and  *)
(* each of them can be mounted as its annotation says, unless it is of a   *)
(* call whose name was drawn twice.                                        *)
THEOREM MoleculesTopFirst ==
  ASSUME PageSize = 4096,
         \A k, f, p : NoRoot # [kind |-> k, from |-> f, paths |-> p],
         \A x : NoSuperblock # [size |-> x], \A x, y : NoSuperblock # [blocks |-> x, blockSize |-> y]
  PROVE  ImageSpec => []MoleculeTopFirst
<1>1. ImageInit => ReadInv
  BY ReadInitially DEF ImageInit
<1>2. ReadInv /\ TagInv /\ BuildInv /\ [ImageNext]_imageVars => ReadInv'
  BY BlobsMount, ReadStep
<1>. QED BY <1>1, <1>2, TagInvariant, BuildInvariant, ReadConsequence, PTL DEF ImageSpec
=============================================================================
