-------------------------------- MODULE Payload --------------------------------
(***************************************************************************)
(* The code package of a Go chaincode: golang.Platform.GetDeploymentPayload *)
(* describes the chaincode directory, walks it, asks the go command for    *)
(* its dependencies when it is no module, and writes a tar of directories  *)
(* and files.  Every organisation packages the code for itself and         *)
(* approves the hash of the result, so the same code must give the same    *)
(* package, with every source in it and nothing else.                      *)
(*                                                                         *)
(* A path is the sequence of its names.  Absolute paths start at           *)
(* $GOPATH/src, so the import path of a package that is in no module is    *)
(* its directory.  Files may vanish while the package is made.             *)
(***************************************************************************)
EXTENDS Integers, Sequences, SequencesExt, FiniteSets

CONSTANTS
  Trees,       \* the sets of files there may be
  Root,        \* the directory of the module, or of the package
  NameOrder,   \* the names of files and directories, in string order
  Hidden,      \* those that start with "."
  MetaLike,    \* those that start with "META-INF"
  IndexDirs,   \* directories of META-INF that hold database indexes
  GoodIndex,   \* names of files whose content is an index definition
  GoFile,      \* names of files the go command lists
  Dist,        \* the platforms dependencies are worked out for
  Needs,       \* what may be needed on one: sets of package directories
  Goroot,      \* the directories of the standard library
  MaxGone,     \* bounds the files that vanish during the call
  None

VARIABLES
  tree,      \* the files on disk
  gone,      \* those that have vanished
  pc,        \* the stage of the call
  cd,        \* the CodeDescriptor, or None
  todo,      \* files the walk has yet to visit, in order
  dists,     \* platforms whose dependencies are yet to be listed
  needs,     \* the dependencies the go command found on each
  listed,    \* dependencyPackageInfo: files of the packages listed
  fileMap,   \* entry names to paths
  names,     \* entry names whose directories are yet to be collected
  dirMap,    \* directories collected
  payload,   \* the entries written
  result     \* None, "ok" or "error"

walk == <<cd, todo>>
deps == <<dists, needs, listed>>
dirs == <<names, dirMap>>
disk == <<tree, gone>>
vars == <<disk, pc, walk, deps, fileMap, dirs, payload, result>>

Init ==
  /\ tree \in Trees
  /\ gone = {}
  /\ pc = "describe" /\ cd = None /\ todo = <<>>
  /\ dists = Dist /\ needs = [d \in Dist |-> {}] /\ listed = {}
  /\ fileMap = <<>> /\ names = {} /\ dirMap = {}
  /\ payload = <<>> /\ result = None

-----------------------------------------------------------------------------
(* Paths. *)

Dir(p) == Front(p)
Rel(root, p) == SubSeq(p, Len(root) + 1, Len(p))
Under(root, p) == IsStrictPrefix(root, p)
Rank(x) == CHOOSE i \in 1..Len(NameOrder) : NameOrder[i] = x

(* p comes before q, where names are compared in turn. *)
Less(p, q) ==
  \/ IsStrictPrefix(p, q)
  \/ \E i \in 1..Len(p) \cap 1..Len(q) :
       /\ \A k \in 1..i - 1 : p[k] = q[k]
       /\ Rank(p[i]) < Rank(q[i])

Sorted(S) ==
  [i \in 1..Cardinality(S) |->
     CHOOSE p \in S : Cardinality({q \in S : Less(q, p)}) = i - 1]

(* The directories above p, the empty path left out. *)
Above(p) == {SubSeq(p, 1, n) : n \in 1..Len(p) - 1}

-----------------------------------------------------------------------------
(* What goes in. *)

(* A map in which the entries of new replace or join those of map. *)
Put(map, new) ==
  [n \in DOMAIN map \cup DOMAIN new |-> IF n \in DOMAIN new THEN new[n] ELSE map[n]]

(* A prefix test on strings: META-INF-old passes it as META-INF does.      *)
isMetadata(d, p) ==
  /\ Under(d.MetadataParent, p)
  /\ p[Len(d.MetadataParent) + 1] \in MetaLike

(* The walk goes into directory p. *)
EnteredAlways(d, p) == p = d.Source \/ isMetadata(d, p) \/ d.Module

Entered(d, p) ==
  \/ p = d.Source
  \/ isMetadata(d, p)
  \/ d.Module /\ Last(p) \notin Hidden

Reached(d, p) ==
  Under(d.Source, p) /\ \A q \in Above(p) : Under(d.Source, q) => Entered(d, q)

ValidateMetadataFile(name) ==
  /\ \E i \in IndexDirs : Under(<<"META-INF">> \o i, name)
  /\ Last(name) \in GoodIndex

(* The name the walk gives a file it takes. *)
EntryName(d, p) ==
  IF isMetadata(d, p) THEN Rel(d.MetadataParent, p)
  ELSE IF d.Module THEN <<"src">> \o Rel(d.Source, p)
  ELSE <<"src">> \o d.Path \o Rel(d.Source, p)

Skipped(d, p) ==
  IF isMetadata(d, p) THEN Last(p) \in Hidden
  ELSE ~d.Module /\ Rel(d.Source, p) \in {<<"go.mod">>, <<"go.sum">>}

(* The bits of a mode, 0666 as "rw" and 0111 as "x". *)
DirMode  == {"ISDIR", "rw", "x"}
FileMode == {"ISREG", "rw"}

ValidateCodePackage(entries) ==
  \A i \in DOMAIN entries :
    /\ entries[i].name[1] \in {"src", "META-INF"}
    /\ entries[i].isDir \/ Len(entries[i].name) > 1
    /\ entries[i].mode \subseteq {"ISREG", "rw"}

-----------------------------------------------------------------------------
Fail ==
  /\ pc' = "done" /\ result' = "error"
  /\ UNCHANGED <<disk, walk, deps, fileMap, dirs, payload>>

(* The directory is part of a module, whose package is in a directory at or *)
(* below its root (no name of an import path starts with "."), or it is    *)
(* found in GOPATH.                                                        *)
DescribeCode ==
  /\ pc = "describe"
  /\ \/ Fail
     \/ \E d \in [Module : {TRUE}, Source : {Root}, Path : {Root},
                  MetadataParent : {Root} \cup
                    {q \in UNION {Above(p) : p \in tree} :
                       Under(Root, q) /\ Range(q) \cap (Hidden \cup MetaLike) = {}}]
                \cup {[Module |-> FALSE, Source |-> Root, Path |-> Root,
                       MetadataParent |-> Root]} :
          /\ cd' = d
          /\ todo' = Sorted({p \in tree : Reached(d, p)})
          /\ pc' = "walk"
          /\ UNCHANGED <<disk, deps, fileMap, dirs, payload, result>>

(* One file of the walk.  One that has vanished is an error, unless its    *)
(* directory was read later and did not show it.                           *)
findSource ==
  /\ pc = "walk" /\ todo # <<>>
  /\ LET p == Head(todo) name == EntryName(cd, p) IN
     \/ p \notin tree /\ Fail
     \/ /\ p \in tree /\ ~Skipped(cd, p) /\ isMetadata(cd, p)
        /\ ~ValidateMetadataFile(name) /\ Fail
     \/ /\ todo' = Tail(todo)
        /\ \/ (p \notin tree \/ Skipped(cd, p)) /\ UNCHANGED fileMap
           \/ /\ p \in tree /\ ~Skipped(cd, p)
              /\ isMetadata(cd, p) => ValidateMetadataFile(name)
              /\ fileMap' = Put(fileMap, [n \in {name} |-> p])
        /\ UNCHANGED <<disk, pc, cd, deps, dirs, payload, result>>

WalkDone ==
  /\ pc = "walk" /\ todo = <<>>
  /\ pc' = IF cd.Module THEN "merge" ELSE "list"
  /\ UNCHANGED <<disk, walk, deps, fileMap, dirs, payload, result>>

(* The files the go command lists for the package in directory d. *)
PackageFiles(d) == {p \in tree : Dir(p) = d /\ Last(p) \in GoFile}

AppendLast(list, packages) == UNION {PackageFiles(q) : q \in packages}

AppendInfo(list, packages) ==
  list \cup UNION {PackageFiles(q) : q \in packages}

(* gopathDependencyPackageInfo for one platform.  A package of which no    *)
(* file is there is incomplete.                                            *)
ListDeps(d) ==
  /\ pc = "list" /\ d \in dists
  /\ \/ Fail
     \/ \E S \in Needs :
          LET packages == ({cd.Path} \cup S) \ Goroot IN
          /\ \A q \in packages : PackageFiles(q) # {}
          /\ needs' = [needs EXCEPT ![d] = S]
          /\ listed' = AppendInfo(listed, packages)
          /\ dists' = dists \ {d}
          /\ pc' = IF dists' = {} THEN "merge" ELSE "list"
          /\ UNCHANGED <<disk, walk, fileMap, dirs, payload, result>>

(* The files of the dependencies join, and replace, those of the walk.     *)
Merge ==
  /\ pc = "merge"
  /\ fileMap' = Put(fileMap, [n \in {<<"src">> \o p : p \in listed} |-> Tail(n)])
  /\ names' = DOMAIN fileMap'
  /\ pc' = "directories"
  /\ UNCHANGED <<disk, walk, deps, dirMap, payload, result>>

(* The directories above one name, up to the first that is there already.  *)
(* The names come in the order a map is ranged over, which is any order.   *)
AscendOne(found, name) == {Dir(name)} \ found

Ascend(found, name) ==
  {q \in Above(name) :
     \A r \in found \cap Above(name) : Len(q) > Len(r)}

CollectDirs(name) ==
  /\ pc = "directories" /\ name \in names
  /\ names' = names \ {name}
  /\ dirMap' = dirMap \cup Ascend(dirMap, name)
  /\ UNCHANGED <<disk, pc, walk, deps, fileMap, payload, result>>

DirEntries(S) ==
  [i \in 1..Cardinality(S) |->
     [name |-> Sorted(S)[i], isDir |-> TRUE, mode |-> DirMode, path |-> None]]

WriteDirs ==
  /\ pc = "directories" /\ names = {}
  /\ payload' = DirEntries(dirMap)
  /\ pc' = "files"
  /\ UNCHANGED <<disk, walk, deps, fileMap, dirs, result>>

(* The next of the files, sorted by name.  It is opened now.               *)
WriteFile ==
  /\ pc = "files"
  /\ LET n == Len(payload) - Cardinality(dirMap) IN
     /\ n < Cardinality(DOMAIN fileMap)
     /\ LET name == Sorted(DOMAIN fileMap)[n + 1] IN
        \/ fileMap[name] \notin tree /\ Fail
        \/ /\ fileMap[name] \in tree
           /\ payload' = Append(payload,
                [name |-> name, isDir |-> FALSE, mode |-> FileMode,
                 path |-> fileMap[name]])
           /\ UNCHANGED <<disk, pc, walk, deps, fileMap, dirs, result>>

Return ==
  /\ pc = "files"
  /\ Len(payload) = Cardinality(dirMap) + Cardinality(DOMAIN fileMap)
  /\ pc' = "done" /\ result' = "ok"
  /\ UNCHANGED <<disk, walk, deps, fileMap, dirs, payload>>

(* External: a file goes away while the call is under way. *)
Vanish(p) ==
  /\ pc # "done" /\ p \in tree /\ Cardinality(gone) < MaxGone
  /\ tree' = tree \ {p} /\ gone' = gone \cup {p}
  /\ UNCHANGED <<pc, walk, deps, fileMap, dirs, payload, result>>

GetDeploymentPayload ==
  \/ DescribeCode
  \/ findSource
  \/ WalkDone
  \/ \E d \in dists : ListDeps(d)
  \/ Merge
  \/ \E n \in names : CollectDirs(n)
  \/ WriteDirs
  \/ WriteFile
  \/ Return

Next == GetDeploymentPayload \/ \E p \in tree : Vanish(p)

Spec == Init /\ [][Next]_vars

-----------------------------------------------------------------------------
(* Properties. *)

EntriesOf(isDir) == {e \in Range(payload) : e.isDir = isDir}
Files == {e.path : e \in EntriesOf(FALSE)}

Descriptor ==
  [Module : BOOLEAN, Source : {Root}, Path : {Root},
   MetadataParent : {Root} \cup UNION {Above(p) : p \in tree \cup gone}]

(* Types, of the call's state and of what it has written so far.           *)
TypeOK ==
  /\ tree \cup gone \in Trees /\ tree \cap gone = {}
  /\ pc \in {"describe", "walk", "list", "merge", "directories", "files", "done"}
  /\ cd \in Descriptor \cup {None}
  /\ Range(todo) \cup listed \cup Range(fileMap) \subseteq tree \cup gone
  /\ dists \subseteq Dist
  /\ names \subseteq DOMAIN fileMap
  /\ \A e \in Range(payload) : e.isDir <=> e.path = None
  /\ result \in {None, "ok", "error"}
  /\ (result # None) <=> (pc = "done")

(* A package that is handed out holds only sources below src/ and metadata *)
(* below META-INF/: what the comment on ValidateCodePackage asks, and what *)
(* a metadata directory with a name that only begins like META-INF, taken  *)
(* by the prefix test of isMetadata, would break.                          *)
NamesConform ==
  result = "ok" =>
    \A e \in Range(payload) :
      /\ e.name[1] \in {"src", "META-INF"}
      /\ ~e.isDir => Len(e.name) > 1
      /\ (~e.isDir /\ e.name[1] = "META-INF") => ValidateMetadataFile(e.name)

(* The code a walk of the directory has to take, said without a walk: in a *)
(* module all but what is below a hidden directory, in a package of GOPATH *)
(* the files of its directory, in both the metadata files not hidden.  The *)
(* prefix test costs the hidden files of a directory that is called nearly *)
(* like the one of the metadata.                                           *)
Meta == cd.MetadataParent \o <<"META-INF">>
Metadata == {p \in tree : Under(Meta, p) /\ Last(p) \notin Hidden}
Sources ==
  {p \in tree :
     /\ Under(Root, p) /\ ~Under(Meta, p) /\ ~(isMetadata(cd, p) /\ Last(p) \in Hidden)
     /\ IF cd.Module
        THEN \A i \in Len(Root) + 1..Len(p) - 1 : p[i] \notin Hidden
        ELSE Dir(p) = Root /\ Last(p) \notin {"go.mod", "go.sum"}}

(* A package that is handed out lacks no file of the code that was there   *)
(* throughout, holds each file once, under the name that says where it     *)
(* lies, and nothing that is neither code, metadata nor a dependency.      *)
SourcesWhole ==
  result = "ok" =>
    /\ Sources \cup Metadata \subseteq Files
    /\ Files \cap tree \subseteq Sources \cup Metadata \cup listed
    /\ Cardinality(Files) = Cardinality(EntriesOf(FALSE))
    /\ \A e \in EntriesOf(FALSE) :
         e.name = IF Under(Meta, e.path) THEN Rel(cd.MetadataParent, e.path)
                  ELSE <<"src">> \o Rel(IF cd.Module THEN Root ELSE <<>>, e.path)

(* Outside a module the package carries what it needs on every platform    *)
(* that dependencies are worked out for, not only on the one it was made   *)
(* on, so that it builds where the peer runs it.                           *)
DepsWhole ==
  (result = "ok" /\ ~cd.Module) =>
    \A d \in Dist : \A q \in needs[d] \ Goroot :
      /\ PackageFiles(q) \subseteq Files
      /\ \E e \in EntriesOf(FALSE) : Dir(e.path) = q

(* Every directory of an entry is an entry before it, once, so that it has *)
(* the owner and the mode the package gives it, whichever order the map    *)
(* was ranged over in: the walk up stops at the first directory known.     *)
ParentsFirst ==
  result = "ok" =>
    \A i \in DOMAIN payload : \A q \in Above(payload[i].name) :
      Cardinality({j \in 1..i - 1 : payload[j].isDir /\ payload[j].name = q}) = 1

(* The entries come in one order, directories and then files by name, so   *)
(* that two organisations that package the same code get the same hash.    *)
SameOrder ==
  \A i, j \in DOMAIN payload :
    i < j => \/ payload[i].isDir /\ ~payload[j].isDir
             \/ /\ payload[i].isDir = payload[j].isDir
                /\ Less(payload[i].name, payload[j].name)

(* ValidateCodePackage, which is said to be for such packages, passes all  *)
(* entries but directories.                                                *)
FilesValidate ==
  result = "ok" => \A e \in EntriesOf(FALSE) : ValidateCodePackage(<<e>>)

(* The entries: what they are called, what comes first, and in what order. *)
EntriesInv == TypeOK /\ NamesConform /\ ParentsFirst /\ SameOrder /\ FilesValidate

(* What a package has, and how. *)
PackageInv == EntriesInv /\ SourcesWhole /\ DepsWhole
================================================================================
