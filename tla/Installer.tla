-------------------------------- MODULE Installer --------------------------------
(***************************************************************************)
(* internal/chaincode/chaincode.go: what an install request carries, from  *)
(* bytes, from a file, or packaged from source.  The packaging asks twice  *)
(* which Go module its path is in, once for the metadata and once for the  *)
(* code, and each time enters the directory and leaves it again: but the   *)
(* working directory is the process's, and several calls may be under way. *)
(*                                                                         *)
(* The go command and the file system are external; the directories stay   *)
(* while calls are made, so that leaving one never fails.                  *)
(***************************************************************************)
EXTENDS Sequences

CONSTANTS
  Caller,       \* calls of GetInstalledChaincode
  Installers,   \* what one may be called on
  Start,        \* the working directory of the process, a sequence of names
  Dirs,         \* the directories there are
  Module,       \* the Go module each of them is in: its root and path, or Nil
  Gopath,       \* the import paths that are found in GOPATH
  Nil, Error, Panic

VARIABLES
  installer,    \* of each call
  cwd,          \* the working directory
  pc,           \* "idle", a step of moduleInfo, "return" from it, or "done"
  entryWD,      \* the directory moduleInfo goes back to
  modInfo,      \* what moduleInfo found: a module, Nil or Error
  metadata,     \* metadata.json, Nil before it is written
  result,       \* Nil, or the package, Error or Panic
  overlapped    \* two packagings have been under way at once

found == <<entryWD, modInfo>>
vars  == <<installer, cwd, pc, found, metadata, result, overlapped>>

-----------------------------------------------------------------------------
Init ==
  /\ installer \in [Caller -> Installers]
  /\ cwd = Start
  /\ pc = [c \in Caller |-> "idle"]
  /\ entryWD = [c \in Caller |-> Nil] /\ modInfo = [c \in Caller |-> Nil]
  /\ metadata = [c \in Caller |-> Nil] /\ result = [c \in Caller |-> Nil]
  /\ overlapped = FALSE

Packagings == {c \in Caller : pc[c] \notin {"idle", "done"}}

Goto(c, s) == pc' = [pc EXCEPT ![c] = s]

Finish(c, r) == Goto(c, "done") /\ result' = [result EXCEPT ![c] = r]

(* GetChaincodeInstallerFromGitRepo returns nil, and one from source has   *)
(* no packager for a type other than GOLANG.                               *)
GetInstalledChaincode(c) ==
  /\ pc[c] = "idle"
  /\ IF installer[c].kind = "source" /\ installer[c].type = "GOLANG"
       THEN /\ Goto(c, "getwd") /\ overlapped' = (overlapped \/ Packagings # {})
            /\ UNCHANGED result
       ELSE /\ Finish(c, IF installer[c].kind \in {"package", "file"}
                           THEN installer[c].bytes ELSE Panic)
            /\ UNCHANGED overlapped
  /\ UNCHANGED <<installer, cwd, found, metadata>>

-----------------------------------------------------------------------------
(* moduleInfo. *)

Getwd(c) ==
  /\ pc[c] = "getwd" /\ Goto(c, "chdir")
  /\ entryWD' = [entryWD EXCEPT ![c] = cwd]
  /\ UNCHANGED <<installer, cwd, modInfo, metadata, result, overlapped>>

(* Where a path leads from a directory; the empty one leads nowhere.       *)
Target(d, p) == IF p.absolute THEN p.names ELSE d \o p.names

NoPath == [absolute |-> FALSE, names |-> <<>>]

(* A path that is no directory is taken for no module. *)
Chdir(c) ==
  /\ pc[c] = "chdir"
  /\ LET d == Target(cwd, installer[c].path)
     IN  IF d \in Dirs /\ installer[c].path # NoPath
           THEN Goto(c, "env") /\ cwd' = d /\ UNCHANGED modInfo
           ELSE /\ Goto(c, "return") /\ UNCHANGED cwd
                /\ modInfo' = [modInfo EXCEPT ![c] = Nil]
  /\ UNCHANGED <<installer, entryWD, metadata, result, overlapped>>

(* Mutant: the directory is not left when it is in no module. *)
GoEnvStays(c) ==
  /\ pc[c] = "env"
  /\ \/ Goto(c, "back") /\ modInfo' = [modInfo EXCEPT ![c] = Error]
     \/ /\ Goto(c, IF Module[cwd] = Nil THEN "return" ELSE "list")
        /\ modInfo' = [modInfo EXCEPT ![c] = Nil]
  /\ UNCHANGED <<installer, cwd, entryWD, metadata, result, overlapped>>

(* go env GOMOD, in the directory the process is in by then. *)
GoEnv(c) ==
  /\ pc[c] = "env"
  /\ \/ Goto(c, "back") /\ modInfo' = [modInfo EXCEPT ![c] = Error]
     \/ /\ Goto(c, IF Module[cwd] = Nil THEN "back" ELSE "list")
        /\ modInfo' = [modInfo EXCEPT ![c] = Nil]
  /\ UNCHANGED <<installer, cwd, entryWD, metadata, result, overlapped>>

(* go list -json, likewise; it fails where there is no module. *)
ListModuleInfo(c) ==
  /\ pc[c] = "list" /\ Goto(c, "back")
  /\ modInfo' \in {[modInfo EXCEPT ![c] = Error],
                   [modInfo EXCEPT ![c] = IF Module[cwd] = Nil THEN Error ELSE Module[cwd]]}
  /\ UNCHANGED <<installer, cwd, entryWD, metadata, result, overlapped>>

ChdirBack(c) ==
  /\ pc[c] = "back" /\ Goto(c, "return")
  /\ cwd' = entryWD[c]
  /\ UNCHANGED <<installer, found, metadata, result, overlapped>>

-----------------------------------------------------------------------------
(* getTarPackage. *)

(* NormalizePath and toJSON: the label is the path, not the label given.   *)
(* The empty path DescribeCode refuses.                                    *)
WriteMetadata(c) ==
  /\ pc[c] = "return" /\ metadata[c] = Nil
  /\ IF modInfo[c] = Error \/ installer[c].path = NoPath
       THEN Finish(c, Error) /\ UNCHANGED metadata
       ELSE /\ Goto(c, "getwd") /\ UNCHANGED result
            /\ metadata' = [metadata EXCEPT ![c] =
                 [path  |-> IF modInfo[c] = Nil THEN installer[c].path
                            ELSE modInfo[c].importPath,
                  label |-> installer[c].path, type |-> installer[c].type]]
  /\ UNCHANGED <<installer, cwd, found, overlapped>>

(* DescribeCode and the payload of what it describes (see Payload).        *)
WriteCode(c) ==
  /\ pc[c] = "return" /\ metadata[c] # Nil
  /\ Finish(c,
       IF modInfo[c] = Error THEN Error
       ELSE IF modInfo[c] # Nil THEN [metadata |-> metadata[c], source |-> modInfo[c].dir]
       ELSE IF installer[c].path \in Gopath
         THEN [metadata |-> metadata[c], source |-> installer[c].path]
       ELSE Error)
  /\ UNCHANGED <<installer, cwd, found, metadata, overlapped>>

Next ==
  \E c \in Caller :
    \/ GetInstalledChaincode(c)
    \/ Getwd(c) \/ Chdir(c) \/ GoEnv(c) \/ ListModuleInfo(c) \/ ChdirBack(c)
    \/ WriteMetadata(c) \/ WriteCode(c)

Spec == Init /\ [][Next]_vars

-----------------------------------------------------------------------------
(* Where the path of a call leads when it is the only one. *)
Home(c) == Target(Start, installer[c].path)

Mine(c, r) ==
  IF Home(c) \in Dirs /\ Module[Home(c)] # Nil
  THEN r.metadata.path = Module[Home(c)].importPath /\ r.source = Module[Home(c)].dir
  ELSE r.metadata.path = installer[c].path /\ r.source = installer[c].path

(* As long as packagings are made one after another, each packs the module *)
(* of its own path with metadata that says so, and leaves the process in   *)
(* the directory it found it in, also when the go command fails and when   *)
(* the path is in no module; a package that was given is sent as it is     *)
(* whatever else is under way.                                             *)
InstallsItself ==
  /\ (~overlapped /\ Packagings = {}) => cwd = Start
  /\ \A c \in Caller :
       result[c] \notin {Nil, Error, Panic} =>
         IF installer[c].kind = "source"
         THEN overlapped \/ Mine(c, result[c])
         ELSE result[c] = installer[c].bytes
================================================================================
