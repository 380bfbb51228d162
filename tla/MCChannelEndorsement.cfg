CONSTANTS
  Base = 8
  Width = 2
  Numbers <- MCNumbers
  Garbage <- MCGarbage
  None = None
  orgA = orgA
  orgB = orgB
  Principal = {orgA, orgB}
  Written <- MCWritten
  linux = linux
  local = local
  Caller = {i1, i2}
  Installers <- MCInstallers
  Start <- MCStart
  Dirs <- MCDirs
  Module <- MCModule
  Gopath <- MCGopath
  bytes1 = bytes1
  nsA = nsA
  nsB = nsB
  collA = collA
  collB = collB
  key1 = key1
  key2 = key2
  val1 = val1
  Simulations <- MCSimulations
  Organization <- MCOrganizations
  Founders <- MCFounders
  Named = {"main", "other"}
  Order = 13
  Passwords = {"p", "q"}
  Digests = {0, 1, 7}
  Brought <- MCBrought
  Raws <- MCRaws
  Signeds <- MCSigneds
  Junk <- MCJunk
  Trees <- MCTrees
  Root <- MCRoot
  NameOrder <- MCNames
  Hidden <- MCHidden
  MetaLike <- MCMetaLike
  IndexDirs <- MCIndexDirs
  GoodIndex <- MCGoodIndex
  GoFile <- MCGoFile
  Dist <- MCDist
  Needs <- MCNeeds
  Goroot <- MCGoroot
  MaxGone = 1
  Nil = Nil
  Failure = Failure
  Panic = Panic
  Empty = Empty
SPECIFICATION SpecOne
CHECK_DEADLOCK FALSE
INVARIANT EndorsersSuffice
