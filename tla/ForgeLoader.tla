----------------------------- MODULE ForgeLoader -----------------------------
(***************************************************************************)
(* How unit files become units: the Forge's own TOML files and imported     *)
(* systemd files, or native files, are read directory by directory in the   *)
(* order of their paths, and registered by name under the mutex.  A PID 1   *)
(* loads leniently: it skips what it cannot load and boots with the rest.   *)
(***************************************************************************)
EXTENDS Naturals, FiniteSets

CONSTANTS
  NumFiles,  \* unit files, in the order in which their paths sort, directory by directory
  DirOf,     \* the directory of each file
  Trees      \* what the files may say

Files == 1..NumFiles

\* The Forge's own unit files, the systemd units beside them, and those of the installed system,
\* in /usr/lib and in /etc.
Installed == {"usr", "etc"}
Dirs == {"forge", "systemd"} \cup Installed
Rank == [forge |-> 1, systemd |-> 2, usr |-> 3, etc |-> 4]
Bad == {"unparsable", "invalid"}

\* A file has a unit name, a kind, the virtual names it provides, the units it names in before and
\* after, those that its drop-in names in after, and it may be bad in two ways: it cannot be
\* read and parsed at all, or only its registration fails (a command line or an environment file
\* is wrong).
ASSUME LoaderAssumption ==
  /\ NumFiles \in Nat /\ DirOf \in [Files -> Dirs]
  /\ \A f, g \in Files : f < g => Rank[DirOf[f]] <= Rank[DirOf[g]]
  /\ \A t \in Trees : \A f \in Files :
       /\ t[f].kind \in {"service", "socket", "target"}
       /\ t[f].state \in {"good"} \cup Bad

VARIABLES
  content,   \* what each file says
  native,    \* FORGE_NATIVE_MODE
  lenient,   \* PID 1
  dir,       \* the directory that is read next, or "edges", or "done"
  listed,    \* directories whose files have been listed
  left,      \* files listed and not yet read
  skipped,   \* files that were skipped
  index,     \* name_index and the arena: for each name the file that defined it
  virtual,   \* provides_index: for each virtual name the name of a unit
  after,     \* the after list of each unit
  edges,     \* before_edges of a native load
  result     \* what the load returned

unitVars == <<index, virtual, after, edges>>
settings == <<content, native, lenient>>
vars == <<settings, dir, listed, left, skipped, unitVars, result>>

Empty == [n \in {} |-> n]
FilesOf(d) == {f \in Files : DirOf[f] = d}
First(f, S) == f \in S /\ \A g \in S : f <= g

TypeOK ==
  /\ content \in Trees /\ native \in BOOLEAN /\ lenient \in BOOLEAN
  /\ dir \in Dirs \cup {"edges", "done"} /\ listed \subseteq Dirs
  /\ left \subseteq Files /\ skipped \subseteq Files
  /\ \A n \in DOMAIN index : index[n] \in Files
  /\ \A v \in DOMAIN virtual : virtual[v] \in DOMAIN index
  /\ DOMAIN after = DOMAIN index
  /\ \A e \in edges : \E f \in Files : e[1] = content[f].name
  /\ result \in {"none", "ok", "error"}

Init ==
  /\ content \in Trees /\ native \in BOOLEAN /\ lenient \in BOOLEAN
  /\ dir = "forge" /\ listed = {} /\ left = {} /\ skipped = {}
  /\ index = Empty /\ virtual = Empty /\ after = Empty /\ edges = {} /\ result = "none"

-----------------------------------------------------------------------------
(***************************************************************************)
(* Registration.                                                            *)
(***************************************************************************)
With(f, n, x) == [m \in DOMAIN f \cup {n} |-> IF m = n THEN x ELSE f[m]]

\* Mutant: a later definition replaces the first.
InsertLast(f) ==
  /\ index' = With(index, content[f].name, f)
  /\ after' = With(after, content[f].name, {})

\* The after list of a unit, by its loader: the drop-ins of a TOML service extend it, those of a
\* systemd unit of any kind replace it, and a native load reads none.
TomlAfter(c) == IF c.kind = "service" THEN c.after \cup c.dropin ELSE c.after
SystemdAfter(c) == IF c.dropin = {} THEN c.after ELSE c.dropin
NativeAfter(c) == c.after

AfterList(f) ==
  IF content[f].kind = "target" THEN {}
  ELSE IF DirOf[f] # "forge" THEN SystemdAfter(content[f])
  ELSE IF native THEN NativeAfter(content[f]) ELSE TomlAfter(content[f])

\* insert_unit: the first definition of a name is kept.
Insert(f) ==
  IF content[f].name \in DOMAIN index THEN UNCHANGED <<index, after>>
  ELSE /\ index' = With(index, content[f].name, f)
       /\ after' = With(after, content[f].name, AfterList(f))

\* Mutant: the last unit that provides a virtual name gets it.
ProvideLast(f) ==
  virtual' = [v \in DOMAIN virtual \cup content[f].provides |->
                IF v \in content[f].provides THEN content[f].name ELSE virtual[v]]

\* register_service_manifest: virtual names go to the unit that has the service's name, which is
\* another file's if this one is a duplicate, unless they are taken.
Provide(f) ==
  LET names == IF content[f].kind = "service" THEN content[f].provides ELSE {} IN
  virtual' = [v \in DOMAIN virtual \cup names |->
                IF v \in DOMAIN virtual THEN virtual[v] ELSE content[f].name]

Register(f) == Insert(f) /\ Provide(f)

-----------------------------------------------------------------------------
(***************************************************************************)
(* One directory: load_toml_units, load_systemd_units, load_native_units.   *)
(***************************************************************************)
\* The installed units are loaded leniently, and what that load returns is ignored.
Ignored == dir \in Installed
Skips == lenient \/ Ignored

Return(r) == dir' = "done" /\ result' = r

\* After a directory: a native load goes on with its before edges, load_all_units with the next
\* directory, the two installed ones if FORGE_IMPORT_SYSTEM_UNITS asks for them.
Continue ==
  \/ /\ native /\ dir' = "edges" /\ UNCHANGED result
  \/ /\ ~ native /\ dir = "forge" /\ dir' = "systemd" /\ UNCHANGED result
  \/ /\ ~ native /\ dir = "systemd" /\ dir' = "usr" /\ UNCHANGED result
  \/ /\ ~ native /\ dir = "usr" /\ dir' = "etc" /\ UNCHANGED result
  \/ /\ ~ native /\ dir \in {"systemd", "etc"} /\ Return("ok")

\* The directory is listed, is missing, or cannot be read; an installed one that cannot be read is
\* as good as missing.  A missing native directory ends the load.
ListDir ==
  /\ dir \in Dirs \ listed
  /\ \/ /\ listed' = listed \cup {dir} /\ left' = FilesOf(dir)
        /\ UNCHANGED <<dir, result>>
     \/ /\ IF native THEN Return("ok") ELSE Continue
        /\ UNCHANGED <<listed, left>>
     \/ /\ ~ Ignored /\ Return("error")
        /\ UNCHANGED <<listed, left>>
  /\ UNCHANGED <<settings, skipped, unitVars>>

\* Mutant: the loop is left instead of continued.
SkipBreaks(f) ==
  left' = {} /\ skipped' = skipped \cup {f} /\ UNCHANGED <<dir, result>>

\* A file that cannot be loaded is skipped, or ends a strict load.
Skip(f) ==
  \/ /\ Skips
     /\ left' = left \ {f} /\ skipped' = skipped \cup {f}
     /\ UNCHANGED <<dir, result>>
  \/ /\ ~ Skips
     /\ Return("error") /\ UNCHANGED <<left, skipped>>

\* before_edges of a native service, which are collected once the file is parsed.
Before(f) ==
  IF native /\ content[f].kind = "service" /\ content[f].state # "unparsable"
  THEN {content[f].name} \X content[f].before ELSE {}

\* load_toml_unit_file, load_systemd_unit_file, or one turn of load_native_units, for the file
\* whose path comes next.
LoadFile(f) ==
  /\ dir \in listed /\ First(f, left)
  /\ edges' = edges \cup Before(f)
  /\ \/ /\ content[f].state = "good"
        /\ Register(f)
        /\ left' = left \ {f} /\ UNCHANGED <<dir, skipped, result>>
     \/ /\ content[f].state \in Bad
        /\ Skip(f) /\ UNCHANGED <<index, virtual, after>>
  /\ UNCHANGED <<settings, listed>>

\* Mutant: the next directory is read whatever was skipped.
CloseDirRegardless ==
  /\ dir \in listed /\ left = {}
  /\ Continue
  /\ UNCHANGED <<settings, listed, left, skipped, unitVars>>

\* A load that skipped files returns an error, and load_all_units reads no further directory.
CloseDir ==
  /\ dir \in listed /\ left = {}
  /\ \/ /\ native \/ Ignored \/ skipped = {}
        /\ Continue
     \/ /\ ~ native /\ ~ Ignored /\ skipped # {}
        /\ Return("error")
  /\ UNCHANGED <<settings, listed, left, skipped, unitVars>>

\* Mutant: the edges are applied the wrong way round.
OrderedTurned(E) ==
  [n \in DOMAIN after |->
     IF content[index[n]].kind = "target" THEN after[n]
     ELSE after[n] \cup {e[2] : e \in {e \in E : e[1] = n}}]

\* prepend_ordering: e[1] has to start before e[2].  A target has no after list.
Ordered(E) ==
  [n \in DOMAIN after |->
     IF content[index[n]].kind = "target" THEN after[n]
     ELSE after[n] \cup {e[1] : e \in {e \in E : e[2] = n}}]

\* Edges to names that are not in name_index, virtual ones included.
MissingEdges == {e \in edges : e[2] \notin DOMAIN index}

\* The last loop of load_native_units: a lenient load applies what it can, a strict one ends with
\* the first edge that it cannot apply.
ApplyEdges ==
  /\ dir = "edges"
  /\ \/ /\ lenient \/ MissingEdges = {}
        /\ after' = Ordered(edges)
        /\ Return(IF MissingEdges = {} /\ skipped = {} THEN "ok" ELSE "error")
     \/ /\ ~ lenient /\ MissingEdges # {}
        /\ \E E \in SUBSET (edges \ MissingEdges) : after' = Ordered(E)
        /\ Return("error")
  /\ UNCHANGED <<settings, listed, left, skipped, index, virtual, edges>>

Next == ListDir \/ (\E f \in left : LoadFile(f)) \/ CloseDir \/ ApplyEdges

Spec == Init /\ [][Next]_vars

-----------------------------------------------------------------------------
(***************************************************************************)
(* Correctness.                                                             *)
(***************************************************************************)
Read == {f \in Files : DirOf[f] \in listed} \ left
Registered == {f \in Read : content[f].state = "good"}
Definitions(n) == {f \in Registered : content[f].name = n}
Providers(v) ==
  {f \in Registered : content[f].kind = "service" /\ v \in content[f].provides}

\* Whatever is skipped, duplicated or overridden in a later directory, the units are those that the
\* good files read so far define, and the first file that defines a name is the one that counts:
\* the Forge's own files override the systemd files of the same name.
FirstDefinitionWins ==
  /\ \A n \in DOMAIN index : First(index[n], Definitions(n))
  /\ \A f \in Registered : content[f].name \in DOMAIN index

\* A virtual name goes to the unit of the first good service file that lists it, and once claimed it
\* never changes hands, although a duplicate's claim counts for the unit that was registered first.
ProviderIsFirst ==
  /\ \A v \in DOMAIN virtual :
       \E f \in Files : First(f, Providers(v)) /\ virtual[v] = content[f].name
  /\ \A f \in Registered :
       content[f].kind = "service" => content[f].provides \subseteq DOMAIN virtual

\* A load that returns Ok has registered every file of every directory it was asked to trust: an
\* Ok never hides a skipped file, nor a directory that was given up half-way.
CleanLoadIsComplete ==
  result = "ok" =>
    \A f \in Files : DirOf[f] \in listed \ Installed =>
      content[f].state = "good" /\ content[f].name \in DOMAIN index

\* PID 1 boots with what it could load: a bad file never costs it a good one of the same directory,
\* whatever the other files are.
GoodFilesSurvive ==
  result # "none" /\ lenient =>
    \A f \in Files : DirOf[f] \in listed /\ content[f].state = "good" =>
      content[f].name \in DOMAIN index

\* The after list of a unit is what the file that defined it asks for, and nothing it does not:
\*  - its own list, which only the drop-in of an imported unit replaces;
\*  - its drop-ins, for every imported unit and for a TOML service, unless the load is native;
\*  - each name in it is one of these, or comes from a native service that names the unit in before.
\* No skipped file, lost duplicate or later directory adds to it.
AfterIsAskedFor ==
  \A n \in DOMAIN index :
    LET c == content[index[n]]  imported == DirOf[index[n]] # "forge" IN
    c.kind # "target" =>
      /\ ~ imported \/ c.dropin = {} => c.after \subseteq after[n]
      /\ imported \/ (c.kind = "service" /\ ~ native) => c.dropin \subseteq after[n]
      /\ \A m \in after[n] \ (c.after \cup c.dropin) : \E f \in Files : <<m, n>> \in Before(f)

\* When a native load ends, the before lists of all files it read hold, whichever of the two units
\* was read first; a strict load that returned an error has not promised it.  In a load that
\* returned Ok none of them names a unit that does not exist.
BeforeIsInForce ==
  native /\ dir = "done" /\ (lenient \/ result = "ok") =>
    \A f \in Read : \A e \in Before(f) :
      /\ e[2] \in DOMAIN index /\ content[index[e[2]]].kind # "target" => e[1] \in after[e[2]]
      /\ result = "ok" => e[2] \in DOMAIN index

\* The ordering that the unit files ask for -- after lists, drop-ins and before lists -- is the one
\* that the boot graph gets.
OrderingInForce == AfterIsAskedFor /\ BeforeIsInForce

\* Where the load is: the files read come before those that are left, and the directories listed
\* before the one that is read next.
OrderInv ==
  /\ \A f \in Read, g \in left : f < g
  /\ left # {} /\ dir # "done" => dir \in listed /\ left \subseteq FilesOf(dir)
  /\ dir \in Dirs => \A d \in listed \ {dir} : Rank[d] < Rank[dir]

\* What was read is registered or counted as skipped, and what was skipped in a directory whose
\* errors count is still known when the load returns.
SkipInv ==
  /\ skipped \subseteq Read
  /\ \A f \in Read : content[f].state = "good" \/ f \in skipped
  /\ (result = "none") <=> (dir # "done")
  /\ dir = "edges" \/ result = "ok" \/ (result = "error" /\ lenient) => left = {}
  /\ ~ native /\ result # "error" => \A f \in skipped : DirOf[f] \in {dir} \cup Installed
  /\ native /\ result = "ok" => skipped = {}

\* A native load reads one directory and has the before lists of all files it has read.
EdgeInv ==
  /\ native => dir \in {"forge", "edges", "done"}
  /\ \A f \in Read : Before(f) \subseteq edges
  /\ \A e \in edges : \E f \in Files : e \in Before(f)

IInv ==
  /\ TypeOK /\ OrderInv /\ SkipInv /\ EdgeInv
  /\ FirstDefinitionWins /\ ProviderIsFirst /\ OrderingInForce
=============================================================================
