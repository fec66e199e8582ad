-------------------------- MODULE ForgeLoader_proofs --------------------------
(***************************************************************************)
(* Proofs about ForgeLoader, for any unit files in any directories.         *)
(***************************************************************************)
EXTENDS ForgeLoader, TLAPS

LEMMA FileFacts ==
  /\ Files \subseteq Nat /\ \A f \in Files : DirOf[f] \in Dirs
  /\ \A f, g \in Files : Rank[DirOf[f]] < Rank[DirOf[g]] => f < g
  /\ \A d \in Dirs : Rank[d] \in Nat
<1>1. Files \subseteq Nat /\ \A f \in Files : DirOf[f] \in Dirs
  BY LoaderAssumption DEF Files
<1>2. \A d \in Dirs : Rank[d] \in Nat
  BY DEF Rank, Dirs, Installed
<1>3. ASSUME NEW f \in Files, NEW g \in Files, Rank[DirOf[f]] < Rank[DirOf[g]] PROVE f < g
  <2>1. ~ (g < f)
    <3>1. ASSUME g < f PROVE FALSE
      <4>1. Rank[DirOf[g]] <= Rank[DirOf[f]]
        BY <3>1, LoaderAssumption
      <4>2. Rank[DirOf[f]] \in Nat /\ Rank[DirOf[g]] \in Nat
        BY <1>1, <1>2
      <4> QED
        BY <4>1, <4>2, <1>3
    <3> QED
      BY <3>1
  <2>2. f # g
    BY <1>1, <1>2, <1>3
  <2> QED
    BY <1>1, <2>1, <2>2
<1> QED
  BY <1>1, <1>2, <1>3

LEMMA InitInv == Init => IInv
<1> SUFFICES ASSUME Init PROVE IInv
  OBVIOUS
<1>1. TypeOK
  BY DEF Init, TypeOK, Dirs, Installed, Empty
<1>2. Read = {} /\ Registered = {}
  BY DEF Init, Read, Registered
<1>3. OrderInv /\ SkipInv
  BY <1>2 DEF Init, OrderInv, SkipInv
<1>4. FirstDefinitionWins /\ ProviderIsFirst
  BY <1>2 DEF Init, FirstDefinitionWins, ProviderIsFirst, Empty
<1>5. OrderingInForce /\ EdgeInv
  BY <1>2 DEF Init, OrderingInForce, AfterIsAskedFor, BeforeIsInForce, EdgeInv, Empty
<1> QED
  BY <1>1, <1>3, <1>4, <1>5 DEF IInv

-----------------------------------------------------------------------------
(***************************************************************************)
(* Steps that read nothing: the registered units stay as they are.          *)
(***************************************************************************)
\* Where the load can go after a directory.
LEMMA ContinueFacts ==
  ASSUME IInv, dir \in Dirs, Continue
  PROVE /\ dir' \in Dirs \cup {"edges", "done"} /\ dir' # dir
        /\ dir' \in Dirs => ~ native /\ Rank[dir] < Rank[dir'] /\ UNCHANGED result
        /\ dir' = "edges" => native /\ UNCHANGED result
        /\ dir' = "done" => result' = "ok" /\ ~ native
        /\ dir' # "done" => result' = "none"
<1>1. result = "none"
  BY DEF IInv, SkipInv, Dirs, Installed
<1> QED
  BY <1>1 DEF Continue, Return, Rank, Dirs, Installed

\* The parts that speak of what was read only.
LEMMA ReadFrame ==
  ASSUME IInv, UNCHANGED <<settings, index, virtual, edges>>, Read' = Read
  PROVE /\ FirstDefinitionWins' /\ ProviderIsFirst' /\ Registered' = Registered
        /\ \A f \in Read' : Before(f)' \subseteq edges'
        /\ \A e \in edges' : \E f \in Files : e \in Before(f)'
<1>1. Registered' = Registered
  BY DEF Registered, settings
<1>2. \A n : Definitions(n)' = Definitions(n) /\ Providers(n)' = Providers(n)
  BY <1>1 DEF Definitions, Providers, settings
<1>3. FirstDefinitionWins' /\ ProviderIsFirst'
  BY <1>1, <1>2 DEF IInv, FirstDefinitionWins, ProviderIsFirst, First, settings
<1>4. \A f : Before(f)' = Before(f)
  BY DEF Before, settings
<1>5. /\ \A f \in Read' : Before(f)' \subseteq edges'
      /\ \A e \in edges' : \E f \in Files : e \in Before(f)'
  BY <1>4 DEF IInv, EdgeInv
<1> QED
  BY <1>1, <1>3, <1>5

LEMMA AfterFrame ==
  ASSUME IInv, UNCHANGED <<settings, index, after>>
  PROVE  AfterIsAskedFor'
<1>1. \A f : Before(f)' = Before(f)
  BY DEF Before, settings
<1>2. AfterIsAskedFor
  BY DEF IInv, OrderingInForce
<1> QED
  BY <1>1, <1>2 DEF AfterIsAskedFor, settings

LEMMA ListDirInv == ASSUME IInv, ListDir PROVE IInv'
<1> USE FileFacts
<1>0. UNCHANGED <<settings, skipped, index, virtual, after, edges>> /\ dir \in Dirs \ listed
  BY DEF ListDir, unitVars
<1>1. left = {}
  BY <1>0 DEF IInv, OrderInv, Dirs, Installed
<1>2. result = "none"
  BY <1>0 DEF IInv, SkipInv, Dirs, Installed
<1>3. Read' = Read
  BY <1>0, <1>1 DEF ListDir, Read, FilesOf
<1>4. TypeOK'
  <2>1. dir' \in Dirs \cup {"edges", "done"} /\ listed' \subseteq Dirs /\ left' \subseteq Files
    BY <1>0, <1>1, ContinueFacts DEF ListDir, Return, FilesOf, IInv, TypeOK
  <2>2. result' \in {"none", "ok", "error"}
    BY <1>0, <1>2, ContinueFacts DEF ListDir, Return
  <2> QED
    BY <2>1, <2>2, <1>0 DEF IInv, TypeOK, settings
<1>4a. native => Read = {} /\ listed = {}
  <2>1. native => dir = "forge"
    BY <1>0 DEF IInv, EdgeInv, Dirs, Installed
  <2>2. dir = "forge" => listed = {}
    BY <1>0 DEF IInv, OrderInv, TypeOK, Dirs, Installed, Rank
  <2> QED
    BY <2>1, <2>2 DEF Read
<1>5. CASE listed' = listed \cup {dir} /\ left' = FilesOf(dir) /\ UNCHANGED <<dir, result>>
  <2>1. OrderInv'
    <3>1. \A f \in Read', g \in left' : f < g
      BY <1>0, <1>3, <1>5 DEF IInv, TypeOK, OrderInv, Read, FilesOf
    <3>2. \A d \in listed' \ {dir'} : Rank[d] < Rank[dir']
      BY <1>0, <1>5 DEF IInv, OrderInv
    <3> QED
      BY <3>1, <3>2, <1>0, <1>5 DEF OrderInv, FilesOf
  <2>2. SkipInv'
    BY <1>0, <1>2, <1>3, <1>5 DEF IInv, SkipInv, settings, Dirs, Installed
  <2>3. OrderingInForce'
    BY <1>0, <1>5, AfterFrame DEF OrderingInForce, BeforeIsInForce, Dirs, Installed
  <2>4. EdgeInv'
    BY <1>0, <1>3, <1>5, ReadFrame DEF IInv, EdgeInv, settings
  <2> QED
    BY <2>1, <2>2, <2>3, <2>4, <1>0, <1>3, <1>4, ReadFrame DEF IInv
<1>6. CASE /\ IF native THEN Return("ok") ELSE Continue
           /\ UNCHANGED <<listed, left>>
  <2>2. \A f \in skipped : native \/ DirOf[f] # dir
    BY <1>0 DEF IInv, SkipInv, Read
  <2>3. OrderInv'
    <3>1. dir' \in Dirs => \A d \in listed : Rank[d] < Rank[dir']
      <4>1. CASE native
        BY <4>1, <1>4a
      <4>2. ASSUME ~ native, dir' \in Dirs, NEW d \in listed PROVE Rank[d] < Rank[dir']
        <5>1. Rank[dir] < Rank[dir']
          BY <4>2, <1>0, <1>6, ContinueFacts
        <5>2. Rank[d] < Rank[dir] /\ d \in Dirs
          BY <4>2, <1>0 DEF IInv, OrderInv, TypeOK
        <5> QED
          BY <5>1, <5>2, <1>0, <4>2
      <4> QED
        BY <4>1, <4>2
    <3> QED
      BY <3>1, <1>0, <1>1, <1>3, <1>6 DEF IInv, OrderInv
  <2>4. SkipInv'
    BY <1>0, <1>1, <1>2, <1>3, <1>4a, <1>6, <2>2, ContinueFacts
    DEF IInv, SkipInv, settings, Return, Dirs, Installed
  <2>5. OrderingInForce'
    <3>1. native' => Read' = {}
      BY <1>0, <1>3, <1>4a DEF settings
    <3> QED
      BY <3>1, <1>0, AfterFrame DEF OrderingInForce, BeforeIsInForce
  <2>6. native' => dir' \in {"forge", "edges", "done"}
    BY <1>0, <1>6, ContinueFacts DEF Return, settings
  <2>7. EdgeInv'
    BY <2>6, <1>0, <1>3, ReadFrame DEF IInv, EdgeInv
  <2> QED
    BY <2>3, <2>4, <2>5, <2>7, <1>0, <1>3, <1>4, ReadFrame DEF IInv
<1>7. CASE ~ Ignored /\ Return("error") /\ UNCHANGED <<listed, left>>
  <2>1. OrderInv' /\ SkipInv'
    BY <1>0, <1>1, <1>3, <1>7 DEF IInv, OrderInv, SkipInv, settings, Return, Dirs, Installed
  <2>2. OrderingInForce'
    <3>1. native' => Read' = {}
      BY <1>0, <1>3, <1>4a DEF settings
    <3> QED
      BY <3>1, <1>0, AfterFrame DEF OrderingInForce, BeforeIsInForce
  <2>3. EdgeInv'
    BY <1>0, <1>3, <1>7, ReadFrame DEF IInv, EdgeInv, settings, Return
  <2> QED
    BY <2>1, <2>2, <2>3, <1>0, <1>3, <1>4, ReadFrame DEF IInv
<1> QED
  BY <1>5, <1>6, <1>7 DEF ListDir

LEMMA CloseDirInv == ASSUME IInv, CloseDir PROVE IInv'
<1> USE FileFacts
<1>0. /\ UNCHANGED <<settings, listed, left, skipped, index, virtual, after, edges>>
      /\ dir \in Dirs /\ dir \in listed /\ left = {}
  BY DEF CloseDir, unitVars, IInv, TypeOK
<1>2. result = "none"
  BY <1>0 DEF IInv, SkipInv, Dirs, Installed
<1>3. Read' = Read
  BY <1>0 DEF Read
<1>4. TypeOK'
  <2>1. dir' \in Dirs \cup {"edges", "done"} /\ result' \in {"none", "ok", "error"}
    BY <1>0, <1>2, ContinueFacts DEF CloseDir, Return
  <2> QED
    BY <2>1, <1>0 DEF IInv, TypeOK, settings
<1>5. CASE (native \/ Ignored \/ skipped = {}) /\ Continue
  <2>1. native => dir = "forge"
    BY <1>0 DEF IInv, EdgeInv, Dirs, Installed
  <2>2. native => dir' = "edges"
    BY <1>0, <1>5, <2>1 DEF Continue, Return
  <2>3. OrderInv'
    BY <1>0, <1>3, <1>5, ContinueFacts DEF IInv, OrderInv, TypeOK
  <2>4. SkipInv'
    BY <1>0, <1>2, <1>3, <1>5, <2>2, ContinueFacts
    DEF IInv, SkipInv, settings, Ignored
  <2>5. OrderingInForce'
    BY <1>0, <2>2, AfterFrame DEF OrderingInForce, BeforeIsInForce, settings
  <2>6. EdgeInv'
    BY <2>2, <1>0, <1>3, ReadFrame DEF IInv, EdgeInv, settings
  <2> QED
    BY <2>3, <2>4, <2>5, <2>6, <1>0, <1>3, <1>4, ReadFrame DEF IInv
<1>6. CASE ~ native /\ Return("error")
  <2>1. OrderInv' /\ SkipInv'
    BY <1>0, <1>3, <1>6 DEF IInv, OrderInv, SkipInv, settings, Return, Dirs, Installed
  <2>2. OrderingInForce'
    BY <1>0, <1>6, AfterFrame DEF OrderingInForce, BeforeIsInForce, settings
  <2>3. EdgeInv'
    BY <1>0, <1>3, <1>6, ReadFrame DEF IInv, EdgeInv, settings
  <2> QED
    BY <2>1, <2>2, <2>3, <1>0, <1>3, <1>4, ReadFrame DEF IInv
<1> QED
  BY <1>5, <1>6 DEF CloseDir

-----------------------------------------------------------------------------
(***************************************************************************)
(* Reading a file.                                                          *)
(***************************************************************************)
\* The file that is read comes after all that were read before.
LEMMA NextFacts ==
  ASSUME IInv, NEW f \in left, LoadFile(f)
  PROVE /\ f \in Files /\ f \notin Read /\ DirOf[f] = dir /\ dir \in Dirs /\ dir \in listed
        /\ result = "none" /\ \A g \in Read : g < f
        /\ \A g \in left \ {f} : f < g
        /\ UNCHANGED <<settings, listed>> /\ left \subseteq Files
<1> USE FileFacts
<1>1. dir \in listed /\ First(f, left) /\ UNCHANGED <<settings, listed>>
  BY DEF LoadFile
<1>2. dir \in Dirs /\ left \subseteq Files
  BY <1>1 DEF IInv, TypeOK
<1>3. DirOf[f] = dir /\ result = "none"
  BY <1>1, <1>2 DEF IInv, OrderInv, SkipInv, FilesOf, Dirs, Installed
<1> QED
  BY <1>1, <1>2, <1>3 DEF IInv, OrderInv, Read, First

LEMMA RegisterFacts ==
  ASSUME IInv, NEW f \in left, LoadFile(f), content[f].state = "good"
  PROVE FirstDefinitionWins' /\ ProviderIsFirst' /\ TypeOK' /\ OrderingInForce'
        /\ Registered' = Registered \cup {f}
<1> DEFINE name == content[f].name
<1> DEFINE claims == IF content[f].kind = "service" THEN content[f].provides ELSE {}
<1> USE NextFacts, FileFacts
<1>0. Register(f) /\ left' = left \ {f} /\ UNCHANGED <<dir, skipped, result, settings, listed>>
  BY DEF LoadFile, Bad
<1>0a. content' = content /\ native' = native
  BY <1>0 DEF settings
<1>1. Read' = Read \cup {f} /\ Registered' = Registered \cup {f}
  BY <1>0, <1>0a DEF Read, Registered
<1>2. \A n : Definitions(n)' = Definitions(n) \cup (IF n = name THEN {f} ELSE {})
  BY <1>0a, <1>1 DEF Definitions
<1>3. \A v : Providers(v)' = Providers(v) \cup (IF v \in claims THEN {f} ELSE {})
  BY <1>0a, <1>1 DEF Providers
<1>4. \A g \in Registered : g < f /\ g \in Nat
  BY DEF Registered, Read
<1>4a. f \in Nat
  OBVIOUS
<1>5. /\ DOMAIN index' = DOMAIN index \cup {name} /\ DOMAIN after' = DOMAIN index'
      /\ \A n \in DOMAIN index : index'[n] = index[n] /\ after'[n] = after[n]
      /\ name \notin DOMAIN index => index'[name] = f /\ after'[name] = AfterList(f)
  <2>1. CASE name \in DOMAIN index
    <3>1. index' = index /\ after' = after
      BY <1>0, <2>1 DEF Register, Insert
    <3>2. DOMAIN after = DOMAIN index
      BY DEF IInv, TypeOK
    <3>3. DOMAIN index \cup {name} = DOMAIN index
      BY <2>1
    <3> QED
      BY <3>1, <3>2, <3>3, <2>1
  <2>2. CASE name \notin DOMAIN index
    BY <1>0, <2>2 DEF Register, Insert, With, IInv, TypeOK
  <2> QED
    BY <2>1, <2>2
<1>6. /\ DOMAIN virtual' = DOMAIN virtual \cup claims
      /\ \A v \in DOMAIN virtual : virtual'[v] = virtual[v]
      /\ \A v \in claims \ DOMAIN virtual : virtual'[v] = name
  BY <1>0 DEF Register, Provide
<1>7. FirstDefinitionWins'
  <2>1. ASSUME NEW n \in DOMAIN index' PROVE First(index'[n], Definitions(n)')
    <3>1. CASE n \in DOMAIN index
      <4>1. First(index[n], Definitions(n)) /\ index[n] \in Registered
        BY <3>1 DEF IInv, FirstDefinitionWins, First, Definitions
      <4>2. index[n] <= f
        BY <4>1, <1>4, <1>4a
      <4> QED
        BY <4>1, <4>2, <3>1, <1>2, <1>5 DEF First
    <3>2. CASE n \notin DOMAIN index
      <4>1. n = name /\ index'[n] = f
        BY <3>2, <1>5
      <4>2. Definitions(n) = {}
        BY <3>2 DEF IInv, FirstDefinitionWins, Definitions
      <4> QED
        BY <4>1, <4>2, <1>2, <1>4a DEF First
    <3> QED
      BY <3>1, <3>2
  <2>2. \A g \in Registered' : content'[g].name \in DOMAIN index'
    BY <1>0a, <1>1, <1>5 DEF IInv, FirstDefinitionWins
  <2> QED
    BY <2>1, <2>2 DEF FirstDefinitionWins, First
<1>8. ProviderIsFirst'
  <2>1. ASSUME NEW v \in DOMAIN virtual'
        PROVE \E g \in Files : First(g, Providers(v)') /\ virtual'[v] = content'[g].name
    <3>1. CASE v \in DOMAIN virtual
      <4>1. PICK g \in Files : First(g, Providers(v)) /\ virtual[v] = content[g].name
        BY <3>1 DEF IInv, ProviderIsFirst
      <4>2. g <= f
        BY <4>1, <1>4, <1>4a DEF First, Providers
      <4>3. First(g, Providers(v)')
        BY <4>1, <4>2, <1>3 DEF First
      <4> QED
        BY <4>1, <4>3, <3>1, <1>0a, <1>6
    <3>2. CASE v \notin DOMAIN virtual
      <4>1. v \in claims /\ virtual'[v] = name
        BY <3>2, <1>6
      <4>2. Providers(v) = {}
        BY <3>2 DEF IInv, ProviderIsFirst, Providers
      <4>3. First(f, Providers(v)')
        BY <4>1, <4>2, <1>3, <1>4a DEF First
      <4> QED
        BY <4>1, <4>3, <1>0a
    <3> QED
      BY <3>1, <3>2
  <2>2. \A g \in Registered' :
          content'[g].kind = "service" => content'[g].provides \subseteq DOMAIN virtual'
    BY <1>0a, <1>1, <1>6 DEF IInv, ProviderIsFirst
  <2> QED
    BY <2>1, <2>2 DEF ProviderIsFirst, First
<1>9. TypeOK'
  <2>1. \A v \in DOMAIN virtual' : virtual'[v] \in DOMAIN index'
    BY <1>5, <1>6 DEF IInv, TypeOK
  <2>2. \A n \in DOMAIN index' : index'[n] \in Files
    BY <1>5 DEF IInv, TypeOK
  <2>3. \A e \in edges' : \E g \in Files : e[1] = content'[g].name
    <3>1. edges' = edges \cup Before(f)
      BY DEF LoadFile
    <3>2. \A e \in Before(f) : e[1] = content[f].name
      BY DEF Before
    <3> QED
      BY <3>1, <3>2, <1>0a DEF IInv, TypeOK
  <2> QED
    BY <2>1, <2>2, <2>3, <1>0, <1>5 DEF IInv, TypeOK, settings
<1>10. OrderingInForce'
  <2>1. AfterIsAskedFor
    BY DEF IInv, OrderingInForce
  <2>2. \A g : Before(g)' = Before(g)
    BY <1>0a DEF Before
  <2>3. \A n \in DOMAIN index' :
          \/ n \in DOMAIN index /\ index'[n] = index[n] /\ after'[n] = after[n]
          \/ index'[n] = f /\ after'[n] = AfterList(f)
    BY <1>5
  <2>4. AfterIsAskedFor'
    BY <2>1, <2>2, <2>3, <1>0a
    DEF AfterIsAskedFor, AfterList, TomlAfter, SystemdAfter, NativeAfter
  <2>5. dir' # "done"
    BY <1>0 DEF Dirs, Installed
  <2> QED
    BY <2>4, <2>5 DEF OrderingInForce, BeforeIsInForce
<1> QED
  BY <1>1, <1>7, <1>8, <1>9, <1>10

LEMMA LoadFileInv == ASSUME IInv, NEW f \in left, LoadFile(f) PROVE IInv'
<1> USE FileFacts, NextFacts
<1>0. native' = native /\ lenient' = lenient /\ content' = content
  BY DEF settings
<1>1. edges' = edges \cup Before(f)
  BY DEF LoadFile
<1>2. \A g : Before(g)' = Before(g)
  BY <1>0 DEF Before
<1>3. CASE left' = left \ {f} /\ UNCHANGED dir
  <2>1. Read' = Read \cup {f}
    BY <1>3 DEF Read
  <2>2. OrderInv'
    BY <1>3, <2>1 DEF IInv, OrderInv
  <2> QED
    <3>1. CASE content[f].state = "good"
      <4>1. UNCHANGED <<skipped, result>>
        BY <3>1 DEF LoadFile, Bad
      <4>2. SkipInv'
        BY <1>0, <1>3, <2>1, <3>1, <4>1 DEF IInv, SkipInv, Dirs, Installed
      <4>3. EdgeInv'
        BY <1>0, <1>1, <1>2, <1>3, <2>1 DEF IInv, EdgeInv
      <4> QED
        BY <2>2, <3>1, <4>2, <4>3, RegisterFacts DEF IInv
    <3>2. CASE content[f].state # "good"
      <4>1. /\ Skip(f) /\ UNCHANGED <<index, virtual, after>>
        BY <3>2 DEF LoadFile
      <4>2. skipped' = skipped \cup {f} /\ UNCHANGED result
        BY <4>1, <1>3 DEF Skip, Return, Dirs, Installed
      <4>3. SkipInv'
        BY <1>0, <1>3, <2>1, <4>2 DEF IInv, SkipInv, Dirs, Installed
      <4>4. Registered' = Registered
        BY <1>0, <2>1, <3>2 DEF Registered
      <4>5. EdgeInv'
        BY <1>0, <1>1, <1>2, <1>3, <2>1 DEF IInv, EdgeInv
      <4>6. FirstDefinitionWins' /\ ProviderIsFirst'
        BY <1>0, <4>1, <4>4
        DEF IInv, FirstDefinitionWins, ProviderIsFirst, First, Definitions, Providers
      <4>7. OrderingInForce'
        BY <1>3, <4>1, AfterFrame DEF OrderingInForce, BeforeIsInForce, Dirs, Installed
      <4>8. TypeOK'
        <5>1. \A e \in edges' : \E g \in Files : e[1] = content'[g].name
          BY <1>0, <1>1 DEF Before, IInv, TypeOK
        <5>2. /\ UNCHANGED <<content, native, lenient, dir, listed, result, index, virtual, after>>
              /\ left' \subseteq Files /\ skipped' \subseteq Files
          BY <1>0, <1>3, <4>1, <4>2 DEF IInv, TypeOK
        <5> QED
          BY <5>1, <5>2 DEF IInv, TypeOK
      <4> QED
        BY <2>2, <4>3, <4>5, <4>6, <4>7, <4>8 DEF IInv
    <3> QED
      BY <3>1, <3>2
<1>4. CASE ~ Skips /\ Return("error") /\ UNCHANGED <<left, skipped, index, virtual, after>>
  <2>1. Read' = Read /\ Registered' = Registered
    BY <1>0, <1>4 DEF Read, Registered
  <2>2. OrderInv' /\ SkipInv'
    BY <1>0, <1>4, <2>1 DEF IInv, OrderInv, SkipInv, Return, Skips, Dirs, Installed
  <2>3. FirstDefinitionWins' /\ ProviderIsFirst'
    BY <1>0, <1>4, <2>1
    DEF IInv, FirstDefinitionWins, ProviderIsFirst, First, Definitions, Providers
  <2>4. EdgeInv'
    BY <1>0, <1>1, <1>2, <1>4, <2>1 DEF IInv, EdgeInv, Return
  <2>4a. OrderingInForce'
    BY <1>0, <1>4, AfterFrame DEF OrderingInForce, BeforeIsInForce, Return, Skips
  <2>5. TypeOK'
    <3>1. \A e \in edges' : \E g \in Files : e[1] = content'[g].name
      BY <1>0, <1>1 DEF Before, IInv, TypeOK
    <3> QED
      BY <3>1, <1>4 DEF IInv, TypeOK, settings, Return
  <2> QED
    BY <2>2, <2>3, <2>4, <2>4a, <2>5 DEF IInv
<1> QED
  BY <1>3, <1>4 DEF LoadFile, Skip

-----------------------------------------------------------------------------
(***************************************************************************)
(* The before edges of a native load.                                       *)
(***************************************************************************)
LEMMA OrderedFacts ==
  ASSUME NEW E, NEW n \in DOMAIN after
  PROVE /\ DOMAIN Ordered(E) = DOMAIN after /\ after[n] \subseteq Ordered(E)[n]
        /\ content[index[n]].kind # "target" =>
             \A e \in E : e[2] = n => e[1] \in Ordered(E)[n]
        /\ \A m \in Ordered(E)[n] \ after[n] : \E e \in E : e[1] = m /\ e[2] = n
BY DEF Ordered

LEMMA ApplyEdgesInv == ASSUME IInv, ApplyEdges PROVE IInv'
<1> USE FileFacts
<1>0. /\ UNCHANGED <<settings, listed, left, skipped, index, virtual, edges>> /\ dir = "edges"
      /\ native' = native /\ lenient' = lenient /\ content' = content /\ dir' = "done"
  BY DEF ApplyEdges, settings, Return
<1>1. left = {} /\ Read' = Read
  BY <1>0 DEF IInv, SkipInv, Read
<1>2. \E E \in SUBSET edges : after' = Ordered(E)
  BY DEF ApplyEdges
<1>3. /\ result' \in {"ok", "error"} /\ (result' = "ok" => MissingEdges = {} /\ skipped = {})
      /\ lenient \/ result' = "ok" => after' = Ordered(edges)
  BY DEF ApplyEdges, Return
<1>4. TypeOK'
  <2>1. DOMAIN after' = DOMAIN after
    BY <1>2 DEF Ordered
  <2> QED
    BY <2>1, <1>0, <1>3 DEF IInv, TypeOK, settings
<1>5. OrderInv' /\ SkipInv'
  BY <1>0, <1>1, <1>3 DEF IInv, OrderInv, SkipInv, Dirs, Installed
<1>6. AfterIsAskedFor'
  <2>1. PICK E \in SUBSET edges : after' = Ordered(E)
    BY <1>2
  <2>2. \A g : Before(g)' = Before(g)
    BY <1>0 DEF Before
  <2>3. ASSUME NEW n \in DOMAIN index, NEW m \in after'[n] \ after[n]
        PROVE  \E f \in Files : <<m, n>> \in Before(f)'
    <3>1. PICK e \in E : e[1] = m /\ e[2] = n
      BY <2>1, <2>3, OrderedFacts DEF IInv, TypeOK
    <3>2. PICK f \in Files : e \in Before(f)
      BY DEF IInv, EdgeInv
    <3>3. e = <<m, n>>
      BY <3>1, <3>2 DEF Before
    <3> QED
      BY <2>2, <3>2, <3>3
  <2>4. \A n \in DOMAIN index : after[n] \subseteq after'[n]
    BY <2>1, OrderedFacts DEF IInv, TypeOK
  <2>5. AfterIsAskedFor
    BY DEF IInv, OrderingInForce
  <2> QED
    BY <1>0, <2>2, <2>3, <2>4, <2>5 DEF AfterIsAskedFor
<1>7. BeforeIsInForce'
  <2>1. ASSUME lenient \/ result' = "ok", NEW f \in Read, NEW e \in Before(f)
        PROVE  /\ e[2] \in DOMAIN index /\ content[index[e[2]]].kind # "target" =>
                    e[1] \in after'[e[2]]
               /\ result' = "ok" => e[2] \in DOMAIN index
    <3>1. e \in edges
      BY <2>1 DEF IInv, EdgeInv
    <3> QED
      BY <2>1, <3>1, <1>3, OrderedFacts DEF IInv, TypeOK, MissingEdges
  <2>2. \A g : Before(g)' = Before(g)
    BY <1>0 DEF Before
  <2> QED
    BY <1>0, <1>1, <2>1, <2>2 DEF BeforeIsInForce
<1>8. EdgeInv'
  BY <1>0, <1>1, ReadFrame DEF IInv, EdgeInv
<1> QED
  BY <1>0, <1>1, <1>4, <1>5, <1>6, <1>7, <1>8, ReadFrame DEF IInv, OrderingInForce

-----------------------------------------------------------------------------
\* The loader's inductive invariant: how far the load is, what was read, registered, skipped and
\* ordered.
THEOREM Inductive == Spec => []IInv
<1>1. ASSUME IInv, [Next]_vars PROVE IInv'
  <2>1. CASE ListDir
    BY <1>1, <2>1, ListDirInv
  <2>2. CASE \E f \in left : LoadFile(f)
    BY <1>1, <2>2, LoadFileInv
  <2>3. CASE CloseDir
    BY <1>1, <2>3, CloseDirInv
  <2>4. CASE ApplyEdges
    BY <1>1, <2>4, ApplyEdgesInv
  <2>5. CASE UNCHANGED vars
    BY <1>1, <2>5
    DEF vars, settings, unitVars, IInv, TypeOK, OrderInv, SkipInv, EdgeInv, FirstDefinitionWins,
        ProviderIsFirst, OrderingInForce, AfterIsAskedFor, BeforeIsInForce, Read, Registered,
        Definitions, Providers, First, Before
  <2> QED
    BY <1>1, <2>1, <2>2, <2>3, <2>4, <2>5 DEF Next
<1> QED
  BY <1>1, InitInv, PTL DEF Spec

\* load_toml_units and its like: the units are those of the good files read, and of several
\* definitions of a name the first one counts.
THEOREM FirstFileCounts == Spec => []FirstDefinitionWins
<1>1. IInv => FirstDefinitionWins
  BY DEF IInv
<1> QED
  BY <1>1, Inductive, PTL

\* register_service_manifest: a virtual name belongs to the first service that lists it.
THEOREM ProvidersAreFirst == Spec => []ProviderIsFirst
<1>1. IInv => ProviderIsFirst
  BY DEF IInv
<1> QED
  BY <1>1, Inductive, PTL

\* load_all_units and load_native_units: Ok means that nothing was skipped or given up.
THEOREM OkIsComplete == Spec => []CleanLoadIsComplete
<1>1. ASSUME IInv PROVE CleanLoadIsComplete
  <2>1. ASSUME result = "ok", NEW f \in Files, DirOf[f] \in listed \ Installed
        PROVE content[f].state = "good" /\ content[f].name \in DOMAIN index
    <3>1. f \in Read
      BY <1>1, <2>1 DEF IInv, SkipInv, Read
    <3>2. dir = "done" /\ "done" \notin Dirs
      BY <1>1, <2>1 DEF IInv, SkipInv, Dirs, Installed
    <3>3. f \notin skipped
      BY <1>1, <2>1, <3>2, FileFacts DEF IInv, SkipInv
    <3> QED
      BY <1>1, <3>1, <3>3 DEF IInv, SkipInv, FirstDefinitionWins, Registered
  <2> QED
    BY <2>1 DEF CleanLoadIsComplete
<1> QED
  BY <1>1, Inductive, PTL

\* A lenient load: no good file of a directory that was listed is lost to a bad one.
THEOREM GoodSurvives == Spec => []GoodFilesSurvive
<1>1. ASSUME IInv PROVE GoodFilesSurvive
  <2>1. ASSUME result # "none", lenient, NEW f \in Files, DirOf[f] \in listed,
               content[f].state = "good"
        PROVE content[f].name \in DOMAIN index
    <3>1. f \in Registered
      BY <1>1, <2>1 DEF IInv, TypeOK, SkipInv, Read, Registered
    <3> QED
      BY <1>1, <3>1 DEF IInv, FirstDefinitionWins
  <2> QED
    BY <2>1 DEF GoodFilesSurvive
<1> QED
  BY <1>1, Inductive, PTL

\* prepend_ordering, apply_toml_dropins, insert_unit: what the Forge's files order is in force.
THEOREM OrderingHolds == Spec => []OrderingInForce
<1>1. IInv => OrderingInForce
  BY DEF IInv
<1> QED
  BY <1>1, Inductive, PTL
=============================================================================
