-------------------------- MODULE TopologyRegistry --------------------------
(***************************************************************************)
(* The registry of topologies (src/structures/crystal_topology_registry.   *)
(* cpp), loaded from YAML files below search roots and loaded again when   *)
(* the roots have changed, and the shared topologies that are made of its  *)
(* entries once (src/analysis/crystal_topology_library.cpp).  Both can be  *)
(* used from several threads.  The registry is looked up under a mutex,    *)
(* but a reference to it, or a pointer to an entry, is used outside of it. *)
(*                                                                         *)
(* A file has a path, a number that orders it, and tells a name and a      *)
(* shape, the neighbour vectors.  What a YAML file can be wrong in is one  *)
(* way not to parse.                                                       *)
(***************************************************************************)
EXTENDS Integers, Sequences, FiniteSets, SequencesExt

CONSTANTS Threads,
          RootLists, DefaultRoots,   \* roots to configure, and if there are none
          NoRoot,                    \* an empty path
          FilesBelow(_),             \* paths of the YAML files below a root
          File(_),                   \* what a path's file tells: [name, shape]
          Malformed,                 \* the shape of a file that does not parse
          Names, Key(_),             \* names asked for, and normalizeKey
          MaxChanges,                \* bound: calls of setCrystalTopologySearchRoots
          Failed, NoEntry, NoShape

VARIABLES configured,      \* configuredTopologyRoots
          registry,        \* the registry in place: number and entries
          loadedRoots,     \* the roots it was loaded from
          topologies,      \* shared topologies: a shape for each name, and whether
                           \* all of them were read from a registry in place
          initFlag,        \* "unset", "set", or the thread that initialises
          pc, request, reference,    \* of each thread's call
          outcome,         \* how its last call ended
          changes, began, initializedAt    \* changes of the roots so far,
                           \* when a call began, when topologies were initialised

vars == <<configured, registry, loadedRoots, topologies, initFlag, pc, request, reference,
          outcome, changes, began, initializedAt>>
shared == <<topologies, initFlag, initializedAt>>
roots == <<configured, changes, began>>
NoRequest == [kind |-> "none", name |-> NoRoot]

Result(is, shape, expected) == [is |-> is, shape |-> shape, expected |-> expected]

\* normalizeSearchRoots: each root once.
NormalizeSearchRoots(list) ==
    FoldLeft(LAMBDA known, r : IF r = NoRoot \/ Contains(known, r) THEN known ELSE Append(known, r),
             <<>>, list)

TopologySearchRoots == IF configured # <<>> THEN configured ELSE DefaultRoots

Paths(list) == UNION {FilesBelow(list[i]) : i \in DOMAIN list}

\* Each file once, in the order of the paths.
DiscoverTopologyFiles(list) ==
    CHOOSE s \in [1 .. Cardinality(Paths(list)) -> Paths(list)] :
        \A i, j \in DOMAIN s : i < j => s[i] < s[j]

\* Entries are found by normalised names.
FindByName(entries, name) ==
    IF Key(name) \in DOMAIN entries THEN entries[Key(name)] ELSE NoEntry

AsSpelled(name) == name                      \* variant: names are not normalised
NormalizedName(name) == Key(name)

\* A file's entry is new, or the same as the one there is; or building fails.
AddFile(entries, entry) ==
    LET name == NormalizedName(entry.name) IN
    IF entries = Failed \/ entry.shape = Malformed THEN Failed
    ELSE IF name \notin DOMAIN entries
    THEN [k \in DOMAIN entries \cup {name} |-> IF k = name THEN entry ELSE entries[k]]
    ELSE IF entries[name] = entry THEN entries ELSE Failed

\* The entries after n files, beginning with none.
BuiltFrom(files) ==
    LET built[n \in 0 .. Len(files)] ==
            IF n = 0 THEN <<>> ELSE AddFile(built[n - 1], File(files[n]))
    IN  built

\* The constructor: what is built from all files, or Failed.
Build(list) ==
    LET files == DiscoverTopologyFiles(list)
    IN  IF files = <<>> THEN Failed ELSE BuiltFrom(files)[Len(files)]

Loadable == {NormalizeSearchRoots(l) : l \in RootLists} \cup {DefaultRoots}

\* What each list of roots is built to.
Registry == [l \in Loadable |-> Build(l)]

ASSUME RegistryAssumption ==
    /\ MaxChanges \in Nat
    /\ {"unset", "set"} \cap Threads = {}
    /\ \A l \in Loadable : IsFiniteSet(Paths(l)) /\ Paths(l) \subseteq Int

Init ==
    /\ configured = <<>>
    /\ registry = [number |-> 0, entries |-> <<>>]
    /\ loadedRoots = <<>>
    /\ topologies = [sound |-> TRUE, shapes |-> <<>>]
    /\ initFlag = "unset"
    /\ pc = [t \in Threads |-> "idle"]
    /\ request = [t \in Threads |-> NoRequest]
    /\ reference = [t \in Threads |-> 0]
    /\ outcome = [t \in Threads |-> Result("none", NoShape, NoShape)]
    /\ changes = 0 /\ began = [t \in Threads |-> 0] /\ initializedAt = 0

Goto(t, step) == pc' = [pc EXCEPT ![t] = step]
Ends(t, result) ==
    /\ Goto(t, "idle")
    /\ outcome' = [outcome EXCEPT ![t] = result]
    /\ request' = [request EXCEPT ![t] = NoRequest]
    /\ reference' = [reference EXCEPT ![t] = 0]

SetCrystalTopologySearchRoots(t, list) ==
    /\ pc[t] = "idle" /\ changes < MaxChanges
    /\ configured' = NormalizeSearchRoots(list)
    /\ changes' = changes + 1
    /\ UNCHANGED <<registry, loadedRoots, shared, pc, request, reference, outcome, began>>

Begin(t, kind, name) ==
    /\ pc[t] = "idle"
    /\ request' = [request EXCEPT ![t] = [kind |-> kind, name |-> name]]
    /\ began' = [began EXCEPT ![t] = changes]
    /\ Goto(t, "find")
    /\ outcome' = [outcome EXCEPT ![t] = Result("none", NoShape, NoShape)]
    /\ UNCHANGED <<configured, changes, registry, loadedRoots, shared, reference>>

----------------------------------------------------------------------------
(* instance() *)

UpToDate == registry.number # 0 /\ loadedRoots = TopologySearchRoots

LoadedRootsKept(list) == loadedRoots        \* variant: not told
LoadedRoots(list) == list

\* The registry in place is replaced when its successor is complete.
Instance(t) ==
    IF UpToDate
    THEN /\ reference' = [reference EXCEPT ![t] = registry.number]
         /\ UNCHANGED <<registry, loadedRoots>>
    ELSE /\ Registry[TopologySearchRoots] # Failed
         /\ registry' = [number |-> registry.number + 1, entries |-> Registry[TopologySearchRoots]]
         /\ loadedRoots' = LoadedRoots(TopologySearchRoots)
         /\ reference' = [reference EXCEPT ![t] = registry.number + 1]

InstanceThrows == ~UpToDate /\ Registry[TopologySearchRoots] = Failed

Throw(t) ==
    /\ InstanceThrows
    /\ Ends(t, Result("threw", NoShape, NoShape))
    /\ UNCHANGED <<registry, loadedRoots>>

Dangling(t) == reference[t] # registry.number

----------------------------------------------------------------------------
(* crystalTopologyByName, and sharedCrystalTopology which begins with it *)

Find(t) ==
    /\ pc[t] = "find"
    /\ \/ Instance(t) /\ Goto(t, "found") /\ UNCHANGED <<request, outcome>>
       \/ Throw(t)
    /\ UNCHANGED <<roots, shared>>

Found(t) ==
    /\ pc[t] = "found"
    /\ LET entry == FindByName(registry.entries, request[t].name) IN
       \/ Dangling(t) /\ Ends(t, Result("undefined", NoShape, NoShape))
       \/ ~Dangling(t) /\ entry = NoEntry /\ Ends(t, Result("null", NoShape, NoShape))
       \/ /\ ~Dangling(t) /\ entry # NoEntry
          /\ Goto(t, IF request[t].kind = "find" THEN "use" ELSE "once")
          /\ UNCHANGED <<request, reference, outcome>>
    /\ UNCHANGED <<roots, registry, loadedRoots, shared>>

\* The caller of crystalTopologyByName reads the entry it was given.
Use(t) ==
    /\ pc[t] = "use"
    /\ Ends(t, IF Dangling(t) THEN Result("undefined", NoShape, NoShape)
               ELSE LET e == FindByName(registry.entries, request[t].name)
                    IN  Result("entry", e.shape, e.shape))
    /\ UNCHANGED <<roots, registry, loadedRoots, shared>>

----------------------------------------------------------------------------
(* initializeSharedTopology *)

\* std::call_once: one thread initialises, others wait for it.
CallOnce(t) ==
    /\ pc[t] = "once"
    /\ \/ initFlag = "set" /\ Goto(t, "require") /\ UNCHANGED initFlag
       \/ initFlag = "unset" /\ initFlag' = t /\ Goto(t, "initialize")
    /\ UNCHANGED <<roots, registry, loadedRoots, request, reference, outcome, topologies,
                   initializedAt>>

FlagHeld == initFlag                         \* variant: the flag is not given back
FlagAfterThrow == "unset"

\* The callable: a reference to the registry, of which all entries are taken.
Initialize(t) ==
    /\ pc[t] = "initialize"
    /\ \/ /\ Instance(t) /\ Goto(t, "copy")
          /\ initializedAt' = changes
          /\ UNCHANGED <<request, outcome, initFlag>>
       \/ /\ Throw(t)
          /\ initFlag' = FlagAfterThrow /\ UNCHANGED initializedAt
    /\ UNCHANGED <<roots, topologies>>

Shapes(entries) ==
    [n \in {entries[k].name : k \in DOMAIN entries} |-> FindByName(entries, n).shape]

CopyEntries(t) ==
    /\ pc[t] = "copy"
    /\ topologies' = [sound |-> ~Dangling(t),
                      shapes |-> IF Dangling(t) THEN <<>> ELSE Shapes(registry.entries)]
    /\ initFlag' = "set"
    /\ Goto(t, "require")
    /\ UNCHANGED <<roots, registry, loadedRoots, request, reference, outcome, initializedAt>>

Require(t) ==
    /\ pc[t] = "require"
    /\ \/ Instance(t) /\ Goto(t, "share") /\ UNCHANGED <<request, outcome>>
       \/ Throw(t)
    /\ UNCHANGED <<roots, shared>>

NameAsAsked(name, entry) == name             \* variant
NameOf(name, entry) == entry.name

\* The entry says which of the topologies is meant, whatever the spelling.
Share(t) ==
    /\ pc[t] = "share"
    /\ LET entry == FindByName(registry.entries, request[t].name)
           name == NameOf(request[t].name, entry)
       IN  Ends(t, IF Dangling(t) THEN Result("undefined", NoShape, NoShape)
                   ELSE IF ~topologies.sound
                   THEN Result("undefined topology", NoShape, NoShape)
                   ELSE IF entry = NoEntry \/ name \notin DOMAIN topologies.shapes
                   THEN Result("unsupported", NoShape, NoShape)
                   ELSE Result("shared", topologies.shapes[name], entry.shape))
    /\ UNCHANGED <<roots, registry, loadedRoots, shared>>

Step(t) ==
    Find(t) \/ Found(t) \/ Use(t) \/ CallOnce(t) \/ Initialize(t) \/ CopyEntries(t)
    \/ Require(t) \/ Share(t)

Next ==
    \E t \in Threads :
        \/ \E list \in RootLists : SetCrystalTopologySearchRoots(t, list)
        \/ \E kind \in {"find", "share"}, name \in Names : Begin(t, kind, name)
        \/ Step(t)

\* A thread that runs does not stop within a call.
Spec == Init /\ [][Next]_vars /\ \A t \in Threads : WF_vars(Step(t))

----------------------------------------------------------------------------
(* Correctness *)

\* A registry is loaded only if all its files parse and agree, and then holds
\* one entry for each name, found under every spelling of it.
LookupExact ==
    registry.number # 0 =>
        LET paths == Paths(loadedRoots) IN
        /\ paths # {}
        /\ \A p \in paths : /\ File(p).shape # Malformed
                            /\ FindByName(registry.entries, File(p).name) = File(p)
        /\ {registry.entries[k] : k \in DOMAIN registry.entries} = {File(p) : p \in paths}

\* A reference goes bad only if the roots were set after it was asked for, and
\* shared topologies only if they were while these were initialised: neither
\* lookups of other threads nor a load that fails replace the registry.
ReferencesLast ==
    \A t \in Threads : /\ outcome[t].is = "undefined" => began[t] < changes
                       /\ outcome[t].is = "undefined topology" => initializedAt < changes

\* A shared topology is the registry's of that name, and there is one if there
\* is an entry, unless the roots were set after the topologies were initialised.
SharedAgrees ==
    \A t \in Threads :
        \/ outcome[t].is = "unsupported"
        \/ outcome[t].is = "shared" /\ outcome[t].shape # outcome[t].expected
        => began[t] < changes \/ initializedAt < changes

\* Every call returns or throws: a failed initialisation is not waited for.
CallsEnd == \A t \in Threads : pc[t] # "idle" ~> pc[t] = "idle"
=============================================================================
