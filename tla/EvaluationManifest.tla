------------------------- MODULE EvaluationManifest -------------------------
(***************************************************************************)
(* The tool that derives an IO500 profile from a request for phases and    *)
(* writes the effective config and its manifest                            *)
(* (scripts/legofs_evaluation_manifest.py).  IO500 (external) later runs,   *)
(* in the order of its mode, the phases that the effective config enables. *)
(***************************************************************************)
EXTENDS Naturals, Sequences, FiniteSets, Functions

CONSTANTS
    MaxInvocations, \* bound: times the tool is run with the same two outputs
    MaxRequested,   \* bound: phases of Requestable named with --enable-phase
    Requestable,    \* the phases several of which may be asked for together
    CustomGroups    \* the groups a custom config may disable

EXTENDED_PHASE_ORDER ==
    << "ior-easy-write", "ior-rnd4K-write", "mdtest-easy-write", "ior-rnd1MB-write",
       "mdworkbench-create", "find-easy", "ior-hard-write", "mdtest-hard-write",
       "find", "ior-rnd4K-read", "ior-rnd1MB-read", "find-hard", "mdworkbench-bench",
       "ior-easy-read", "mdtest-easy-stat", "ior-hard-read", "mdtest-hard-stat",
       "mdworkbench-delete", "mdtest-easy-delete", "mdtest-hard-read",
       "mdtest-hard-delete", "ior-rnd4K-easy-read" >>
ExtendedOnly ==
    {"ior-rnd4K-write", "ior-rnd4K-read", "ior-rnd1MB-write", "ior-rnd1MB-read",
     "mdworkbench-create", "mdworkbench-bench", "mdworkbench-delete", "find-easy",
     "find-hard"}
InStandard(p) == p \notin ExtendedOnly
IO500_MODES ==
    [standard |-> SelectSeq(EXTENDED_PHASE_ORDER, InStandard), extended |-> EXTENDED_PHASE_ORDER]

Phases == Range(EXTENDED_PHASE_ORDER)
Groups ==
    {"ior-easy", "mdtest-easy", "ior-hard", "mdtest-hard", "ior-rnd4K", "ior-rnd1MB",
     "mdworkbench"}
PHASE_GROUP(p) ==   \* the group of a phase, if it has one
    CASE p \in {"ior-easy-write", "ior-easy-read"} -> {"ior-easy"}
      [] p \in {"mdtest-easy-write", "mdtest-easy-stat", "mdtest-easy-delete"} -> {"mdtest-easy"}
      [] p \in {"ior-hard-write", "ior-hard-read"} -> {"ior-hard"}
      [] p \in {"mdtest-hard-write", "mdtest-hard-stat", "mdtest-hard-read",
                "mdtest-hard-delete"} -> {"mdtest-hard"}
      [] p \in {"ior-rnd4K-write", "ior-rnd4K-read", "ior-rnd4K-easy-read"} -> {"ior-rnd4K"}
      [] p \in {"ior-rnd1MB-write", "ior-rnd1MB-read"} -> {"ior-rnd1MB"}
      [] p \in {"mdworkbench-create", "mdworkbench-bench", "mdworkbench-delete"} ->
            {"mdworkbench"}
      [] OTHER -> {}

PHASE_PREREQUISITES(p) ==
    CASE p \in {"ior-easy-read", "ior-rnd4K-easy-read"} -> {"ior-easy-write"}
      [] p = "ior-hard-read" -> {"ior-hard-write"}
      [] p = "ior-rnd4K-read" -> {"ior-rnd4K-write"}
      [] p = "ior-rnd1MB-read" -> {"ior-rnd1MB-write"}
      [] p \in {"mdtest-easy-stat", "mdtest-easy-delete", "find-easy"} -> {"mdtest-easy-write"}
      [] p \in {"mdtest-hard-stat", "mdtest-hard-read", "mdtest-hard-delete", "find-hard"} ->
            {"mdtest-hard-write"}
      [] p = "find" -> {"mdtest-easy-write", "mdtest-hard-write"}
      [] p \in {"mdworkbench-bench", "mdworkbench-delete"} -> {"mdworkbench-create"}
      [] OTHER -> {}

VARIABLES
    invocations,
    ask,        \* the command line and the source config
    pc,
    closure,    \* derive_profile's closure
    todo,       \* derive_profile's pending
    profile,    \* what derive_profile returns
    config,     \* the effective config on disk: the sections that IO500 runs
    manifest    \* the manifest on disk, if any
vars == <<invocations, ask, pc, closure, todo, profile, config, manifest>>

None == "none"
RUN_SECTIONS == Phases \cup Groups
Changes == {"none", "stonewall", "items", "invalid"}

(* The pinned standard config sets no run flag, and IO500 (external) runs a  *)
(* section without one.  A custom config may set any, or leave one out.      *)
Asks ==
    [source : {"standard"}, run : {RUN_SECTIONS}, explicit : {FALSE},
     mode : DOMAIN IO500_MODES, change : Changes,
     enable : { S \in SUBSET Requestable : Cardinality(S) <= MaxRequested }
              \cup { {p} : p \in Phases }]
    \cup
    [source : {"custom"}, explicit : BOOLEAN,
     run : { P \cup (Groups \ G) : P \in SUBSET Requestable, G \in SUBSET CustomGroups },
     mode : DOMAIN IO500_MODES, change : {"none", "items"}, enable : {{}, {"find"}}]

Init ==
    /\ invocations = 0 /\ ask = None /\ pc = "idle"
    /\ closure = {} /\ todo = <<>> /\ profile = None
    /\ config = {} /\ manifest = {}

-----------------------------------------------------------------------------
ModeOrder == IO500_MODES[ask.mode]
InOrder(S) == LET In(p) == p \in S IN SelectSeq(ModeOrder, In)

(* What a run of IO500 with the sections of run switched on executes.       *)
Enabled(p, run) == {p} \cup PHASE_GROUP(p) \subseteq run
configured_phases(run) == InOrder({ p \in Phases : Enabled(p, run) })

Idle == pc' = "idle" /\ ask' = None /\ closure' = {} /\ todo' = <<>> /\ profile' = None
Derived(p) == pc' = "config" /\ profile' = p /\ UNCHANGED <<ask, closure, todo>>

(* The tool is run, again perhaps, with the same output files.               *)
Invoke ==
    /\ pc = "idle" /\ invocations < MaxInvocations
    /\ ask' \in Asks
    /\ invocations' = invocations + 1 /\ pc' = "derive"
    /\ UNCHANGED <<closure, todo, profile, config, manifest>>

(* A phase outside the mode is refused before the source is looked at; a     *)
(* custom config is taken as it is, when it is closed.                       *)
Available == ask.enable \subseteq Range(ModeOrder)
CustomIsClosed ==
    LET phases == Range(configured_phases(ask.run))
    IN  phases # {} /\ \A p \in phases : PHASE_PREREQUISITES(p) \subseteq phases

derive_custom ==
    /\ pc = "derive" /\ ask.source = "custom"
    /\ IF /\ Available /\ ask.enable = {} /\ ask.change = "none"
          /\ ask.explicit /\ CustomIsClosed
       THEN LET phases == configured_phases(ask.run) IN
            Derived([mode |-> ask.mode, phases |-> phases, requested |-> Range(phases),
                     run |-> ask.run, class |-> "diagnostic-custom-shape"])
       ELSE Idle
    /\ UNCHANGED <<invocations, config, manifest>>

(* Without --enable-phase the pinned profile is kept as it is.               *)
derive_official ==
    /\ pc = "derive" /\ ask.source = "standard" /\ ask.enable = {}
    /\ IF ask.change = "none"
       THEN Derived([mode |-> ask.mode, phases |-> ModeOrder, requested |-> Range(ModeOrder),
                     run |-> ask.run, class |-> "official-shape"])
       ELSE Idle
    /\ UNCHANGED <<invocations, config, manifest>>

(* A set is walked in any order.                                            *)
Orders(S) == Bijection(1 .. Cardinality(S), S)

derive_begins ==
    /\ pc = "derive" /\ ask.source = "standard" /\ ask.enable # {}
    /\ IF Available
       THEN /\ pc' = "closing" /\ closure' = ask.enable
            /\ todo' \in Orders(ask.enable) /\ UNCHANGED <<ask, profile>>
       ELSE Idle
    /\ UNCHANGED <<invocations, config, manifest>>

NewPrerequisites(p) == PHASE_PREREQUISITES(p) \ closure

(* One turn of the loop; the order of a phase's prerequisites is a tuple's.  *)
derive_pops ==
    /\ pc = "closing" /\ todo # <<>>
    /\ LET new == NewPrerequisites(todo[Len(todo)]) IN
        /\ closure' = closure \cup new
        /\ \E s \in Orders(new) : todo' = SubSeq(todo, 1, Len(todo) - 1) \o s
    /\ UNCHANGED <<invocations, ask, pc, profile, config, manifest>>

(* Mutant: only the phases' own sections are switched on.                    *)
EnabledPhasesOnly(phases) == phases

enabled_sections(phases) == phases \cup UNION { PHASE_GROUP(p) : p \in phases }

HasMdtest(phases) == \E p \in phases : PHASE_GROUP(p) \cap {"mdtest-easy", "mdtest-hard"} # {}

derive_ends ==
    /\ pc = "closing" /\ todo = <<>>
    /\ LET ordered == InOrder(closure) IN
        IF ask.change = "invalid" \/ (ask.change = "items" /\ ~HasMdtest(closure)) THEN Idle
        ELSE Derived([mode |-> ask.mode, phases |-> ordered, requested |-> ask.enable,
                      run |-> enabled_sections(Range(ordered)),
                      class |-> "diagnostic-upstream-shape"])
    /\ UNCHANGED <<invocations, config, manifest>>

(* resolve_artifacts may refuse the build; then write_atomic replaces the    *)
(* config.                                                                  *)
WritesConfig ==
    /\ pc = "config"
    /\ \/ Idle /\ UNCHANGED config
       \/ pc' = "manifest" /\ config' = profile.run /\ UNCHANGED <<ask, closure, todo, profile>>
    /\ UNCHANGED <<invocations, manifest>>

phase_evidence ==
    [ p \in Range(profile.phases) |-> IF p \in profile.requested THEN "measurement" ELSE "setup" ]

(* The manifest is replaced last, unless the tool is killed before.          *)
WritesManifest ==
    /\ pc = "manifest"
    /\ Idle
    /\ \/ UNCHANGED manifest
       \/ manifest' = {[mode |-> profile.mode, execution |-> profile.phases,
                        requested |-> profile.requested, records |-> phase_evidence,
                        effective |-> profile.run, class |-> profile.class]}
    /\ UNCHANGED <<invocations, config>>

Next ==
    \/ Invoke \/ derive_custom \/ derive_official \/ derive_begins \/ derive_pops
    \/ derive_ends \/ WritesConfig \/ WritesManifest
Spec == Init /\ [][Next]_vars

-----------------------------------------------------------------------------
(* A manifest whose digest is that of the config on disk tells what a run of  *)
(* that config does, whichever invocation wrote either and wherever one was   *)
(* killed: the same phases in the same order, every phase after all that it   *)
(* needs, nothing but what was asked for and what that needs, exactly what    *)
(* was asked for as a measurement, and the whole mode when it says official   *)
(* shape (derive_profile, phase_evidence).                                    *)
Needs(S) == S \cup UNION { PHASE_PREREQUISITES(p) : p \in S }
ManifestTellsTheRun ==
    \A m \in manifest : m.effective = config =>
        LET Runs(p) == Enabled(p, config)
            runs == SelectSeq(IO500_MODES[m.mode], Runs)
        IN  /\ m.execution = runs
            /\ \A i \in DOMAIN runs :
                    PHASE_PREREQUISITES(runs[i]) \subseteq { runs[j] : j \in 1 .. i - 1 }
            /\ Range(runs) = Needs(m.requested)
            /\ m.requested = { p \in Range(runs) : m.records[p] = "measurement" }
            /\ m.class = "official-shape" => runs = IO500_MODES[m.mode]
=============================================================================
