------------------------------- MODULE Doctor -------------------------------
(***************************************************************************)
(* From a configuration file to a running service: what filerouter-doctor  *)
(* looks at and repairs (cli/doctor.py), what load_config and              *)
(* build_service need (config/, service/runner.py, core/layout.py), and    *)
(* the accounts, the doctor's, the operator's and the service's, whose     *)
(* directories these are.                                                  *)
(*                                                                         *)
(* A configuration is the set of what is wrong with it, or with the keys,  *)
(* programs and volumes it names.  The directories are those it names and  *)
(* those above and below them.                                             *)
(***************************************************************************)
EXTENDS Naturals, Sequences, FiniteSets, SequencesExt

CONSTANTS Account, Service,    \* accounts, and the one of the service
          Privileged,          \* accounts no right is denied to
          Dir, Above,          \* directories, and those above each of them
          Bases, Out, In, Root,\* base_folders, exchange.out and .in, runtime.root
          Subs,                \* the directories of runtime/, in order
          Configs,             \* what may be wrong
          MaxSessions, MaxLaunches, \* bounds
          MaxOdd               \* bound on what is in the way at the start

(* What may be wrong with the file, with its structure, with what it means, *)
(* with what it names, and with the keys and programs: the binary it names, *)
(* the key files and the passphrase are looked at by the start alone.       *)
OfFile   == {"absent", "unparsable", "noMapping"}
OfForm   == {"schema", "incomplete", "noValidator"}
OfSense  == {"duplicate", "noPlaceholder", "anchors"}
OfNames  == {"unknownAlias", "volumes"}
OfCrypto == {"module", "onPath", "binary", "home", "keys", "keyFiles", "passphrase"}
Defects  == OfFile \cup OfForm \cup OfSense \cup OfNames \cup OfCrypto

Config == [backend : {"noop", "gnupg", "pgpy"}, bundled : BOOLEAN, defects : SUBSET Defects]

Chain(d) == Above[d] \cup {d}

ASSUME DoctorAssumption ==
    /\ Service \in Account /\ Privileged \subseteq Account
    /\ Above \in [Dir -> SUBSET Dir]
    /\ \A d \in Dir : d \notin Above[d] /\ \A a \in Above[d] : Above[a] \subseteq Above[d]
    /\ Bases \in Seq(Dir) /\ Subs \in Seq(Dir) /\ {Out, In, Root} \subseteq Dir
    /\ \A d \in ToSet(Subs) : Above[d] = Chain(Root)
    /\ Configs \subseteq Config
    /\ {MaxSessions, MaxLaunches, MaxOdd} \subseteq Nat

VARIABLES
    config,   \* the configuration, chosen once
    kind,     \* what is at the path of each directory
    writers,  \* the accounts that may read and write it
    doctor,   \* a run of the doctor
    launch,   \* a start of the service, or of a command of the CLI
    clean,    \* history: accounts whose doctor has exited with 0
    sessions, launches

vars == <<config, kind, writers, doctor, launch, clean, sessions, launches>>
disk == <<kind, writers>>

Bad(defect) == defect \in config.defects
Can(who, d) == who \in Privileged \cup writers[d]
Sound == \A d \in Dir : kind[d] # "missing" => \A a \in Above[d] : kind[a] = "dir"

Init ==
    /\ config \in Configs
    /\ kind \in [Dir -> {"missing", "dir", "file"}]
    /\ Sound
    /\ \E closed \in SUBSET {d \in Dir : kind[d] = "dir"} :
         /\ writers = [d \in Dir |-> IF kind[d] # "dir" \/ d \in closed THEN {} ELSE Account]
         /\ Cardinality(closed \cup {d \in Dir : kind[d] = "file"}) <= MaxOdd
    /\ doctor = [pc |-> "idle"] /\ launch = [pc |-> "idle"]
    /\ clean = {} /\ sessions = 0 /\ launches = 0

-----------------------------------------------------------------------------
(* Path.mkdir(parents=True, exist_ok=True).  What it makes belongs to the  *)
(* account that makes it; what is there keeps its owner.                   *)

MayMakeThrough(who, d) == \* slip: a file in the way is not noticed
    kind[d] # "missing" \/ \A a \in Above[d] : kind[a] = "dir" => Can(who, a)

MayMake(who, d) ==
    LET there == {a \in Above[d] : kind[a] = "dir"}
        IsNearest(a) == \A b \in there : b = a \/ b \in Above[a]
    IN  /\ \A a \in Chain(d) : kind[a] # "file"
        /\ kind[d] = "missing" => \A a \in there : IsNearest(a) => Can(who, a)

Make(who, d) ==
    LET made == {a \in Chain(d) : kind[a] = "missing"}
    IN  /\ kind' = [a \in Dir |-> IF a \in made THEN "dir" ELSE kind[a]]
        /\ writers' = [a \in Dir |-> IF a \in made THEN {who} ELSE writers[a]]

-----------------------------------------------------------------------------
(* The checks.  A finding is its level and the directory that its fixer    *)
(* makes; several findings of one check that differ in their words are one *)

Finding(level) == [level |-> level, mends |-> {}]
Verdict(wrong) == <<Finding(IF wrong THEN "error" ELSE "ok")>>

DirFinding(who, d) ==
    CASE kind[d] = "missing" -> [level |-> "error", mends |-> {d}]
      [] kind[d] = "file" -> Finding("error")
      [] kind[d] = "dir" -> Finding(IF Can(who, d) THEN "ok" ELSE "error")

IllFormed == config.defects \cap {"schema", "incomplete", "noPlaceholder"} # {}
Structure == Verdict(IllFormed /\ ~Bad("noValidator"))
Senseless == config.defects \cap {"duplicate", "noPlaceholder", "anchors"} # {}
Semantics == Verdict(Senseless)
BaseFolders(who) == [i \in DOMAIN Bases |-> DirFinding(who, Bases[i])]

ExchangeOnly(who) == <<DirFinding(who, Out), DirFinding(who, In)>> \* slip: not the runtime
ExchangeAndRuntime(who) ==
    <<DirFinding(who, Out), DirFinding(who, In), DirFinding(who, Root)>>

(* Before the directories exist there is nothing to compare.               *)
SameVolume ==
    IF "missing" \in {kind[Root], kind[Out]} THEN <<Finding("warn")>>
    ELSE Verdict(Bad("volumes"))

RuleAliases == Verdict(Bad("unknownAlias"))

Crypto == Verdict(CASE config.backend = "noop" -> FALSE
                    [] config.backend = "pgpy" -> Bad("module")
                    [] config.backend = "gnupg" ->
                         config.defects \cap {"module", "onPath", "home", "keys"} # {})

(* diagnose(): yaml.YAMLError is no ConfigError, and the checks go on with *)
(* a structure that was found invalid: entry["alias"] is a KeyError.       *)
Raises == Bad("unparsable") \/ Bad("incomplete")
Unloaded == Bad("absent") \/ Bad("noMapping")
Diagnosis(who) ==
    IF Unloaded THEN <<Finding("error")>>
    ELSE Structure \o Semantics \o BaseFolders(who) \o ExchangeAndRuntime(who)
            \o SameVolume \o RuleAliases \o Crypto

Errors(findings) == Cardinality({i \in DOMAIN findings : findings[i].level = "error"})

(* The findings that have a fixer, and what it makes.                      *)
Fixes(findings) ==
    [i \in {j \in DOMAIN findings : findings[j].mends # {}} |-> findings[i].mends]

-----------------------------------------------------------------------------
(* A run of the doctor, as `filerouter-doctor` or `filerouter doctor`.     *)
(* What it prints is left out.                                             *)

Raised == [pc |-> "raised"]

Diagnose(who, fix) ==
    /\ doctor.pc # "round" /\ sessions < MaxSessions
    /\ sessions' = sessions + 1
    /\ doctor' = IF Raises THEN Raised
                 ELSE [pc |-> "round", who |-> who, applied |-> 0,
                       fixes |-> IF fix THEN Fixes(Diagnosis(who)) ELSE <<>>,
                       errors |-> Errors(Diagnosis(who))]
    /\ UNCHANGED <<config, disk, launch, clean, launches>>

Asking == doctor.pc = "round" /\ DOMAIN doctor.fixes # {}

(* The fixes are gone through in the order of the findings.                *)
Offered(i) == i \in DOMAIN doctor.fixes /\ \A j \in DOMAIN doctor.fixes : i <= j
Rest(i) == [j \in DOMAIN doctor.fixes \ {i} |-> doctor.fixes[j]]

(* The operator says no; --yes is an operator who never does.              *)
Decline ==
    /\ Asking
    /\ \E i \in DOMAIN doctor.fixes :
         Offered(i) /\ doctor' = [doctor EXCEPT !.fixes = Rest(i)]
    /\ UNCHANGED <<config, disk, launch, clean, sessions, launches>>

(* The fixer makes what was missing when the diagnosis was made.           *)
Apply ==
    /\ Asking
    /\ \E i \in DOMAIN doctor.fixes :
         /\ Offered(i)
         /\ \E d \in doctor.fixes[i] : MayMake(doctor.who, d) /\ Make(doctor.who, d)
         /\ doctor' = [doctor EXCEPT !.fixes = Rest(i), !.applied = @ + 1]
    /\ UNCHANGED <<config, launch, clean, sessions, launches>>

(* mkdir raises, and nothing catches it: the run ends in its middle.       *)
ApplyRaises ==
    /\ Asking
    /\ \E i \in DOMAIN doctor.fixes :
         Offered(i) /\ \E d \in doctor.fixes[i] : ~MayMake(doctor.who, d)
    /\ doctor' = Raised
    /\ UNCHANGED <<config, disk, launch, clean, sessions, launches>>

Exit(errors) ==
    /\ doctor.pc = "round" /\ ~Asking
    /\ doctor' = [pc |-> "exited", code |-> IF errors > 0 THEN 1 ELSE 0]
    /\ clean' = IF errors > 0 THEN clean ELSE clean \cup {doctor.who}

ConcludeByCount == \* slip: no new diagnosis, the errors not repaired are counted
    /\ Exit(doctor.errors - doctor.applied)
    /\ UNCHANGED <<config, disk, launch, sessions, launches>>

(* The code is that of the last diagnosis, made again after a repair.      *)
Conclude ==
    /\ Exit(IF doctor.applied > 0 THEN Errors(Diagnosis(doctor.who)) ELSE doctor.errors)
    /\ UNCHANGED <<config, disk, launch, sessions, launches>>

-----------------------------------------------------------------------------
(* A start of the service, by its account, or a command of the CLI that    *)
(* builds the same context, by anyone.                                     *)

(* load_config: YAML, schema, semantics, then the typed configuration.     *)
Rejected ==
    \/ Unloaded \/ Bad("unparsable") \/ Bad("incomplete")
    \/ (IllFormed /\ ~Bad("noValidator")) \/ Senseless

Launch(what, who) ==
    /\ launch.pc \in {"idle", "failed"} /\ launches < MaxLaunches
    /\ launches' = launches + 1
    /\ \/ /\ ~Rejected
          /\ launch' = [pc |-> "ensuring", what |-> what, who |-> who, next |-> 1,
                        cleared |-> who \in clean]
       \/ /\ (Rejected \/ Bad("schema"))    \* build_config may convert it, or raise
          /\ launch' = [pc |-> "failed", what |-> what, who |-> who, next |-> 0,
                        cleared |-> who \in clean]
    /\ UNCHANGED <<config, disk, doctor, clean, sessions>>

Layout == Subs \o <<Out, In>>

(* RuntimeLayout.ensure, one directory after the other.                    *)
Ensure ==
    /\ launch.pc = "ensuring" /\ launch.next <= Len(Layout)
    /\ MayMake(launch.who, Layout[launch.next])
    /\ Make(launch.who, Layout[launch.next])
    /\ launch' = [launch EXCEPT !.next = @ + 1]
    /\ UNCHANGED <<config, doctor, clean, sessions, launches>>

EnsureRaises ==
    /\ launch.pc = "ensuring" /\ launch.next <= Len(Layout)
    /\ ~MayMake(launch.who, Layout[launch.next])
    /\ launch' = [launch EXCEPT !.pc = "failed"]
    /\ UNCHANGED <<config, disk, doctor, clean, sessions, launches>>

(* _build_crypto: the constructor of the provider, and the passphrase.  No *)
(* key is looked at.                                                       *)
CryptoFails ==
    CASE config.backend = "noop" -> FALSE
      [] config.backend = "pgpy" -> Bad("module") \/ Bad("passphrase")
      [] config.backend = "gnupg" ->
            \/ config.defects \cap {"module", "passphrase", "home"} # {}
            \/ Bad(IF config.bundled THEN "binary" ELSE "onPath")

Wire ==
    /\ launch.pc = "ensuring" /\ launch.next > Len(Layout)
    /\ launch' = CASE CryptoFails -> [launch EXCEPT !.pc = "failed"]
                   [] ~CryptoFails /\ launch.what = "service" -> [launch EXCEPT !.pc = "wired"]
                   [] ~CryptoFails /\ launch.what = "command" -> [pc |-> "idle"]
    /\ UNCHANGED <<config, disk, doctor, clean, sessions, launches>>

(* The reconciliation reads the directories of runtime/.                   *)
Reconcile ==
    /\ launch.pc = "wired"
    /\ launch' = [launch EXCEPT
         !.pc = IF \A d \in ToSet(Subs) : Can(launch.who, d) THEN "running" ELSE "failed"]
    /\ UNCHANGED <<config, disk, doctor, clean, sessions, launches>>

Stop ==
    /\ launch.pc = "running"
    /\ launch' = [pc |-> "idle"]
    /\ UNCHANGED <<config, disk, doctor, clean, sessions, launches>>

-----------------------------------------------------------------------------
(* An administrator opens a directory to the service.                      *)
Grant(d) ==
    /\ kind[d] = "dir" /\ Service \notin writers[d]
    /\ writers' = [writers EXCEPT ![d] = Account]
    /\ UNCHANGED <<config, kind, doctor, launch, clean, sessions, launches>>

DoctorStep == Decline \/ Apply \/ ApplyRaises \/ Conclude
LaunchStep == Ensure \/ EnsureRaises \/ Wire \/ Reconcile

Next ==
    \/ \E who \in Account, fix \in BOOLEAN : Diagnose(who, fix)
    \/ DoctorStep
    \/ Launch("service", Service) \/ \E who \in Account : Launch("command", who)
    \/ LaunchStep \/ Stop
    \/ \E d \in Dir : Grant(d)

Spec == Init /\ [][Next]_vars

-----------------------------------------------------------------------------
TypeOK ==
    /\ config \in Configs
    /\ kind \in [Dir -> {"missing", "dir", "file"}] /\ Sound
    /\ writers \in [Dir -> SUBSET Account]
    /\ doctor.pc \in {"idle", "round", "exited", "raised"}
    /\ launch.pc \in {"idle", "ensuring", "wired", "running", "failed"}
    /\ doctor.pc = "round" => doctor.applied + Cardinality(DOMAIN doctor.fixes) <= doctor.errors
    /\ launch.pc = "ensuring" => launch.next \in 1..Len(Layout) + 1
    /\ clean \subseteq Account /\ sessions <= MaxSessions /\ launches <= MaxLaunches

(***************************************************************************)
(* An exit code of 0 is worth something: whatever was missing and repaired *)
(* on the way, and whoever worked beside it, the account the doctor ran    *)
(* under has every directory of the configuration, the runtime and the     *)
(* exchange share a volume, and nothing the doctor looks at is wrong       *)
(* (doctor.py:399-415).                                                    *)
(***************************************************************************)
Diagnosed == ToSet(Bases) \cup {Out, In, Root}
Sought == {"absent", "noMapping", "unparsable", "incomplete", "noPlaceholder", "duplicate",
           "anchors", "unknownAlias", "volumes"}

CleanMeansUsable ==
    \A who \in clean :
        /\ \A d \in Diagnosed : kind[d] = "dir" /\ Can(who, d)
        /\ config.defects \cap Sought = {}
        /\ Bad("schema") => Bad("noValidator")
        /\ config.backend # "noop" => ~Bad("module")
        /\ config.backend = "gnupg" => config.defects \cap {"onPath", "home", "keys"} = {}

(***************************************************************************)
(* If the doctor exits with 0 under the account of the service, the start  *)
(* that follows fails only for what the doctor does not look at: a file    *)
(* with the passphrase, a gpg of the configuration's own, a structure      *)
(* nothing validated, and directories below runtime.root that another      *)
(* account has made (runner.py:89, doctor.py:388).                         *)
(***************************************************************************)
OthersWereHere == \E d \in ToSet(Subs) :
    kind[d] = "file" \/ (kind[d] = "dir" /\ ~Can(Service, d))

StartsIfClean ==
    [][launch.pc # "failed" /\ launch'.pc = "failed"
            /\ launch'.what = "service" /\ launch'.cleared =>
        \/ config.backend # "noop" /\ Bad("passphrase")
        \/ config.backend = "gnupg" /\ config.bundled /\ Bad("binary")
        \/ Bad("schema") /\ Bad("noValidator")
        \/ OthersWereHere]_vars

-----------------------------------------------------------------------------
(* What the documents say.                                                 *)

(***************************************************************************)
(* "Anticipates problems before production"                                *)
(* (docs/en/13-operations-guide.md:32): a start that fails was announced.  *)
(***************************************************************************)
FailureWasAnnounced ==
    launch.pc = "failed" /\ launch.what = "service" => ~launch.cleared
=============================================================================
