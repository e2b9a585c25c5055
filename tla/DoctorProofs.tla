---------------------------- MODULE DoctorProofs ----------------------------
(***************************************************************************)
(* What an exit code of 0 of the doctor is worth, for any configuration,   *)
(* directories and accounts, any number of runs and of starts.             *)
(***************************************************************************)
EXTENDS Doctor, TLAPS, FiniteSetTheorems, SequenceTheorems

Kinds == {"missing", "dir", "file"}

(* A finding with a fixer is an error.                                     *)
Findings ==
    {f \in [level : {"ok", "warn", "error"}, mends : SUBSET Dir] :
        f.mends # {} => f.level = "error"}
Clear(findings) == \A i \in DOMAIN findings : findings[i].level # "error"

Disk ==
    /\ config \in Configs
    /\ kind \in [Dir -> Kinds] /\ Sound
    /\ writers \in [Dir -> SUBSET Account]
    /\ clean \in SUBSET Account

Counts ==
    /\ sessions \in Nat /\ sessions <= MaxSessions
    /\ launches \in Nat /\ launches <= MaxLaunches

(* What CleanMeansUsable says of one account.                              *)
Usable(who) ==
    /\ \A d \in Diagnosed : kind[d] = "dir" /\ Can(who, d)
    /\ config.defects \cap Sought = {}
    /\ Bad("schema") => Bad("noValidator")
    /\ config.backend # "noop" => ~Bad("module")
    /\ config.backend = "gnupg" => config.defects \cap {"onPath", "home", "keys"} = {}

IsRound(d) ==
    /\ d = [pc |-> "round", who |-> d.who, applied |-> d.applied,
            fixes |-> d.fixes, errors |-> d.errors]
    /\ d.who \in Account /\ d.applied \in Nat /\ d.errors \in Nat
    /\ IsFiniteSet(DOMAIN d.fixes)
    /\ \A i \in DOMAIN d.fixes : d.fixes[i] \subseteq Dir
    /\ d.applied + Cardinality(DOMAIN d.fixes) <= d.errors

(* While nothing has been repaired, what the round found is so.            *)
Rounds ==
    /\ doctor.pc \in {"idle", "round", "exited", "raised"}
    /\ doctor.pc = "round" =>
         /\ IsRound(doctor)
         /\ ~Raises
         /\ doctor.errors = 0 => Usable(doctor.who)

Started == {"ensuring", "wired", "running"}
IsLaunch(l) ==
    /\ l = [pc |-> l.pc, what |-> l.what, who |-> l.who, next |-> l.next,
            cleared |-> l.cleared]
    /\ l.who \in Account
    /\ l.what \in {"service", "command"}
    /\ l.what = "service" => l.who = Service
    /\ l.next \in 1..Len(Layout) + 1

(* The directories ensured so far are there.                               *)
Launches ==
    /\ launch.pc \in Started \cup {"idle", "failed"}
    /\ launch.pc \in Started =>
         /\ IsLaunch(launch)
         /\ launch.cleared => launch.who \in clean
         /\ \A i \in 1..launch.next - 1 : kind[Layout[i]] = "dir"
         /\ launch.pc = "wired" => launch.next > Len(Layout)

CleanIsUsable == \A who \in clean : Usable(who)

IInv == Disk /\ Counts /\ Rounds /\ Launches /\ CleanIsUsable

-----------------------------------------------------------------------------
(* Findings.                                                               *)

LEMMA ErrorsCount ==
    ASSUME NEW f \in Seq(Findings)
    PROVE  /\ Errors(f) \in Nat
           /\ Errors(f) = 0 => Clear(f)
           /\ IsFiniteSet(DOMAIN Fixes(f))
           /\ Cardinality(DOMAIN Fixes(f)) <= Errors(f)
           /\ \A i \in DOMAIN Fixes(f) : Fixes(f)[i] \subseteq Dir
<1> DEFINE wrong == {i \in DOMAIN f : f[i].level = "error"}
           fixable == {j \in DOMAIN f : f[j].mends # {}}
<1>1. DOMAIN f = 1..Len(f) /\ Len(f) \in Nat
    OBVIOUS
<1>2. IsFiniteSet(DOMAIN f)
    BY <1>1, FS_Interval
<1>3. IsFiniteSet(wrong) /\ Cardinality(wrong) \in Nat
    BY <1>2, FS_Subset, FS_CardinalityType
<1>4. fixable \subseteq wrong
    BY <1>1 DEF Findings
<1>5. IsFiniteSet(fixable) /\ Cardinality(fixable) <= Cardinality(wrong)
    BY <1>3, <1>4, FS_Subset
<1>6. DOMAIN Fixes(f) = fixable /\ \A i \in fixable : Fixes(f)[i] = f[i].mends
    BY DEF Fixes
<1>7. Cardinality(wrong) = 0 => wrong = {}
    BY <1>3, FS_EmptySet
<1>8. \A i \in DOMAIN f : f[i].mends \subseteq Dir
    BY <1>1 DEF Findings
<1>9. Errors(f) = Cardinality(wrong)
    BY DEF Errors
<1>10. wrong = {} => Clear(f)
    BY DEF Clear
<1> HIDE DEF wrong, fixable
<1>11. \A i \in DOMAIN Fixes(f) : Fixes(f)[i] \subseteq Dir
    BY <1>6, <1>8, <1>4 DEF fixable
<1> QED
    BY <1>3, <1>5, <1>6, <1>7, <1>9, <1>10, <1>11

LEMMA ClearParts ==
    ASSUME NEW f \in Seq(Findings), NEW g \in Seq(Findings), Clear(f \o g)
    PROVE  Clear(f) /\ Clear(g)
<1>1. Clear(f)
    <2> SUFFICES ASSUME NEW i \in 1..Len(f) PROVE f[i].level # "error"
        BY DEF Clear
    <2>1. i \in DOMAIN (f \o g) /\ (f \o g)[i] = f[i]
        OBVIOUS
    <2> QED
        BY <2>1 DEF Clear
<1>2. Clear(g)
    <2> SUFFICES ASSUME NEW i \in 1..Len(g) PROVE g[i].level # "error"
        BY DEF Clear
    <2>1. Len(f) + i \in DOMAIN (f \o g) /\ (f \o g)[Len(f) + i] = g[i]
        OBVIOUS
    <2> QED
        BY <2>1 DEF Clear
<1> QED
    BY <1>1, <1>2

LEMMA Verdicts ==
    ASSUME NEW wrong, Clear(Verdict(wrong))
    PROVE  ~wrong
<1> SUFFICES ASSUME wrong PROVE FALSE
    OBVIOUS
<1>1. Verdict(wrong) = <<Finding("error")>>
    BY DEF Verdict
<1>2. 1 \in DOMAIN <<Finding("error")>> /\ <<Finding("error")>>[1].level = "error"
    BY DEF Finding
<1> QED
    BY <1>1, <1>2 DEF Clear

LEMMA DirVerdict ==
    ASSUME Disk, NEW who, NEW d \in Dir
    PROVE  /\ DirFinding(who, d) \in Findings
           /\ DirFinding(who, d).level # "error" => kind[d] = "dir" /\ Can(who, d)
<1>1. kind[d] \in Kinds
    BY DEF Disk
<1>2. CASE kind[d] = "missing"
    BY <1>2 DEF DirFinding, Findings
<1>3. CASE kind[d] = "file"
    BY <1>3 DEF DirFinding, Finding, Findings
<1>4. CASE kind[d] = "dir"
    BY <1>4 DEF DirFinding, Finding, Findings
<1> QED
    BY <1>1, <1>2, <1>3, <1>4 DEF Kinds

LEMMA Parts ==
    ASSUME Disk, NEW who
    PROVE  /\ Structure \in Seq(Findings) /\ Semantics \in Seq(Findings)
           /\ BaseFolders(who) \in Seq(Findings) /\ ExchangeAndRuntime(who) \in Seq(Findings)
           /\ SameVolume \in Seq(Findings) /\ RuleAliases \in Seq(Findings)
           /\ Crypto \in Seq(Findings)
<1>0. <<Finding("error")>> \in Seq(Findings) /\ <<Finding("ok")>> \in Seq(Findings)
    BY DEF Finding, Findings
<1>1. Structure \in Seq(Findings)
    BY <1>0 DEF Structure, Verdict
<1>2. Semantics \in Seq(Findings)
    BY <1>0 DEF Semantics, Verdict
<1>3. BaseFolders(who) \in Seq(Findings)
    <2>1. Bases \in Seq(Dir)
        BY DoctorAssumption
    <2>2. \A i \in DOMAIN Bases : DirFinding(who, Bases[i]) \in Findings
        BY <2>1, DirVerdict
    <2>3. \A i \in DOMAIN Bases : BaseFolders(who)[i] \in Findings
        BY <2>2 DEF BaseFolders
    <2>4. DOMAIN BaseFolders(who) = 1..Len(Bases) /\ Len(Bases) \in Nat
        BY <2>1 DEF BaseFolders
    <2>5. BaseFolders(who) \in [1..Len(Bases) -> Findings]
        BY <2>1, <2>2, <2>4 DEF BaseFolders
    <2> QED
        BY <2>4, <2>5, SeqDef
<1>4. ExchangeAndRuntime(who) \in Seq(Findings)
    BY DirVerdict, DoctorAssumption DEF ExchangeAndRuntime
<1>5. SameVolume \in Seq(Findings)
    <2>1. Verdict(Bad("volumes")) \in Seq(Findings)
        BY <1>0 DEF Verdict
    <2>2. <<Finding("warn")>> \in Seq(Findings)
        BY DEF Finding, Findings
    <2> QED
        BY <2>1, <2>2 DEF SameVolume
<1>6. RuleAliases \in Seq(Findings)
    BY <1>0 DEF RuleAliases, Verdict
<1>7. Crypto \in Seq(Findings)
    <2>1. config.backend \in {"noop", "gnupg", "pgpy"}
        BY DoctorAssumption DEF Disk, Config
    <2> QED
        BY <2>1, <1>0 DEF Crypto, Verdict
<1> QED
    BY <1>1, <1>2, <1>3, <1>4, <1>5, <1>6, <1>7

LEMMA DiagnosisType ==
    ASSUME Disk, NEW who
    PROVE  Diagnosis(who) \in Seq(Findings)
<1>1. <<Finding("error")>> \in Seq(Findings)
    BY DEF Finding, Findings
<1>2. \A f, g \in Seq(Findings) : f \o g \in Seq(Findings)
    OBVIOUS
<1> QED
    BY <1>1, <1>2, Parts DEF Diagnosis

LEMMA ClearMeansUsable ==
    ASSUME Disk, NEW who, ~Raises, Clear(Diagnosis(who))
    PROVE  Usable(who)
<1>1. ~Unloaded
    BY DEF Diagnosis, Clear, Finding
<1>2. \A f, g \in Seq(Findings) : f \o g \in Seq(Findings)
    OBVIOUS
<1>3. /\ Clear(Structure) /\ Clear(Semantics) /\ Clear(BaseFolders(who))
      /\ Clear(ExchangeAndRuntime(who)) /\ Clear(SameVolume)
      /\ Clear(RuleAliases) /\ Clear(Crypto)
    <2> DEFINE f2 == Structure \o Semantics
               f3 == f2 \o BaseFolders(who)
               f4 == f3 \o ExchangeAndRuntime(who)
               f5 == f4 \o SameVolume
               f6 == f5 \o RuleAliases
               f7 == f6 \o Crypto
    <2>1. f2 \in Seq(Findings)
        BY <1>2, Parts
    <2>2. f3 \in Seq(Findings)
        BY <1>2, <2>1, Parts
    <2>3. f4 \in Seq(Findings)
        BY <1>2, <2>2, Parts
    <2>4. f5 \in Seq(Findings)
        BY <1>2, <2>3, Parts
    <2>5. f6 \in Seq(Findings)
        BY <1>2, <2>4, Parts
    <2>6. Clear(f7)
        BY <1>1 DEF Diagnosis
    <2>7. Clear(f6) /\ Clear(Crypto)
        BY <2>5, <2>6, Parts, ClearParts
    <2>8. Clear(f5) /\ Clear(RuleAliases)
        BY <2>4, <2>7, Parts, ClearParts
    <2>9. Clear(f4) /\ Clear(SameVolume)
        BY <2>3, <2>8, Parts, ClearParts
    <2>10. Clear(f3) /\ Clear(ExchangeAndRuntime(who))
        BY <2>2, <2>9, Parts, ClearParts
    <2>11. Clear(f2) /\ Clear(BaseFolders(who))
        BY <2>1, <2>10, Parts, ClearParts
    <2>12. Clear(Structure) /\ Clear(Semantics)
        BY <2>11, Parts, ClearParts
    <2> QED
        BY <2>7, <2>8, <2>9, <2>10, <2>11, <2>12
<1>4. \A d \in Diagnosed : kind[d] = "dir" /\ Can(who, d)
    <2>1. \A i \in DOMAIN Bases : kind[Bases[i]] = "dir" /\ Can(who, Bases[i])
        <3> SUFFICES ASSUME NEW i \in DOMAIN Bases
                     PROVE  kind[Bases[i]] = "dir" /\ Can(who, Bases[i])
            OBVIOUS
        <3>1. Bases[i] \in Dir
            BY DoctorAssumption
        <3>2. BaseFolders(who)[i] = DirFinding(who, Bases[i]) /\ i \in DOMAIN BaseFolders(who)
            BY DEF BaseFolders
        <3> QED
            BY <1>3, <3>1, <3>2, DirVerdict DEF Clear
    <2>2. \A d \in {Out, In, Root} : kind[d] = "dir" /\ Can(who, d)
        <3>1. DirFinding(who, Out).level # "error" /\ DirFinding(who, In).level # "error"
                 /\ DirFinding(who, Root).level # "error"
            BY <1>3 DEF ExchangeAndRuntime, Clear
        <3> QED
            BY <3>1, DirVerdict, DoctorAssumption
    <2> QED
        BY <2>1, <2>2 DEF Diagnosed, ToSet
<1>5. /\ ~(IllFormed /\ ~Bad("noValidator")) /\ ~Senseless /\ ~Bad("unknownAlias")
      /\ ~Bad("volumes")
    <2>1. "missing" \notin {kind[Root], kind[Out]}
        BY <1>4 DEF Diagnosed
    <2>2. ~Bad("volumes")
        BY <1>3, <2>1, Verdicts DEF SameVolume, Bad
    <2> QED
        BY <1>3, <2>2, Verdicts DEF Structure, Semantics, RuleAliases, IllFormed, Senseless, Bad
<1>6. config.defects \cap Sought = {}
    BY <1>1, <1>5 DEF Sought, Unloaded, Raises, Senseless, Bad
<1>7. Bad("schema") => Bad("noValidator")
    BY <1>5 DEF IllFormed, Bad
<1>8. /\ config.backend # "noop" => ~Bad("module")
      /\ config.backend = "gnupg" => config.defects \cap {"onPath", "home", "keys"} = {}
    <2>1. config.backend \in {"noop", "gnupg", "pgpy"}
        BY DoctorAssumption DEF Disk, Config
    <2>2. CASE config.backend = "noop"
        BY <2>2
    <2>3. CASE config.backend = "pgpy"
        BY <1>3, <2>3, Verdicts DEF Crypto, Bad
    <2>4. CASE config.backend = "gnupg"
        BY <1>3, <2>4, Verdicts DEF Crypto, Bad
    <2> QED
        BY <2>1, <2>2, <2>3, <2>4
<1> QED
    BY <1>4, <1>6, <1>7, <1>8 DEF Usable

-----------------------------------------------------------------------------
(* Directories come, and rights are only given.                            *)

LEMMA Made ==
    ASSUME Disk, NEW who \in Account, NEW d \in Dir, MayMake(who, d), Make(who, d)
    PROVE  /\ kind' \in [Dir -> Kinds] /\ writers' \in [Dir -> SUBSET Account]
           /\ Sound'
           /\ kind'[d] = "dir"
           /\ \A a \in Dir : kind[a] # "missing" =>
                 kind'[a] = kind[a] /\ writers'[a] = writers[a]
<1>1. Chain(d) \subseteq Dir /\ \A a \in Chain(d) : kind[a] # "file"
    BY DoctorAssumption DEF MayMake, Chain
<1>2. \A a \in Dir : kind'[a] = IF a \in Chain(d) /\ kind[a] = "missing" THEN "dir" ELSE kind[a]
    BY DEF Make
<1>3. kind' \in [Dir -> Kinds] /\ writers' \in [Dir -> SUBSET Account]
    BY DEF Make, Disk, Kinds
<1>4. d \in Chain(d)
    BY DEF Chain
<1>5. kind'[d] = "dir"
    BY <1>1, <1>2, <1>4 DEF Disk, Kinds
<1>6. \A a \in Dir : kind[a] # "missing" =>
         kind'[a] = kind[a] /\ writers'[a] = writers[a]
    BY DEF Make
<1>7. Sound'
    <2> SUFFICES ASSUME NEW x \in Dir, kind'[x] # "missing", NEW a \in Above[x]
                 PROVE  kind'[a] = "dir"
        BY DEF Sound
    <2>1. a \in Dir
        BY DoctorAssumption
    <2>2. CASE kind[x] # "missing"
        BY <2>1, <2>2, <1>6 DEF Disk, Sound
    <2>3. CASE kind[x] = "missing"
        <3>1. x \in Chain(d)
            BY <2>3, <1>2
        <3>2. a \in Chain(d)
            BY <3>1, DoctorAssumption DEF Chain
        <3> QED
            BY <2>1, <3>2, <1>1, <1>2 DEF Disk, Kinds
    <2> QED
        BY <2>2, <2>3
<1> QED
    BY <1>3, <1>5, <1>6, <1>7

(* What a step may do to the disk.                                         *)
Grown ==
    /\ config' = config
    /\ \A d \in Dir : kind[d] # "missing" =>
          kind'[d] = kind[d] /\ writers[d] \subseteq writers'[d]

LEMMA UsableStays ==
    ASSUME Disk, Grown, NEW who, Usable(who)
    PROVE  Usable(who)'
<1>1. Diagnosed \subseteq Dir
    BY DoctorAssumption DEF Diagnosed, ToSet
<1>2. \A d \in Diagnosed : kind'[d] = "dir" /\ Can(who, d)'
    BY <1>1 DEF Grown, Usable, Can
<1> QED
    BY <1>2 DEF Usable, Grown, Bad

LEMMA LayoutDirs == Layout \in Seq(Dir)
BY DoctorAssumption DEF Layout

LEMMA DiskNext ==
    ASSUME IInv, [Next]_vars
    PROVE  Grown /\ (Disk /\ Counts)'
<1>0. Disk /\ Counts
    BY DEF IInv
<1>1. ASSUME NEW who \in Account, NEW fix \in BOOLEAN, Diagnose(who, fix)
      PROVE  Grown /\ (Disk /\ Counts)'
    BY <1>0, <1>1, DoctorAssumption DEF Diagnose, disk, Grown, Disk, Counts, Sound
<1>2. CASE Decline \/ ApplyRaises
    BY <1>0, <1>2 DEF Decline, ApplyRaises, disk, Grown, Disk, Counts, Sound
<1>3. CASE Apply
    <2>1. PICK i \in DOMAIN doctor.fixes : \E d \in doctor.fixes[i] :
             MayMake(doctor.who, d) /\ Make(doctor.who, d)
        BY <1>3 DEF Apply
    <2>2. PICK d \in doctor.fixes[i] : MayMake(doctor.who, d) /\ Make(doctor.who, d)
        BY <2>1
    <2>3. doctor.who \in Account /\ d \in Dir
        BY <1>3, <2>1, <2>2 DEF Apply, Asking, IInv, Rounds, IsRound
    <2>4. UNCHANGED <<config, clean, sessions, launches>>
        BY <1>3 DEF Apply
    <2> QED
        BY <1>0, <2>2, <2>3, <2>4, Made DEF Grown, Disk, Counts
<1>4. CASE Conclude
    <2>1. doctor.who \in Account /\ UNCHANGED <<config, kind, writers, sessions, launches>>
        BY <1>4 DEF Conclude, Exit, IInv, Rounds, IsRound, disk
    <2>2. clean' \in SUBSET Account
        BY <1>0, <1>4, <2>1 DEF Conclude, Exit, Disk
    <2> QED
        BY <1>0, <2>1, <2>2 DEF Grown, Disk, Counts, Sound
<1>5. ASSUME NEW what, NEW who, Launch(what, who)
      PROVE  Grown /\ (Disk /\ Counts)'
    BY <1>0, <1>5, DoctorAssumption DEF Launch, disk, Grown, Disk, Counts, Sound
<1>6. CASE Ensure
    <2>1. launch.who \in Account /\ Layout[launch.next] \in Dir
        BY <1>6, LayoutDirs DEF Ensure, IInv, Launches, Started, IsLaunch
    <2>2. /\ MayMake(launch.who, Layout[launch.next]) /\ Make(launch.who, Layout[launch.next])
          /\ UNCHANGED <<config, clean, sessions, launches>>
        BY <1>6 DEF Ensure
    <2> QED
        BY <1>0, <2>1, <2>2, Made DEF Grown, Disk, Counts
<1>7. CASE EnsureRaises \/ Wire \/ Reconcile \/ Stop \/ UNCHANGED vars
    BY <1>0, <1>7 DEF EnsureRaises, Wire, Reconcile, Stop, vars, disk, Grown, Disk, Counts, Sound
<1>8. ASSUME NEW d \in Dir, Grant(d)
      PROVE  Grown /\ (Disk /\ Counts)'
    <2>1. writers' \in [Dir -> SUBSET Account] /\ \A a \in Dir : writers[a] \subseteq writers'[a]
        BY <1>0, <1>8 DEF Grant, Disk
    <2> QED
        BY <1>0, <1>8, <2>1 DEF Grant, Grown, Disk, Counts, Sound
<1> QED
    BY <1>1, <1>2, <1>3, <1>4, <1>5, <1>6, <1>7, <1>8 DEF Next, DoctorStep, LaunchStep

-----------------------------------------------------------------------------
(* The doctor.                                                             *)

LEMMA CleanNext ==
    ASSUME IInv, Grown, [Next]_vars
    PROVE  CleanIsUsable'
<1>1. \A who \in clean : Usable(who)'
    BY UsableStays DEF IInv, CleanIsUsable
<1>2. CASE Conclude
    <2>1. /\ doctor.pc = "round" /\ IsRound(doctor) /\ ~Raises
          /\ doctor.errors = 0 => Usable(doctor.who)
          /\ UNCHANGED <<config, kind, writers>>
        BY <1>2 DEF Conclude, Exit, IInv, Rounds, disk
    <2> DEFINE errors == IF doctor.applied > 0 THEN Errors(Diagnosis(doctor.who)) ELSE doctor.errors
    <2>2. errors \in Nat /\ clean' = IF errors > 0 THEN clean ELSE clean \cup {doctor.who}
        BY <1>2, <2>1, DiagnosisType, ErrorsCount DEF Conclude, Exit, IsRound, IInv
    <2>3. errors = 0 => Usable(doctor.who)
        BY <2>1, DiagnosisType, ErrorsCount, ClearMeansUsable DEF IInv
    <2>0. PICK me : me = doctor.who
        OBVIOUS
    <2>4. errors = 0 => Usable(me)'
        BY <2>0, <2>3, UsableStays DEF IInv
    <2> HIDE DEF errors
    <2> SUFFICES ASSUME NEW who \in clean' PROVE Usable(who)'
        BY DEF CleanIsUsable
    <2>5. CASE who \in clean
        BY <1>1, <2>5
    <2>6. CASE who \notin clean
        <3>1. errors = 0 /\ who = me
            BY <2>0, <2>2, <2>6
        <3> QED
            BY <2>4, <3>1
    <2> QED
        BY <2>5, <2>6
<1>3. CASE clean' = clean
    BY <1>1, <1>3 DEF CleanIsUsable
<1> QED
    BY <1>2, <1>3 DEF Next, Diagnose, DoctorStep, Decline, Apply, ApplyRaises, Launch, LaunchStep,
       Ensure, EnsureRaises, Wire, Reconcile, Stop, Grant, vars

(* A fix less to go through.                                               *)
LEMMA OneFixLess ==
    ASSUME IsRound(doctor), NEW i \in DOMAIN doctor.fixes
    PROVE  /\ IsFiniteSet(DOMAIN Rest(i))
           /\ Cardinality(DOMAIN Rest(i)) + 1 = Cardinality(DOMAIN doctor.fixes)
           /\ Cardinality(DOMAIN Rest(i)) \in Nat
           /\ \A j \in DOMAIN Rest(i) : Rest(i)[j] \subseteq Dir
<1>1. DOMAIN Rest(i) = DOMAIN doctor.fixes \ {i}
    BY DEF Rest
<1>2. \A j \in DOMAIN Rest(i) : Rest(i)[j] = doctor.fixes[j]
    BY DEF Rest
<1>3. IsFiniteSet(DOMAIN doctor.fixes)
    BY DEF IsRound
<1>4. /\ IsFiniteSet(DOMAIN doctor.fixes \ {i})
      /\ Cardinality(DOMAIN doctor.fixes \ {i}) = Cardinality(DOMAIN doctor.fixes) - 1
    BY <1>3, FS_RemoveElement
<1>5. Cardinality(DOMAIN doctor.fixes) \in Nat /\ Cardinality(DOMAIN Rest(i)) \in Nat
    BY <1>1, <1>3, <1>4, FS_CardinalityType
<1> QED
    BY <1>1, <1>2, <1>4, <1>5 DEF IsRound

LEMMA RoundsNext ==
    ASSUME IInv, Grown, [Next]_vars
    PROVE  Rounds'
<1>0. Disk /\ Rounds
    BY DEF IInv
<1>1. ASSUME NEW who \in Account, NEW fix \in BOOLEAN, Diagnose(who, fix)
      PROVE  Rounds'
    <2>1. CASE Raises
        BY <1>1, <2>1 DEF Diagnose, Raised, Rounds
    <2>2. CASE ~Raises
        <3> DEFINE f == Diagnosis(who)
        <3>1. /\ Errors(f) \in Nat /\ (Errors(f) = 0 => Clear(f))
              /\ IsFiniteSet(DOMAIN Fixes(f)) /\ Cardinality(DOMAIN Fixes(f)) <= Errors(f)
              /\ \A i \in DOMAIN Fixes(f) : Fixes(f)[i] \subseteq Dir
            BY <1>0, DiagnosisType, ErrorsCount
        <3>2. Errors(f) = 0 => Usable(who)'
            BY <1>0, <2>2, <3>1, ClearMeansUsable, UsableStays
        <3>3. ~Raises'
            BY <2>2 DEF Raises, Bad, Grown
        <3> DEFINE fixes == IF fix THEN Fixes(f) ELSE <<>>
        <3>4. /\ IsFiniteSet(DOMAIN fixes) /\ Cardinality(DOMAIN fixes) <= Errors(f)
              /\ Cardinality(DOMAIN fixes) \in Nat
              /\ \A i \in DOMAIN fixes : fixes[i] \subseteq Dir
            <4>1. CASE fix
                BY <3>1, <4>1, FS_CardinalityType
            <4>2. CASE ~fix
                <5>1. DOMAIN fixes = {}
                    BY <4>2
                <5> QED
                    BY <3>1, <5>1, FS_EmptySet
            <4> QED
                BY <4>1, <4>2
        <3>5. doctor' = [pc |-> "round", who |-> who, applied |-> 0, fixes |-> fixes,
                         errors |-> Errors(f)]
            BY <1>1, <2>2 DEF Diagnose
        <3> HIDE DEF f, fixes
        <3>6. IsRound(doctor')
            BY <3>1, <3>4, <3>5 DEF IsRound
        <3> QED
            BY <3>2, <3>3, <3>5, <3>6 DEF Rounds
    <2> QED
        BY <2>1, <2>2
<1>2. ASSUME NEW i \in DOMAIN doctor.fixes, NEW applied \in {doctor.applied, doctor.applied + 1},
             Asking, doctor' = [doctor EXCEPT !.fixes = Rest(i), !.applied = applied]
      PROVE  Rounds'
    <2>1. /\ doctor.pc = "round" /\ IsRound(doctor) /\ ~Raises
          /\ doctor.errors = 0 => Usable(doctor.who)
        BY <1>0, <1>2 DEF Rounds, Asking
    <2>2. /\ doctor'.pc = "round" /\ doctor'.who = doctor.who /\ doctor'.applied = applied
          /\ doctor'.fixes = Rest(i) /\ doctor'.errors = doctor.errors
          /\ doctor' = [pc |-> "round", who |-> doctor.who, applied |-> applied,
                        fixes |-> Rest(i), errors |-> doctor.errors]
        BY <1>2, <2>1 DEF IsRound
    <2>3. IsRound(doctor')
        BY <2>1, <2>2, OneFixLess DEF IsRound
    <2>4. ~Raises' /\ (doctor'.errors = 0 => Usable(doctor.who)')
        BY <1>0, <2>1, <2>2, UsableStays DEF Raises, Bad, Grown
    <2> QED
        BY <2>2, <2>3, <2>4 DEF Rounds
<1>3. CASE Decline
    <2>1. PICK i \in DOMAIN doctor.fixes : doctor' = [doctor EXCEPT !.fixes = Rest(i)]
        BY <1>3 DEF Decline
    <2>2. Asking /\ IsRound(doctor)
        BY <1>0, <1>3 DEF Decline, Asking, Rounds
    <2>3. doctor' = [doctor EXCEPT !.fixes = Rest(i), !.applied = doctor.applied]
        BY <2>1, <2>2 DEF IsRound
    <2> QED
        BY <1>2, <2>2, <2>3
<1>4. CASE Apply
    <2>1. PICK i \in DOMAIN doctor.fixes :
             doctor' = [doctor EXCEPT !.fixes = Rest(i), !.applied = doctor.applied + 1]
        BY <1>4 DEF Apply
    <2> QED
        BY <1>2, <1>4, <2>1 DEF Apply
<1>5. CASE ApplyRaises \/ Conclude
    BY <1>5 DEF ApplyRaises, Raised, Conclude, Exit, Rounds
<1>6. CASE doctor' = doctor
    <2>1. PICK me : me = doctor.who
        OBVIOUS
    <2>2. doctor.pc = "round" => /\ ~Raises'
                                 /\ doctor.errors = 0 => Usable(me)'
        BY <1>0, <2>1, UsableStays DEF Rounds, Raises, Bad, Grown
    <2>3. me = doctor'.who
        BY <1>6, <2>1
    <2> QED
        BY <1>0, <1>6, <2>2, <2>3 DEF Rounds
<1> QED
    BY <1>1, <1>3, <1>4, <1>5, <1>6 DEF Next, DoctorStep, Launch, LaunchStep, Ensure, EnsureRaises,
       Wire, Reconcile, Stop, Grant, vars

-----------------------------------------------------------------------------
(* The start.                                                              *)

LEMMA LaunchesNext ==
    ASSUME IInv, Grown, [Next]_vars
    PROVE  Launches'
<1>0. Disk /\ Launches
    BY DEF IInv
<1>1. clean \subseteq clean'
    BY DEF Next, Diagnose, DoctorStep, Decline, Apply, ApplyRaises, Conclude, Exit, Launch,
       LaunchStep, Ensure, EnsureRaises, Wire, Reconcile, Stop, Grant, vars
<1>2. Len(Layout) \in Nat /\ Layout \in Seq(Dir)
    BY LayoutDirs
<1>3. launch.pc \in Started =>
         \A i \in 1..launch.next - 1 : kind'[Layout[i]] = "dir"
    <2> SUFFICES ASSUME launch.pc \in Started, NEW i \in 1..launch.next - 1
                 PROVE  kind'[Layout[i]] = "dir"
        OBVIOUS
    <2>1. kind[Layout[i]] = "dir" /\ i \in 1..Len(Layout)
        BY <1>0, <1>2 DEF Launches, IsLaunch
    <2> QED
        BY <1>2, <2>1 DEF Grown
<1>4. ASSUME NEW what \in {"service", "command"}, NEW who \in Account, Launch(what, who),
             what = "service" => who = Service
      PROVE  Launches'
    <2>1. CASE launch' = [pc |-> "ensuring", what |-> what, who |-> who, next |-> 1,
                          cleared |-> who \in clean]
        <3>1. IsLaunch(launch')
            BY <1>2, <1>4, <2>1 DEF IsLaunch
        <3>2. launch'.cleared => launch'.who \in clean
            BY <2>1
        <3>3. launch'.pc = "ensuring" /\ launch'.next = 1
            BY <2>1
        <3> QED
            BY <1>1, <3>1, <3>2, <3>3 DEF Launches, Started
    <2>2. CASE launch'.pc = "failed"
        BY <2>2 DEF Launches, Started
    <2> QED
        BY <1>4, <2>1, <2>2 DEF Launch
<1>5. CASE Ensure
    <2>1. launch.pc = "ensuring" /\ IsLaunch(launch) /\ launch.next <= Len(Layout)
        BY <1>0, <1>5 DEF Ensure, Launches, Started
    <2>2. launch.next \in 1..Len(Layout) /\ Layout[launch.next] \in Dir
        BY <1>2, <2>1 DEF IsLaunch
    <2>3. kind'[Layout[launch.next]] = "dir"
        BY <1>0, <1>5, <2>1, <2>2, Made DEF Ensure, IsLaunch
    <2>4. /\ launch' = [pc |-> "ensuring", what |-> launch.what, who |-> launch.who,
                        next |-> launch.next + 1, cleared |-> launch.cleared]
        BY <1>5, <2>1 DEF Ensure, IsLaunch
    <2>5. \A i \in 1..launch'.next - 1 : i \in 1..launch.next - 1 \/ i = launch.next
        BY <1>2, <2>2, <2>4
    <2>6. \A i \in 1..launch'.next - 1 : kind'[Layout[i]] = "dir"
        BY <1>3, <2>1, <2>3, <2>5 DEF Started
    <2>7. IsLaunch(launch')
        BY <1>2, <2>1, <2>2, <2>4 DEF IsLaunch
    <2>8. launch'.cleared => launch'.who \in clean'
        BY <1>0, <1>1, <2>1, <2>4 DEF Launches, Started
    <2> QED
        BY <2>4, <2>6, <2>7, <2>8 DEF Launches, Started
<1>6. CASE EnsureRaises \/ Reconcile \/ Wire
    <2>1. launch.pc \in Started /\ IsLaunch(launch)
        BY <1>0, <1>6 DEF EnsureRaises, Reconcile, Wire, Launches, Started
    <2>2. \/ launch' = [launch EXCEPT !.pc = "failed"]
          \/ launch.pc = "wired" /\ launch' = [launch EXCEPT !.pc = "running"]
          \/ launch.next > Len(Layout) /\ launch' = [launch EXCEPT !.pc = "wired"]
          \/ launch' = [pc |-> "idle"]
        BY <1>6, <2>1 DEF EnsureRaises, Reconcile, Wire, IsLaunch
    <2>3. CASE launch' = [pc |-> "idle"] \/ launch' = [launch EXCEPT !.pc = "failed"]
        BY <2>1, <2>3 DEF Launches, IsLaunch, Started
    <2>4. ASSUME NEW pc \in {"running", "wired"}, launch' = [launch EXCEPT !.pc = pc],
                 pc = "wired" => launch.next > Len(Layout)
          PROVE  Launches'
        <3>1. launch' = [pc |-> pc, what |-> launch.what, who |-> launch.who,
                         next |-> launch.next, cleared |-> launch.cleared]
            BY <2>1, <2>4 DEF IsLaunch
        <3>2. IsLaunch(launch') /\ (launch'.cleared => launch'.who \in clean')
            BY <1>0, <1>1, <2>1, <3>1 DEF IsLaunch, Launches
        <3>3. \A i \in 1..launch'.next - 1 : kind'[Layout[i]] = "dir"
            BY <1>3, <2>1, <3>1
        <3> QED
            BY <2>4, <3>1, <3>2, <3>3 DEF Launches, Started
    <2> QED
        BY <2>2, <2>3, <2>4
<1>7. CASE Stop
    BY <1>7 DEF Stop, Launches, Started
<1>8. CASE launch' = launch
    BY <1>0, <1>1, <1>3, <1>8 DEF Launches
<1> QED
    BY <1>4, <1>5, <1>6, <1>7, <1>8, DoctorAssumption DEF Next, Diagnose, DoctorStep, Decline, Apply,
       ApplyRaises, Conclude, LaunchStep, Grant, vars

LEMMA InitInv ==
    ASSUME Init
    PROVE  IInv
<1>1. Disk /\ Counts
    BY DoctorAssumption DEF Init, Disk, Counts, Kinds
<1> QED
    BY <1>1 DEF Init, IInv, Rounds, Launches, CleanIsUsable, Started

LEMMA NextInv ==
    ASSUME IInv, [Next]_vars
    PROVE  IInv'
BY DiskNext, CleanNext, RoundsNext, LaunchesNext DEF IInv

LEMMA Invariance == Spec => []IInv
BY InitInv, NextInv, PTL DEF Spec

(* Types, and a round repairs no more than it has found.                   *)
THEOREM TypeCorrect == Spec => []TypeOK
<1>1. IInv => TypeOK
    BY DEF IInv, Disk, Counts, Rounds, IsRound, Launches, IsLaunch, Started, Kinds, TypeOK
<1> QED
    BY <1>1, Invariance, PTL

(***************************************************************************)
(* An exit code of 0 is worth something, however often the doctor is run,  *)
(* whatever it repairs and whoever else makes directories meanwhile.       *)
(***************************************************************************)
THEOREM ZeroMeansUsable == Spec => []CleanMeansUsable
<1>1. IInv => CleanMeansUsable
    BY DEF IInv, CleanIsUsable, Usable, CleanMeansUsable
<1> QED
    BY <1>1, Invariance, PTL

-----------------------------------------------------------------------------
(* What a start that fails had against it.                                 *)

Excused ==
    \/ config.backend # "noop" /\ Bad("passphrase")
    \/ config.backend = "gnupg" /\ config.bundled /\ Bad("binary")
    \/ Bad("schema") /\ Bad("noValidator")
    \/ OthersWereHere

(* A directory that cannot be made, below one that is there and open.      *)
LEMMA BlockedByOthers ==
    ASSUME Disk, Usable(Service), NEW i \in 1..Len(Layout), ~MayMake(Service, Layout[i])
    PROVE  OthersWereHere
<1> DEFINE d == Layout[i]
<1>1. /\ kind[Out] = "dir" /\ kind[In] = "dir"
      /\ kind[Root] = "dir" /\ Can(Service, Root)
    BY DEF Usable, Diagnosed
<1>2. d \in Dir /\ Root \in Dir /\ Out \in Dir /\ In \in Dir
    BY LayoutDirs, DoctorAssumption
<1>3. CASE kind[d] = "dir"
    <2>1. \A a \in Chain(d) : kind[a] = "dir"
        BY <1>2, <1>3 DEF Disk, Sound, Chain
    <2> QED
        BY <1>3, <2>1 DEF MayMake
<1>4. CASE kind[d] # "dir"
    <2>1. d \in ToSet(Subs)
        <3>1. d # Out /\ d # In
            BY <1>1, <1>4
        <3>2. Len(Subs) \in Nat /\ DOMAIN Subs = 1..Len(Subs)
            BY DoctorAssumption
        <3>3. i \in 1..Len(Subs) \/ i = Len(Subs) + 1 \/ i = Len(Subs) + 2
            BY <3>2, DoctorAssumption DEF Layout
        <3>4. i = Len(Subs) + 1 => d = Out
            BY <3>2, DoctorAssumption DEF Layout
        <3>5. i = Len(Subs) + 2 => d = In
            BY <3>2, DoctorAssumption DEF Layout
        <3>6. i \in 1..Len(Subs) => d = Subs[i]
            BY <3>2, DoctorAssumption DEF Layout
        <3> QED
            BY <3>1, <3>2, <3>3, <3>4, <3>5, <3>6 DEF ToSet
    <2>2. Above[d] = Above[Root] \cup {Root}
        BY <2>1, DoctorAssumption DEF Chain
    <2>3. \A a \in Above[d] : kind[a] = "dir"
        BY <1>1, <1>2, <2>2 DEF Disk, Sound
    <2>4. CASE kind[d] = "file"
        BY <2>1, <2>4 DEF OthersWereHere
    <2>5. CASE kind[d] = "missing"
        <3>1. \A a \in Chain(d) : kind[a] # "file"
            BY <2>3, <2>5 DEF Chain
        <3>2. ASSUME NEW a \in Above[d], \A b \in Above[d] : kind[b] = "dir" => b = a \/ b \in Above[a]
              PROVE  Can(Service, a)
            <4>1. Root = a \/ Root \in Above[a]
                BY <1>1, <2>2, <3>2
            <4>2. a \in Dir /\ a \in Above[Root] \cup {Root}
                BY <1>2, <2>2, <3>2, DoctorAssumption
            <4>3. a = Root
                BY <1>2, <4>1, <4>2, DoctorAssumption
            <4> QED
                BY <1>1, <4>3
        <3> QED
            BY <3>1, <3>2 DEF MayMake
    <2> QED
        BY <1>2, <1>4, <2>4, <2>5 DEF Disk, Kinds
<1> QED
    BY <1>3, <1>4

LEMMA FailedForCause ==
    ASSUME IInv, Next, launch.pc # "failed", launch'.pc = "failed",
           launch'.what = "service", launch'.cleared
    PROVE  Excused
<1>0. Disk /\ CleanIsUsable /\ Launches
    BY DEF IInv
<1>1. ASSUME NEW what, NEW who, Launch(what, who)
      PROVE  Excused
    <2>1. /\ Rejected \/ Bad("schema")
          /\ who \in clean
        <3>1. /\ Rejected \/ Bad("schema")
              /\ launch' = [pc |-> "failed", what |-> what, who |-> who, next |-> 0,
                            cleared |-> who \in clean]
            BY <1>1 DEF Launch
        <3>2. launch'.cleared = (who \in clean)
            BY <3>1
        <3> QED
            BY <3>1, <3>2
    <2>2. Usable(who)
        BY <1>0, <2>1 DEF CleanIsUsable
    <2> QED
        BY <2>1, <2>2 DEF Usable, Rejected, Unloaded, Senseless, IllFormed, Sought, Bad, Excused
<1>2. CASE EnsureRaises \/ Wire \/ Reconcile
    <2>1. launch.pc \in Started /\ IsLaunch(launch)
        BY <1>0, <1>2 DEF EnsureRaises, Wire, Reconcile, Launches, Started
    <2>2. launch' = [launch EXCEPT !.pc = "failed"]
        BY <1>2, <2>1 DEF EnsureRaises, Wire, Reconcile, IsLaunch
    <2>3. launch.what = "service" /\ launch.cleared
        BY <2>1, <2>2 DEF IsLaunch
    <2>4. launch.who = Service /\ Service \in clean
        BY <1>0, <2>1, <2>3 DEF IsLaunch, Launches
    <2>5. Usable(Service)
        BY <1>0, <2>4 DEF CleanIsUsable
    <2>6. CASE EnsureRaises
        <3>1. launch.next \in 1..Len(Layout) /\ ~MayMake(Service, Layout[launch.next])
            BY <2>1, <2>4, <2>6, LayoutDirs DEF EnsureRaises, IsLaunch
        <3> QED
            BY <1>0, <2>5, <3>1, BlockedByOthers DEF Excused
    <2>7. CASE Wire
        <3>1. CryptoFails
            <4> SUFFICES ASSUME ~CryptoFails PROVE FALSE
                OBVIOUS
            <4>1. launch' = [launch EXCEPT !.pc = "wired"]
                BY <2>3, <2>7 DEF Wire
            <4> QED
                BY <2>1, <4>1 DEF IsLaunch
        <3>2. config.backend \in {"noop", "gnupg", "pgpy"}
            BY <1>0, DoctorAssumption DEF Disk, Config
        <3> QED
            BY <2>5, <3>1, <3>2 DEF CryptoFails, Usable, Excused, Bad
    <2>8. CASE Reconcile
        <3>1. PICK d \in ToSet(Subs) : ~Can(Service, d)
            <4> SUFFICES ASSUME \A d \in ToSet(Subs) : Can(Service, d) PROVE FALSE
                OBVIOUS
            <4>1. launch' = [launch EXCEPT !.pc = "running"]
                BY <2>4, <2>8 DEF Reconcile
            <4> QED
                BY <2>1, <4>1 DEF IsLaunch
        <3>2. PICK i \in DOMAIN Subs : d = Subs[i]
            BY DEF ToSet
        <3>3. Subs \in Seq(Dir) /\ Len(Subs) \in Nat /\ i \in 1..Len(Subs)
            BY DoctorAssumption
        <3>4. d = Layout[i] /\ Len(Layout) = Len(Subs) + 2
            BY <3>2, <3>3, DoctorAssumption DEF Layout
        <3>5. launch.next > Len(Layout) /\ launch.next \in Nat
            BY <1>0, <2>1, <2>8, <3>3, <3>4 DEF Reconcile, Launches, IsLaunch
        <3>6. kind[Layout[i]] = "dir"
            BY <1>0, <2>1, <3>3, <3>4, <3>5 DEF Launches
        <3> QED
            BY <3>1, <3>4, <3>6 DEF OthersWereHere, Excused
    <2> QED
        BY <1>2, <2>6, <2>7, <2>8
<1>3. CASE Ensure
    BY <1>3, <1>0 DEF Ensure, Launches, IsLaunch, Started
<1>4. CASE Stop \/ launch' = launch
    BY <1>4 DEF Stop
<1> QED
    BY <1>1, <1>2, <1>3, <1>4 DEF Next, Diagnose, DoctorStep, Decline, Apply, ApplyRaises, Conclude,
       LaunchStep, Grant

(***************************************************************************)
(* After an exit code of 0 under the account of the service, a start fails *)
(* only for what the doctor does not look at.                              *)
(***************************************************************************)
THEOREM CleanStarts == Spec => StartsIfClean
<1>1. IInv /\ [Next]_vars =>
         [launch.pc # "failed" /\ launch'.pc = "failed"
            /\ launch'.what = "service" /\ launch'.cleared => Excused]_vars
    BY FailedForCause
<1> QED
    BY <1>1, Invariance, PTL DEF Spec, StartsIfClean, Excused
=============================================================================
