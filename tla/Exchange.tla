------------------------------ MODULE Exchange ------------------------------
(***************************************************************************)
(* Two halves of the program at work together: sites that route the files  *)
(* of their base folders to each other, through exchange directories and   *)
(* a transport that is not part of the program.  A pipeline is one step:   *)
(* what its own steps may do is the subject of Outbound and Inbound.       *)
(*                                                                         *)
(* A site is a host with its configuration; the transport carries what a   *)
(* site publishes to its peer, in any order and perhaps twice.             *)
(***************************************************************************)
EXTENDS Routing, FiniteSets

CONSTANTS Site, Peer, Content,
          Bases,      \* base_folders of each site
          Rules,      \* inclusion and exclusion of each site
          Skipping,   \* sites whose outbound_policy is skip
          Places,     \* where the users of each site write
          MaxWrites,  \* bound on what they write
          MaxCopies,  \* bound on the pairs the transport delivers twice
          MaxFailures,\* bound on the pipelines that fail
          MaxId       \* bound on the technical ids

Roles == {"outbound", "inbound", "both"}

ASSUME ExchangeAssumption ==
    /\ Peer \in [Site -> Site]
    /\ Bases \in [Site -> Seq(Folder)] /\ DOMAIN Rules = Site
    /\ \A s \in Site : /\ DOMAIN Rules[s] = {"inclusion", "exclusion"}
                       /\ Rules[s].inclusion \in Seq(Pattern)
                       /\ Rules[s].exclusion \in Seq(Pattern)
    /\ DOMAIN Places = Site /\ \A s \in Site : Places[s] \subseteq Path \ {<<>>}
    /\ Skipping \subseteq Site
    /\ {MaxWrites, MaxCopies, MaxFailures, MaxId} \subseteq Nat

VARIABLES
    role,     \* instance.role of each site, chosen once
    disk,     \* files of the base folders: [path, content]
    markers,  \* runtime/dedup
    aside,    \* pairs and files in processing/ or error/, for an operator
    outbox,   \* exchange_out
    inbox,    \* exchange_in
    delivered,\* ids with MOVED_TO_BUSINESS_FOLDER in the audit trail
    ids,      \* technical ids given out
    rebuilt,  \* history: deliveries, [site, path, pair]
    writes, copies, failures

vars == <<role, disk, markers, aside, outbox, inbox, delivered, ids, rebuilt,
          writes, copies, failures>>

DoesOutbound(s) == role[s] \in {"outbound", "both"}
DoesInbound(s) == role[s] \in {"inbound", "both"}

File(path, content) == [path |-> path, content |-> content]
At(s, path) == {f \in disk[s] : f.path = path}

(* The file takes the place of what is at its path.                        *)
Placed(s, file) == [disk EXCEPT ![s] = (@ \ At(s, file.path)) \cup {file}]

(* What the metadata of a file says; origin is not part of it.             *)
Pair(s, file, id) ==
    LET base == Bases[s][Owner(Bases[s], file.path)]
    IN  [id |-> id, alias |-> base.alias, dir |-> RelativeDir(base, file.path),
         name |-> Last(file.path), content |-> file.content,
         origin |-> <<s, file.path>>]

KeyOf(pair) == MarkerKey(pair.content, pair.alias, pair.dir)
Detected(s, file) ==
    DoesOutbound(s) /\ file \in disk[s] /\ Eligible(Bases[s], Rules[s], file.path)
(* _is_duplicate: under another policy there are no markers.               *)
Claimed(s, file) == s \in Skipping /\ KeyOf(Pair(s, file, 0)) \in markers[s]
Marked(s, file) ==
    [markers EXCEPT ![s] = @ \cup IF s \in Skipping THEN {KeyOf(Pair(s, file, 0))} ELSE {}]

Init ==
    /\ role \in [Site -> Roles]
    /\ disk = [s \in Site |-> {}] /\ markers = [s \in Site |-> {}]
    /\ aside = [s \in Site |-> {}] /\ delivered = [s \in Site |-> {}]
    /\ outbox = [s \in Site |-> {}] /\ inbox = [s \in Site |-> {}]
    /\ ids = 0 /\ rebuilt = {} /\ writes = 0 /\ copies = 0 /\ failures = 0

-----------------------------------------------------------------------------
(* A user writes a file, perhaps over another version of it.               *)
Write(s, path, content) ==
    /\ writes < MaxWrites
    /\ File(path, content) \notin disk[s]
    /\ writes' = writes + 1
    /\ disk' = Placed(s, File(path, content))
    /\ UNCHANGED <<role, markers, aside, outbox, inbox, delivered, ids, rebuilt, copies, failures>>

PublishUnclaimed(s, file) == \* slip: the marker is looked up and never written
    /\ Detected(s, file) /\ ~Claimed(s, file) /\ ids < MaxId
    /\ ids' = ids + 1
    /\ disk' = [disk EXCEPT ![s] = @ \ {file}]
    /\ outbox' = [outbox EXCEPT ![s] = @ \cup {Pair(s, file, ids')}]
    /\ UNCHANGED <<role, markers, aside, inbox, delivered, rebuilt, writes,
                   copies, failures>>

PublishInPlace(s, file) == \* slip: the directory in the metadata is that of the host
    /\ Detected(s, file) /\ ~Claimed(s, file) /\ ids < MaxId
    /\ ids' = ids + 1
    /\ disk' = [disk EXCEPT ![s] = @ \ {file}]
    /\ markers' = Marked(s, file)
    /\ outbox' = [outbox EXCEPT
         ![s] = @ \cup {[Pair(s, file, ids') EXCEPT !.dir = Front(file.path)]}]
    /\ UNCHANGED <<role, aside, inbox, delivered, rebuilt, writes, copies, failures>>

PublishAnywhere(s, file) == \* slip: the role is not looked at
    /\ file \in disk[s] /\ Eligible(Bases[s], Rules[s], file.path)
    /\ ~Claimed(s, file) /\ ids < MaxId
    /\ ids' = ids + 1
    /\ disk' = [disk EXCEPT ![s] = @ \ {file}]
    /\ markers' = Marked(s, file)
    /\ outbox' = [outbox EXCEPT ![s] = @ \cup {Pair(s, file, ids')}]
    /\ UNCHANGED <<role, aside, inbox, delivered, rebuilt, writes, copies, failures>>

PublishUnderOneId(s, file) == \* slip: the id is drawn once, not for every file
    /\ Detected(s, file) /\ ~Claimed(s, file) /\ ids < MaxId
    /\ ids' = 1
    /\ disk' = [disk EXCEPT ![s] = @ \ {file}]
    /\ markers' = Marked(s, file)
    /\ outbox' = [outbox EXCEPT ![s] = @ \cup {Pair(s, file, ids')}]
    /\ UNCHANGED <<role, aside, inbox, delivered, rebuilt, writes, copies, failures>>

(* The outbound pipeline: the file leaves its base folder for the archive, *)
(* the pair is in exchange_out.                                            *)
Publish(s, file) ==
    /\ Detected(s, file) /\ ~Claimed(s, file) /\ ids < MaxId
    /\ ids' = ids + 1
    /\ disk' = [disk EXCEPT ![s] = @ \ {file}]
    /\ markers' = Marked(s, file)
    /\ outbox' = [outbox EXCEPT ![s] = @ \cup {Pair(s, file, ids')}]
    /\ UNCHANGED <<role, aside, inbox, delivered, rebuilt, writes, copies, failures>>

(* It fails, before the marker is claimed, between that and the metadata,  *)
(* or when the pair is out: the file is quarantined, the marker stays.     *)
PublishFails(s, file) ==
    /\ Detected(s, file) /\ ~Claimed(s, file) /\ ids < MaxId
    /\ failures < MaxFailures
    /\ failures' = failures + 1
    /\ ids' = ids + 1
    /\ disk' = [disk EXCEPT ![s] = @ \ {file}]
    /\ aside' = [aside EXCEPT ![s] = @ \cup {Pair(s, file, ids')}]
    /\ \/ UNCHANGED <<markers, outbox>>
       \/ markers' = Marked(s, file) /\ UNCHANGED outbox
       \/ /\ markers' = Marked(s, file)
          /\ outbox' = [outbox EXCEPT ![s] = @ \cup {Pair(s, file, ids')}]
    /\ UNCHANGED <<role, inbox, delivered, rebuilt, writes, copies>>

(* The outbound pipeline of a duplicate: the file is in processing/ when   *)
(* it is found to be one, and stays there.                                 *)
Skip(s, file) ==
    /\ Detected(s, file) /\ Claimed(s, file)
    /\ disk' = [disk EXCEPT ![s] = @ \ {file}]
    /\ aside' = [aside EXCEPT ![s] = @ \cup {Pair(s, file, 0)}]
    /\ UNCHANGED <<role, markers, outbox, inbox, delivered, ids, rebuilt, writes, copies, failures>>

(* The transport.                                                          *)
Carry(s, pair) ==
    /\ pair \in outbox[s]
    /\ inbox' = [inbox EXCEPT ![Peer[s]] = @ \cup {pair}]
    /\ \/ outbox' = [outbox EXCEPT ![s] = @ \ {pair}] /\ UNCHANGED copies
       \/ copies < MaxCopies /\ copies' = copies + 1 /\ UNCHANGED outbox
    /\ UNCHANGED <<role, disk, markers, aside, delivered, ids, rebuilt, writes, failures>>

Here(t, pair) == DoesInbound(t) /\ pair \in inbox[t]
Taken(t, pair) == [inbox EXCEPT ![t] = @ \ {pair}]

(* The inbound pipeline: the file is rebuilt under the base folder of the  *)
(* alias, over whatever is there.                                          *)
Deliver(t, pair) ==
    LET base == ByAlias(Bases[t], pair.alias)
        file == File(Target(Bases[t][base], pair.dir, pair.name), pair.content)
    IN  /\ Here(t, pair) /\ pair.id \notin delivered[t] /\ base # 0
        /\ inbox' = Taken(t, pair)
        /\ disk' = Placed(t, file)
        /\ delivered' = [delivered EXCEPT ![t] = @ \cup {pair.id}]
        /\ rebuilt' = rebuilt \cup {[site |-> t, path |-> file.path, pair |-> pair]}
        /\ UNCHANGED <<role, markers, aside, outbox, ids, writes, copies, failures>>

(* It fails between the delivery and the record of it: what is left of the *)
(* pair is quarantined, and a second copy of it will be delivered.         *)
DeliverLapses(t, pair) ==
    LET base == ByAlias(Bases[t], pair.alias)
        file == File(Target(Bases[t][base], pair.dir, pair.name), pair.content)
    IN  /\ Here(t, pair) /\ pair.id \notin delivered[t] /\ base # 0
        /\ failures < MaxFailures
        /\ failures' = failures + 1
        /\ inbox' = Taken(t, pair)
        /\ disk' = Placed(t, file)
        /\ aside' = [aside EXCEPT ![t] = @ \cup {pair}]
        /\ rebuilt' = rebuilt \cup {[site |-> t, path |-> file.path, pair |-> pair]}
        /\ UNCHANGED <<role, markers, outbox, delivered, ids, writes, copies>>

RefuseSilently(t, pair) == \* slip: the pair is dropped, not quarantined
    /\ Here(t, pair) /\ pair.id \notin delivered[t]
    /\ ByAlias(Bases[t], pair.alias) = 0
    /\ inbox' = Taken(t, pair)
    /\ UNCHANGED <<role, disk, markers, aside, outbox, delivered, ids, rebuilt, writes, copies, failures>>

(* An alias the site does not know: the pair is quarantined.               *)
Refuse(t, pair) ==
    /\ Here(t, pair) /\ pair.id \notin delivered[t]
    /\ ByAlias(Bases[t], pair.alias) = 0
    /\ inbox' = Taken(t, pair)
    /\ aside' = [aside EXCEPT ![t] = @ \cup {pair}]
    /\ UNCHANGED <<role, disk, markers, outbox, delivered, ids, rebuilt, writes, copies, failures>>

(* _skip_duplicate: the id was delivered before.                           *)
Drop(t, pair) ==
    /\ Here(t, pair) /\ pair.id \in delivered[t]
    /\ inbox' = Taken(t, pair)
    /\ UNCHANGED <<role, disk, markers, aside, outbox, delivered, ids, rebuilt, writes, copies, failures>>

Outbound(s) == \E file \in disk[s] : Publish(s, file) \/ PublishFails(s, file) \/ Skip(s, file)
Inbound(t) == \E pair \in inbox[t] :
    Deliver(t, pair) \/ DeliverLapses(t, pair) \/ Refuse(t, pair) \/ Drop(t, pair)
Transport(s) == \E pair \in outbox[s] : Carry(s, pair)

Next == \E s \in Site :
    \/ \E path \in Places[s], content \in Content : Write(s, path, content)
    \/ Outbound(s) \/ Transport(s) \/ Inbound(s)

(* No more is asked than that work goes on while there is some: each site   *)
(* goes on scanning, and the transport goes on carrying.  This is WF_vars  *)
(* of all steps but Write, with ENABLED spelled out.                       *)
Pending == \E s \in Site :
    \/ outbox[s] # {} \/ (DoesInbound(s) /\ inbox[s] # {})
    \/ \E f \in disk[s] : Detected(s, f) /\ (Claimed(s, f) \/ ids < MaxId)

Fairness == []<>~Pending \/ []<><<writes' = writes>>_vars

Spec == Init /\ [][Next]_vars /\ Fairness

-----------------------------------------------------------------------------
Pairs == (UNION {outbox[s] \cup inbox[s] : s \in Site}) \cup {r.pair : r \in rebuilt}

TypeOK ==
    /\ role \in [Site -> Roles]
    /\ \A s \in Site : \A f, g \in disk[s] :
         f.path \in Path /\ f.content \in Content /\ (f.path = g.path => f = g)
    /\ \A p, q \in Pairs : p.id \in 1..ids /\ (p.id = q.id => p = q)
    /\ delivered \in [Site -> SUBSET (1..ids)]
    /\ ids <= MaxId /\ writes <= MaxWrites /\ copies <= MaxCopies /\ failures <= MaxFailures

(***************************************************************************)
(* The tree is mirrored: what is rebuilt lies below its base folder as its *)
(* source lay below the base folder of the same alias, and two sources of  *)
(* one host are never rebuilt at one place (pathing.py:44-64, the mapping  *)
(* of docs/en/00-overview.md 4).                                           *)
(***************************************************************************)
Below(s, path) ==
    LET base == Bases[s][Owner(Bases[s], path)]
    IN  <<base.alias, RelativeFile(base, path)>>

Mirrored ==
    /\ \A r \in rebuilt : Below(r.site, r.path) = Below(r.pair.origin[1], r.pair.origin[2])
    /\ \A r, q \in rebuilt :
         r.site = q.site /\ r.path = q.path /\ r.pair.origin[1] = q.pair.origin[1]
            => r.pair.origin = q.pair.origin

(***************************************************************************)
(* At a site that only receives, a file gives way only to another one at   *)
(* its path; and a version that gave way is not brought back by a second   *)
(* copy of a pair, whenever the transport delivers it, where the delivery  *)
(* of the first was recorded (inbound.py:140, orchestrator.py:108).        *)
(***************************************************************************)
AllRecorded(t, file) ==
    \A r \in rebuilt : r.site = t /\ File(r.path, r.pair.content) = file
                          => r.pair.id \in delivered[t]

ReceivedStays ==
    [][/\ \A t \in Site : ~DoesOutbound(t) =>
             \A f \in disk[t] : \E g \in disk'[t] : g.path = f.path
       /\ \A r \in rebuilt :
             LET file == File(r.path, r.pair.content)
             IN  AllRecorded(r.site, file) /\ file \in disk'[r.site] /\ file \notin disk[r.site]
                    => writes' # writes \/ rebuilt' # rebuilt]_vars

(***************************************************************************)
(* The sites come to rest: though a site that does both routes back what   *)
(* it receives, the duplicate markers of one of the two end the exchange   *)
(* (outbound.py:131).                                                      *)
(***************************************************************************)
AtRest == \A s \in Site :
    /\ outbox[s] = {} /\ (DoesInbound(s) => inbox[s] = {})
    /\ ~\E f \in disk[s] : Detected(s, f)

ComesToRest == <>[]AtRest

(***************************************************************************)
(* What a site has claimed is on its way to the peer, rebuilt there, or    *)
(* kept for an operator, there or, from the pipeline that claimed it and   *)
(* failed, here (outbound.py:133, 332): a file that is skipped as a        *)
(* duplicate stands for one that was not lost.                             *)
(***************************************************************************)
Failed(s) == {pair \in aside[s] : pair.id # 0}
Routed(s) == outbox[s] \cup inbox[Peer[s]] \cup aside[Peer[s]] \cup {r.pair : r \in rebuilt}

ClaimIsKept ==
    \A s \in Site : \A key \in markers[s] :
        \E pair \in Routed(s) \cup Failed(s) : pair.origin[1] = s /\ KeyOf(pair) = key

-----------------------------------------------------------------------------
(* What the documents say.                                                 *)

(***************************************************************************)
(* "return True if this content was already routed" (outbound.py:130):     *)
(* a file that a marker would have skipped is one that was routed.         *)
(***************************************************************************)
ClaimIsRouted ==
    \A s \in Site : \A key \in markers[s] :
        \E pair \in Routed(s) : pair.origin[1] = s /\ KeyOf(pair) = key

(***************************************************************************)
(* "if the content differs, `inbound_policy` decides (`overwrite`          *)
(* versioned, or `error`/quarantine for arbitration)"                      *)
(* (docs/en/09-error-handling.md:79): a delivery replaces no other version.*)
(***************************************************************************)
DivergentKept ==
    [][\A t \in Site : delivered'[t] # delivered[t] =>
         \A f \in disk[t] : f \notin disk'[t] => \E g \in disk'[t] : g.content = f.content]_vars

(***************************************************************************)
(* "Rebuilding the business tree on the receiving side"                    *)
(* (docs/en/00-overview.md:32), whatever else the site does: no pipeline   *)
(* takes away what was rebuilt.                                            *)
(***************************************************************************)
DeliveredStays ==
    [][\A r \in rebuilt :
         LET f == File(r.path, r.pair.content)
         IN  f \in disk[r.site] /\ f \notin disk'[r.site]
                => \E g \in disk'[r.site] : g.path = f.path]_vars
=============================================================================
