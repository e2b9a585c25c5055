------------------------------ MODULE Inbound ------------------------------
(***************************************************************************)
(* The inbound half of FileRouter in one service process: InboundReadiness  *)
(* and InboundProcessor (core/inbound.py), the scan of exchange_in          *)
(* (core/orchestrator.py) and the reconciliation at start                   *)
(* (core/reconciliation.py).                                                *)
(*                                                                         *)
(* A pair is a technical id: its payload, its metadata and, if the sender   *)
(* signs, the detached signature of the metadata.  The transport is outside *)
(* the program: it drops the parts in exchange_in in any order, slowly,     *)
(* perhaps never, perhaps again.  Nothing tells a file that is still being  *)
(* written from a finished one but the outcome of reading it.               *)
(***************************************************************************)
EXTENDS Naturals

CONSTANTS
  Worker,      \* threads of the pool
  Pair,        \* technical ids
  None,        \* no pair
  Signed,      \* pairs whose metadata says signed, and that come with a signature
  Encrypted,   \* pairs whose payload is encrypted
  Compressed,  \* pairs whose payload is compressed
  Own,         \* pairs this host has published itself: both halves share the runtime
  RequireSig,  \* encryption.require_signature_inbound
  MaxSend,     \* bound: transmissions by the transport
  MaxFault,    \* bound: steps that raise
  MaxCrash     \* bound: crashes of the process

ASSUME InboundAssumption ==
  /\ None \notin Pair
  /\ Signed \subseteq Pair /\ Encrypted \subseteq Pair /\ Compressed \subseteq Pair
  /\ Own \subseteq Pair
  /\ RequireSig \in BOOLEAN
  /\ MaxSend \in Nat /\ MaxFault \in Nat /\ MaxCrash \in Nat

Part     == {"payload", "meta", "sig"}
Parts(p) == IF p \in Signed THEN Part ELSE {"payload", "meta"}

\* A file is growing while the transport writes it, and cut if it stops too early;
\* garbled, if what there is of it ends inside a character; altered, if it still
\* parses but names another base folder, directory or file than was sent.
Status  == {"none", "growing", "cut", "garbled", "altered", "whole"}
Damaged == {"growing", "cut", "garbled", "altered"}
Legible == {"altered", "whole"}
Derived == {"decrypted", "clear"}

VARIABLES
  (* the transport *)
  transit,  \* parts of a pair that are still to arrive
  (* the file system *)
  exch,     \* exchange_in: the parts of a pair
  old,      \* pairs whose payload in exchange_in has passed the grace period
  work,     \* processing/<id>/: the parts moved there
  derived,  \* processing/<id>/: what has been made of the payload there
  error,    \* pairs of which error/ holds the payload, or what it decodes to
  audit,    \* events recorded for an id, as far as anything reads them
  locks,    \* ids with a lock file
  (* the workers *)
  pc, pair,
  sig,      \* has the worker moved a signature in?
  parsed,   \* what it has parsed, and goes by: the metadata as it was then
  (* the service *)
  svc, batch, todo,
  (* history and bounds *)
  arrived,  \* pairs whose payload has reached exchange_in
  misread,  \* pairs of which a damaged file has been read
  overtaken,\* workers whose metadata came again after they parsed it, before they moved it
  times,    \* how often a pair was delivered
  sends, faults, crashes

disk    == <<exch, old, work, derived, error, audit>>
known   == <<sig, parsed, overtaken>>
workers == <<pc, pair, known>>
service == <<svc, batch, todo>>
vars    == <<transit, disk, locks, workers, service, arrived, misread, times, sends,
             faults, crashes>>

\* Steps inside `with locks.acquire(technical_id)`; "leave" is its normal exit.
Section == {"check", "dropPayload", "dropMeta", "payload", "meta", "sig", "verify",
            "verifyMeta", "decrypt", "decompress", "deliver", "record"}
Point == Section \cup {"idle", "inspect", "load", "lock", "leave", "capture", "error",
                       "orphan", "unparsed"}
Event == {"MOVED_TO_EXCHANGE_OUT", "MOVED_TO_BUSINESS_FOLDER", "ERROR"}

TypeOK ==
  /\ transit \in [Pair -> SUBSET Part]
  /\ exch \in [Pair -> [Part -> Status]]
  /\ old \subseteq Pair
  /\ work \in [Pair -> [Part -> Status]]
  /\ derived \in [Pair -> SUBSET Derived]
  /\ error \subseteq Pair
  /\ audit \in [Pair -> SUBSET Event]
  /\ locks \subseteq Pair
  /\ pc \in [Worker -> Point]
  /\ pair \in [Worker -> Pair \cup {None}]
  /\ sig \in [Worker -> BOOLEAN]
  /\ parsed \in [Worker -> {"none"} \cup Legible]
  /\ overtaken \subseteq Worker
  /\ svc \in {"down", "resolve", "scan", "dispatch", "failing"}
  /\ batch \subseteq Pair
  /\ todo \subseteq Pair
  /\ arrived \subseteq Pair
  /\ misread \subseteq Pair
  /\ times \in [Pair -> Nat]
  /\ sends \in 0 .. MaxSend
  /\ faults \in 0 .. MaxFault
  /\ crashes \in 0 .. MaxCrash

Nothing == [x \in Part |-> "none"]

Init ==
  /\ transit = [p \in Pair |-> {}]
  /\ exch = [p \in Pair |-> Nothing]
  /\ old = {}
  /\ work = [p \in Pair |-> Nothing]
  /\ derived = [p \in Pair |-> {}]
  /\ error = {}
  /\ audit = [p \in Pair |-> IF p \in Own THEN {"MOVED_TO_EXCHANGE_OUT"} ELSE {}]
  /\ locks = {}
  /\ pc = [w \in Worker |-> "idle"]
  /\ pair = [w \in Worker |-> None]
  /\ sig = [w \in Worker |-> FALSE]
  /\ parsed = [w \in Worker |-> "none"]
  /\ overtaken = {}
  /\ svc = "down" /\ batch = {} /\ todo = {}
  /\ arrived = {} /\ misread = {}
  /\ times = [p \in Pair |-> 0]
  /\ sends = 0 /\ faults = 0 /\ crashes = 0

----------------------------------------------------------------------------
(* The transport *)

program == <<work, derived, error, audit, locks, pc, pair, sig, parsed, service, misread,
             times, faults, crashes>>

\* A first transmission, or another one.
Send(p) ==
  /\ sends < MaxSend
  /\ transit[p] = {}
  /\ sends' = sends + 1
  /\ transit' = [transit EXCEPT ![p] = Parts(p)]
  /\ UNCHANGED <<exch, old, arrived, overtaken, program>>

\* Between load_file and the move of the file that was loaded.
GoesBy(w, p) == pair[w] = p /\ pc[w] \in {"lock", "check", "payload", "meta"}

\* A part of the same name that is there already is written over.
Arrive(p, x) ==
  /\ x \in transit[p]
  /\ transit' = [transit EXCEPT ![p] = transit[p] \ {x}]
  /\ exch' = [exch EXCEPT ![p][x] = "growing"]
  /\ old' = IF x = "payload" THEN old \ {p} ELSE old
  /\ arrived' = IF x = "payload" THEN arrived \cup {p} ELSE arrived
  /\ overtaken' = IF x = "meta" THEN overtaken \cup {w \in Worker : GoesBy(w, p)} ELSE overtaken
  /\ UNCHANGED <<sends, program>>

\* The transport closes a file it has written to the end, rightly or not, or stopped
\* writing; by then the file may have been moved.
Close(p, x) ==
  \E end \in {"whole", "cut"} \cup (IF x = "meta" THEN {"garbled", "altered"} ELSE {}) :
    /\ \/ /\ exch[p][x] = "growing"
          /\ exch' = [exch EXCEPT ![p][x] = end]
          /\ old' = IF x = "payload" THEN old \ {p} ELSE old
          /\ UNCHANGED work
       \/ /\ work[p][x] = "growing"
          /\ work' = [work EXCEPT ![p][x] = end]
          /\ UNCHANGED <<exch, old>>
    /\ UNCHANGED <<transit, derived, error, audit, locks, workers, service, arrived,
                   misread, times, sends, faults, crashes>>

\* The payload has been in exchange_in for the grace period.
Age(p) ==
  /\ exch[p]["payload"] # "none"
  /\ old' = old \cup {p}
  /\ p \notin old
  /\ UNCHANGED <<transit, exch, sends, arrived, overtaken, program>>

----------------------------------------------------------------------------
(* Small steps *)

outside == <<transit, arrived, sends, crashes>>
\* What every step of a pipeline leaves alone.
aside   == <<outside, pair, service, faults>>

Goto(w, l) == pc' = [pc EXCEPT ![w] = l]

At(w, l) == pc[w] = l /\ pair[w] # None

\* A worker is done with its payload.
Finish(w) == /\ Goto(w, "idle")
             /\ pair' = [pair EXCEPT ![w] = None]
             /\ sig' = [sig EXCEPT ![w] = FALSE]
             /\ parsed' = [parsed EXCEPT ![w] = "none"]
             /\ overtaken' = overtaken \ {w}

\* The files of p among xs are read; history keeps whether one of them was
\* damaged.
Read(files, p, xs) ==
  misread' = IF \E x \in xs : files[p][x] \in Damaged THEN misread \cup {p} ELSE misread

\* Parts of p leave exchange_in.
Gone(p, xs) ==
  /\ exch' = [exch EXCEPT ![p] = [x \in Part |-> IF x \in xs THEN "none" ELSE exch[p][x]]]
  /\ old' = IF "payload" \in xs THEN old \ {p} ELSE old

----------------------------------------------------------------------------
(* process: readiness, metadata, lock *)

\* A thread takes a payload of the pass.
Take(w, p) ==
  /\ pc[w] = "idle"
  /\ svc \in {"dispatch", "failing"}
  /\ p \in batch
  /\ batch' = batch \ {p}
  /\ pair' = [pair EXCEPT ![w] = p]
  /\ Goto(w, "inspect")
  /\ UNCHANGED <<disk, locks, known, svc, todo, outside, misread, times, faults>>

\* A part the readiness rules wait for; metadata that does not parse says nothing
\* about a signature.
Lacking(p) == \/ exch[p]["meta"] = "none"
              \/ /\ exch[p]["meta"] \in Legible /\ p \in Signed
                 /\ exch[p]["sig"] = "none"

\* The signature belongs to what must be stable when the metadata calls for it.
Expected(p) == IF exch[p]["meta"] \in Legible THEN Parts(p) ELSE {"payload", "meta"}

\* Slip: the age of a payload that lacks a part is not looked at.
NotReadyEver(w) ==
  LET p == pair[w] IN
  /\ At(w, "inspect")
  /\ Lacking(p) \/ \E x \in Expected(p) : exch[p][x] = "growing"
  /\ Finish(w)
  /\ UNCHANGED <<disk, locks, service, outside, misread, times, faults>>

\* state() = "wait": a part is missing, or seen to change.
NotReady(w) ==
  LET p == pair[w] IN
  /\ At(w, "inspect")
  /\ IF Lacking(p) THEN p \notin old
                   ELSE \E x \in Expected(p) : exch[p][x] = "growing"
  /\ Finish(w)
  /\ UNCHANGED <<disk, locks, service, outside, misread, times, faults>>

\* state() = "incomplete"
Incomplete(w) ==
  /\ At(w, "inspect")
  /\ Lacking(pair[w])
  /\ pair[w] \in old
  /\ Goto(w, "orphan")
  /\ UNCHANGED <<disk, locks, known, misread, times, aside>>

\* state() = "ready": is_stable cannot tell a writer that pauses from one that is done.
Complete(w) ==
  LET p == pair[w] IN
  /\ At(w, "inspect")
  /\ ~Lacking(p)
  /\ Read(exch, p, Expected(p))
  /\ Goto(w, "load")
  /\ UNCHANGED <<disk, locks, known, times, aside>>

\* load_file: metadata that is torn is not JSON, which is a DataError.  What is parsed
\* is what the worker goes by to the end, whatever becomes of the file.
Load(w) ==
  LET p == pair[w] IN
  /\ At(w, "load")
  /\ exch[p]["meta"] # "garbled"
  /\ Read(exch, p, {"meta"})
  /\ IF exch[p]["meta"] \in Legible
     THEN Goto(w, "lock") /\ parsed' = [parsed EXCEPT ![w] = exch[p]["meta"]]
     ELSE Goto(w, "unparsed") /\ UNCHANGED parsed
  /\ UNCHANGED <<disk, locks, sig, overtaken, times, aside>>

\* Torn inside a character it is not even text: the UnicodeDecodeError is no
\* DataError, leaves process() and ends the scan loop.
LoadEscapes(w) ==
  LET p == pair[w] IN
  /\ At(w, "load")
  /\ exch[p]["meta"] \in {"growing", "garbled"}
  /\ Read(exch, p, {"meta"})
  /\ Finish(w)
  /\ svc' = "failing"
  /\ UNCHANGED <<disk, locks, batch, todo, outside, times, faults>>

\* A LockError is caught like any other exception.
Lock(w) ==
  LET p == pair[w] IN
  /\ At(w, "lock")
  /\ IF p \in locks THEN Goto(w, "capture") /\ UNCHANGED locks
                    ELSE Goto(w, "check") /\ locks' = locks \cup {p}
  /\ UNCHANGED <<disk, known, misread, times, aside>>

\* The lock of a worker that died expires.
Expire(p) ==
  /\ p \in locks
  /\ \A w \in Worker : pair[w] = p => pc[w] \notin Section \cup {"leave"}
  /\ locks' = locks \ {p}
  /\ UNCHANGED <<disk, workers, service, outside, misread, times, faults>>

----------------------------------------------------------------------------
(* _pipeline *)

\* Slip: every pair is new.
CheckNothing(w) ==
  /\ At(w, "check")
  /\ Goto(w, "payload")
  /\ UNCHANGED <<disk, locks, known, misread, times, aside>>

\* An id that was delivered is a duplicate.
Check(w) ==
  /\ At(w, "check")
  /\ Goto(w, IF "MOVED_TO_BUSINESS_FOLDER" \in audit[pair[w]] THEN "dropPayload"
             ELSE "payload")
  /\ UNCHANGED <<disk, locks, known, misread, times, aside>>

\* _skip_duplicate
Drop(w, x, here, next) ==
  /\ At(w, here)
  /\ Gone(pair[w], {x})
  /\ Goto(w, next)
  /\ UNCHANGED <<work, derived, error, audit, locks, known, misread, times, aside>>

\* Slip: the receipt is recorded as the delivery.
MoveInRecorded(w, x, next) ==
  LET p == pair[w] IN
  /\ At(w, x)
  /\ exch[p][x] # "none" \/ x = "sig"
  /\ work' = [work EXCEPT ![p][x] = IF exch[p][x] = "none" THEN work[p][x] ELSE exch[p][x]]
  /\ sig' = [sig EXCEPT ![w] = (x = "sig" /\ exch[p][x] # "none")]
  /\ audit' = IF x = "sig" THEN [audit EXCEPT ![p] = audit[p] \cup {"MOVED_TO_BUSINESS_FOLDER"}]
              ELSE audit
  /\ Goto(w, next)
  /\ Gone(p, {x})
  /\ UNCHANGED <<derived, error, locks, parsed, overtaken, misread, times, aside>>

\* _move_pair_in, one part after the other; the signature only if it is there.
MoveIn(w, x, next) ==
  LET p == pair[w] IN
  /\ At(w, x)
  /\ IF exch[p][x] # "none"
     THEN /\ work' = [work EXCEPT ![p][x] = exch[p][x]]
          /\ sig' = [sig EXCEPT ![w] = (x = "sig")]
          /\ Goto(w, next)
     ELSE /\ x = "sig"
          /\ Goto(w, next)
          /\ UNCHANGED <<work, sig>>
  /\ Gone(p, {x})
  /\ UNCHANGED <<derived, error, audit, locks, parsed, overtaken, misread, times, aside>>

\* A step raises: the lock is released, then _quarantine runs without it.
ToQuarantine(w) == Goto(w, "capture") /\ locks' = locks \ {pair[w]}

\* _verify_payload_hash
Verify(w) ==
  LET p == pair[w] IN
  /\ At(w, "verify")
  /\ Read(work, p, {"payload"})
  /\ IF work[p]["payload"] = "whole" THEN Goto(w, "verifyMeta") /\ UNCHANGED locks
                                     ELSE ToQuarantine(w)
  /\ UNCHANGED <<disk, known, times, aside>>

\* What the pipeline does next with a payload in state l.
Following(p, l) ==
  CASE l = "verifyMeta" /\ p \in Encrypted              -> "decrypt"
    [] l \in {"verifyMeta", "decrypt"} /\ p \in Compressed -> "decompress"
    [] OTHER                                            -> "deliver"

\* Slip: metadata without a signature is taken for what it says.
VerifyMetaIfSigned(w) ==
  LET p == pair[w]
      valid == sig[w] => work[p]["meta"] = "whole" /\ work[p]["sig"] = "whole"
  IN
  /\ At(w, "verifyMeta")
  /\ Read(work, p, IF sig[w] THEN {"meta", "sig"} ELSE {})
  /\ IF valid THEN Goto(w, Following(p, "verifyMeta")) /\ UNCHANGED locks
              ELSE ToQuarantine(w)
  /\ UNCHANGED <<disk, known, times, aside>>

\* _verify_metadata_signature
VerifyMeta(w) ==
  LET p == pair[w]
      valid == IF sig[w] THEN work[p]["meta"] = "whole" /\ work[p]["sig"] = "whole"
                         ELSE ~RequireSig
  IN
  /\ At(w, "verifyMeta")
  /\ Read(work, p, IF sig[w] THEN {"meta", "sig"} ELSE {})
  /\ IF valid THEN Goto(w, Following(p, "verifyMeta")) /\ UNCHANGED locks
              ELSE ToQuarantine(w)
  /\ UNCHANGED <<disk, known, times, aside>>

\* _decrypt_or_passthrough, _maybe_decompress
Derive(w, here, x) ==
  LET p == pair[w] IN
  /\ At(w, here)
  /\ derived' = [derived EXCEPT ![p] = derived[p] \cup {x}]
  /\ Goto(w, Following(p, here))
  /\ UNCHANGED <<exch, old, work, error, audit, locks, known, misread, times, aside>>

\* _deliver: the file that came out last is moved to the base folder.
Deliver(w) ==
  LET p == pair[w] IN
  /\ At(w, "deliver")
  /\ CASE p \in Compressed -> /\ derived' = [derived EXCEPT ![p] = derived[p] \ {"clear"}]
                              /\ UNCHANGED work
       [] p \in Encrypted \ Compressed ->
            /\ derived' = [derived EXCEPT ![p] = derived[p] \ {"decrypted"}]
            /\ UNCHANGED work
       [] OTHER -> /\ work' = [work EXCEPT ![p]["payload"] = "none"]
                   /\ UNCHANGED derived
  /\ times' = [times EXCEPT ![p] = times[p] + 1]
  /\ Goto(w, "record")
  /\ UNCHANGED <<exch, old, error, audit, locks, known, misread, aside>>

\* The metadata stays in processing/<id>/, so that _cleanup never removes it.
Record(w) ==
  /\ At(w, "record")
  /\ audit' = [audit EXCEPT ![pair[w]] = audit[pair[w]] \cup {"MOVED_TO_BUSINESS_FOLDER"}]
  /\ Goto(w, "leave")
  /\ UNCHANGED <<exch, old, work, derived, error, locks, known, misread, times, aside>>

\* Slip: the lock file stays.
LeaveLocked(w) ==
  /\ At(w, "leave")
  /\ Finish(w)
  /\ UNCHANGED <<disk, locks, service, outside, misread, times, faults>>

Leave(w) ==
  /\ At(w, "leave")
  /\ locks' = locks \ {pair[w]}
  /\ Finish(w)
  /\ UNCHANGED <<disk, service, outside, misread, times, faults>>

----------------------------------------------------------------------------
(* Failure *)

\* A step raises: disk full, permission, crypto, a file that is in the way; the log and
\* the journal of a delivery that is recorded.
Fault(w) ==
  /\ pc[w] \in Section \cup {"lock", "leave"}
  /\ faults < MaxFault
  /\ faults' = faults + 1
  /\ IF pc[w] = "lock" THEN Goto(w, "capture") /\ UNCHANGED locks ELSE ToQuarantine(w)
  /\ UNCHANGED <<disk, pair, known, service, outside, misread, times>>

\* Can the payload be had from what capture() moves?  It does not take "decrypted".
Recoverable(p) == \/ exch[p]["payload"] # "none" \/ work[p]["payload"] # "none"
                  \/ "clear" \in derived[p]

\* _quarantine
Capture(w) ==
  LET p == pair[w] IN
  /\ At(w, "capture")
  /\ error' = IF Recoverable(p) THEN error \cup {p} ELSE error
  /\ Gone(p, Part)
  /\ work' = [work EXCEPT ![p] = Nothing]
  /\ derived' = [derived EXCEPT ![p] = derived[p] \ {"clear"}]
  /\ Goto(w, "error")
  /\ UNCHANGED <<audit, locks, known, misread, times, aside>>

RecordError(w) ==
  /\ At(w, "error")
  /\ audit' = [audit EXCEPT ![pair[w]] = audit[pair[w]] \cup {"ERROR"}]
  /\ Finish(w)
  /\ UNCHANGED <<exch, old, work, derived, error, locks, service, outside, misread,
                 times, faults>>

\* _quarantine_orphan takes the payload, _quarantine_unparsed the metadata too.
Refuse(w, here, xs) ==
  /\ At(w, here)
  /\ error' = error \cup {pair[w]}
  /\ Gone(pair[w], xs)
  /\ Finish(w)
  /\ UNCHANGED <<work, derived, audit, locks, service, outside, misread, times, faults>>

\* What raises outside the try, or in the quarantine, ends the scan loop.
Raise(w) ==
  /\ pc[w] \in {"inspect", "load", "capture", "error", "orphan", "unparsed"}
  /\ faults < MaxFault
  /\ faults' = faults + 1
  /\ Finish(w)
  /\ svc' = "failing"
  /\ UNCHANGED <<disk, locks, batch, todo, outside, misread, times>>

Step(w) ==
  \/ NotReady(w) \/ Incomplete(w) \/ Complete(w) \/ Load(w) \/ LoadEscapes(w) \/ Lock(w)
  \/ Check(w)
  \/ Drop(w, "payload", "dropPayload", "dropMeta") \/ Drop(w, "meta", "dropMeta", "leave")
  \/ MoveIn(w, "payload", "meta") \/ MoveIn(w, "meta", "sig") \/ MoveIn(w, "sig", "verify")
  \/ Verify(w) \/ VerifyMeta(w)
  \/ Derive(w, "decrypt", "decrypted") \/ Derive(w, "decompress", "clear")
  \/ Deliver(w) \/ Record(w) \/ Leave(w)
  \/ Capture(w) \/ RecordError(w)
  \/ Refuse(w, "orphan", {"payload"}) \/ Refuse(w, "unparsed", {"payload", "meta"})

----------------------------------------------------------------------------
(* Service.run; Outbound has the reconciler step by step *)

idling == <<locks, workers, outside, misread, times, faults>>

Directories == {p \in Pair : work[p] # Nothing \/ derived[p] # {}}

Boot ==
  /\ svc = "down"
  /\ svc' = "resolve"
  /\ todo' = Directories
  /\ UNCHANGED <<disk, batch, idling>>

\* has_terminal_success: what either half of the host calls a success.
Finished(p) == audit[p] \cap {"MOVED_TO_EXCHANGE_OUT", "MOVED_TO_BUSINESS_FOLDER"} # {}

\* Slip: what is left in processing/ goes, whatever it is.
ResolvePurging(p) ==
  /\ svc = "resolve"
  /\ p \in todo
  /\ work' = [work EXCEPT ![p] = Nothing]
  /\ derived' = [derived EXCEPT ![p] = {}]
  /\ todo' = todo \ {p}
  /\ UNCHANGED <<exch, old, error, audit, svc, batch, idling>>

\* _resolve_one: the leftovers of a success go, anything else is quarantined.
Resolve(p) ==
  /\ svc = "resolve"
  /\ p \in todo
  /\ IF Finished(p)
     THEN UNCHANGED <<error, audit>>
     ELSE /\ error' = IF work[p]["payload"] # "none" \/ derived[p] # {}
                      THEN error \cup {p} ELSE error
          /\ audit' = [audit EXCEPT ![p] = audit[p] \cup {"ERROR"}]
  /\ work' = [work EXCEPT ![p] = Nothing]
  /\ derived' = [derived EXCEPT ![p] = {}]
  /\ todo' = todo \ {p}
  /\ UNCHANGED <<exch, old, svc, batch, idling>>

Reconciled ==
  /\ svc = "resolve"
  /\ todo = {}
  /\ svc' = "scan"
  /\ UNCHANGED <<disk, batch, todo, idling>>

\* Slip: the sidecars are collected with the payloads.
ScanEverything ==
  /\ svc = "scan"
  /\ batch' = {p \in Pair : exch[p]["payload"] # "none"} \cup
              {<<p, "meta">> : p \in {q \in Pair : exch[q]["meta"] # "none"}}
  /\ svc' = "dispatch"
  /\ UNCHANGED <<disk, todo, idling>>

\* collect_inbound: the payloads there are now.
Scan ==
  /\ svc = "scan"
  /\ batch' = {p \in Pair : exch[p]["payload"] # "none"}
  /\ svc' = "dispatch"
  /\ UNCHANGED <<disk, todo, idling>>

Quiet == \A w \in Worker : pc[w] = "idle"

EndPass ==
  /\ svc = "dispatch"
  /\ batch = {}
  /\ Quiet
  /\ svc' = "scan"
  /\ UNCHANGED <<disk, batch, todo, idling>>

\* An exception ends the loop, once the pool has finished what it had begun.
Fail ==
  /\ svc = "failing"
  /\ Quiet
  /\ svc' = "down"
  /\ batch' = {}
  /\ UNCHANGED <<disk, todo, idling>>

Crash ==
  /\ svc # "down"
  /\ crashes < MaxCrash
  /\ crashes' = crashes + 1
  /\ pc' = [w \in Worker |-> "idle"]
  /\ pair' = [w \in Worker |-> None]
  /\ sig' = [w \in Worker |-> FALSE]
  /\ parsed' = [w \in Worker |-> "none"] /\ overtaken' = {}
  /\ svc' = "down" /\ batch' = {} /\ todo' = {}
  /\ UNCHANGED <<disk, locks, transit, arrived, sends, misread, times, faults>>

Run == Boot \/ (\E p \in Pair : Resolve(p)) \/ Reconciled \/ Scan \/ EndPass \/ Fail

Next ==
  \/ \E p \in Pair : \/ Send(p) \/ Age(p) \/ Expire(p)
                     \/ \E x \in Part : Arrive(p, x) \/ Close(p, x)
  \/ \E w \in Worker : \/ \E p \in Pair : Take(w, p)
                       \/ Step(w) \/ Fault(w) \/ Raise(w)
  \/ Run
  \/ Crash

Spec == Init /\ [][Next]_vars

\* Threads run, the loop goes round and is started again when it failed, time
\* passes, and the transport does not write to one file for ever.  It need not
\* send anything, nor all the parts of what it sends.
Fairness ==
  /\ \A w \in Worker : WF_vars(Step(w) \/ \E p \in Pair : Take(w, p))
  /\ \A p \in Pair : WF_vars(Age(p)) /\ WF_vars(\E x \in Part : Close(p, x))
  /\ WF_vars(Run)

FairSpec == Spec /\ Fairness

----------------------------------------------------------------------------
(* Properties *)

\* reconciliation.py, "resolves them WITHOUT losing data"; docs/en/00-overview.md 6,
\* "never lose a file": a payload that has reached exchange_in is there, in
\* processing/, in quarantine, or was delivered.
NoPayloadLost == \A p \in arrived :
  \/ exch[p]["payload"] # "none" \/ work[p]["payload"] # "none" \/ derived[p] # {}
  \/ p \in error \/ times[p] > 0

\* _verify_payload_hash, "BEFORE any cryptographic operation": what is about to be
\* delivered, and is derived from the payload in processing/, is what was sent; if
\* signatures are required, the metadata in processing/ is what was signed, and so is
\* what the worker goes by, unless the metadata came again after it was parsed
\* (inbound.py:126, 163, 188).
OnlyGenuineDelivered == \A w \in Worker : LET p == pair[w] IN
  pc[w] \in {"decrypt", "decompress", "deliver"} =>
    /\ work[p]["payload"] = "whole"
    /\ RequireSig => /\ sig[w] /\ work[p]["meta"] = "whole" /\ work[p]["sig"] = "whole"
                     /\ parsed[w] = "whole" \/ w \in overtaken

\* docs/en/09-error-handling.md 5.1: a technical id that was delivered is a duplicate
\* when it comes again.  Every delivery but the first takes a crash or a failed step
\* between a delivery and its record.
OneDeliveryPerLapse == \A p \in Pair : times[p] <= 1 + faults + crashes

\* The audit event on whose word a duplicate is deleted is true.
RecordedIsDelivered ==
  \A p \in Pair : "MOVED_TO_BUSINESS_FOLDER" \in audit[p] => times[p] > 0

\* While no step fails and the process does not crash, a pair is quarantined as an
\* error only because it is not signed as required or a damaged file was read.
QuarantinedForCause == \A p \in Pair :
  "ERROR" \in audit[p] /\ faults + crashes = 0 =>
    p \in misread \/ (RequireSig /\ p \notin Signed)

\* The abstract half.
Fit(p) == /\ work[p]["payload"] = "whole"
          /\ RequireSig => work[p]["meta"] = "whole" /\ work[p]["sig"] = "whole"
Abstract == INSTANCE Reception
            WITH waiting  <- {p \in Pair : exch[p]["payload"] # "none"},
                 held     <- {p \in Pair : work[p]["payload"] # "none"},
                 fit      <- {p \in Pair : Fit(p)},
                 recorded <- {p \in Pair : "MOVED_TO_BUSINESS_FOLDER" \in audit[p]},
                 aside    <- error,
                 lapses   <- faults + crashes

\* A pipeline of three files that arrive one by one, are checked, decrypted and
\* delivered is one reception: whatever fails and wherever the process crashes, a
\* payload is taken in unless its delivery is on record, delivered as it was sent and
\* again only after a lapse, dropped only as a duplicate of what is on record, and set
\* aside otherwise (inbound.py:137-151, 250-312; reconciliation.py:75-95).
ImplementsReception == Abstract!Spec

\* InboundReadiness, "retry later": a payload does not stay in exchange_in for ever,
\* unless metadata there keeps ending the scan loop.
PayloadResolved == \A p \in Pair :
  exch[p]["payload"] # "none" ~>
    exch[p]["payload"] = "none" \/ \E q \in Pair : exch[q]["meta"] = "garbled"

\* docs/en/09-error-handling.md 6, "an error on one file never affects the others": a
\* pair that has arrived whole does not stay in exchange_in, whatever else is there.
WholePairResolved == \A p \in Pair :
  (\A x \in Parts(p) : exch[p][x] = "whole") ~> exch[p]["payload"] = "none"

\* _verify_metadata_signature, "This binds the ROUTING fields (relative_path,
\* original_filename, alias, hashes...) to the trusted signer" (inbound.py:178): where
\* signatures are required, a file is delivered where its signed metadata says.
RoutedAsSigned == \A w \in Worker :
  pc[w] = "deliver" /\ RequireSig => parsed[w] = "whole"

=============================================================================
