---------------------------- MODULE ServiceLoop ----------------------------
(***************************************************************************)
(* The life of one service process: its start, the reconciliation, the     *)
(* scan loop with its worker pool, the stop request and the restart        *)
(* (service/runner.py, service/linux.py, service/windows.py,               *)
(* core/orchestrator.py, `filerouter run`).                                *)
(*                                                                         *)
(* What a pipeline does to its file is the subject of Outbound and         *)
(* Inbound; here an item is processed between a Begin and a Finish, or     *)
(* raises.  An item that raises does so whenever it is processed: a file   *)
(* whose name is not UTF-8 (outbound.py:38), a pair with damaged metadata  *)
(* (inbound.py:126).                                                       *)
(***************************************************************************)
EXTENDS Naturals, FiniteSets, Sequences, SequencesExt

CONSTANTS Outgoing,     \* files of the base folders
          Arriving,     \* payloads of exchange_in
          Raising,      \* those among them whose process() raises
          Hosts,        \* who the process may be started by
          Workers,      \* instance.workers of the configuration
          MaxCrashes,   \* bound on the crashes
          MaxRequests   \* bound on the stop requests

ASSUME LoopAssumption ==
    /\ IsFiniteSet(Outgoing \cup Arriving) \* os.walk and iterdir end
    /\ Raising \subseteq Outgoing \cup Arriving
    /\ Hosts \subseteq {"systemd", "scm", "terminal"}
    /\ Workers \in Nat \ {0}
    /\ {MaxCrashes, MaxRequests} \subseteq Nat

Items == Outgoing \cup Arriving
Halves == {"outbound", "inbound"}
Ended == {"stopped", "failed"}
Phases == {"loading", "reconciling", "testing", "listing", "running", "failing",
           "deciding", "asleep"} \cup Ended

VARIABLES
    host,      \* who started the process: systemd, the SCM, or a shell
    phase,     \* where its main thread is
    half,      \* the half of the pass it is in
    stop,      \* Orchestrator._stop
    queue,     \* items of this half, in the order listed, not begun yet
    listed,    \* the whole list of this half
    running,   \* items in a pipeline
    raised,    \* items whose exception the main thread has not seen yet
    place,     \* where each item is: not there yet, listed by a scan, or gone
    tried,     \* history: items that a pipeline has finished with, or raised on
    cut,       \* history: how often a pipeline was cut short, and by what
    wanted,    \* history: the operator has asked for a stop
    crashes, requests

vars == <<host, phase, half, stop, queue, listed, running, raised, place, tried,
          cut, wanted, crashes, requests>>
pass == <<half, queue, listed, running, raised>>
world == <<host, place, tried, cut, wanted, crashes, requests>>

ItemsOf(h) == IF h = "outbound" THEN Outgoing ELSE Arriving

(***************************************************************************)
(* _map: a single worker, or a single item, is processed by the main       *)
(* thread itself.                                                          *)
(***************************************************************************)
Pooled == Workers > 1 /\ Len(listed) > 1
Width == IF Pooled THEN Workers ELSE 1

Before(i, j) == \E m, n \in DOMAIN listed : m < n /\ listed[m] = i /\ listed[n] = j
Pending(i) == i \in running \cup ToSet(queue)

Init ==
    /\ host \in Hosts
    /\ phase = "loading" /\ half = "outbound" /\ stop = FALSE
    /\ queue = <<>> /\ listed = <<>> /\ running = {} /\ raised = {}
    /\ place \in [Items -> {"absent", "there"}]
    /\ tried = {} /\ cut = {} /\ wanted = FALSE
    /\ crashes = 0 /\ requests = 0

(* A file is dropped in a base folder, or a payload arrives.               *)
Submit(i) ==
    /\ place[i] = "absent"
    /\ place' = [place EXCEPT ![i] = "there"]
    /\ UNCHANGED <<host, phase, stop, pass, tried, cut, wanted, crashes, requests>>

-----------------------------------------------------------------------------
(* The main thread.                                                        *)

(* load_config and build_service are done, the handlers are installed.     *)
Load ==
    /\ phase = "loading"
    /\ phase' = "reconciling"
    /\ UNCHANGED <<stop, pass, world>>

(* reconcile() returns and run() creates the orchestrator, with _stop      *)
(* False, that stop() will find from now on.                               *)
Reconcile ==
    /\ phase = "reconciling"
    /\ phase' = "testing"
    /\ stop' = FALSE
    /\ UNCHANGED <<pass, world>>

(* while not self._stop: the request may still come between the test and   *)
(* the first listing.                                                      *)
Test ==
    /\ phase = "testing"
    /\ phase' = IF stop THEN "stopped" ELSE "listing"
    /\ half' = "outbound"
    /\ UNCHANGED <<stop, queue, listed, running, raised, world>>

(* collect_outbound and collect_inbound: what is there, in the order of    *)
(* the directory.  A file still being written is left for a later pass.    *)
Collect ==
    /\ phase = "listing"
    /\ phase' = "running"
    /\ LET there == {i \in ItemsOf(half) : place[i] = "there"}
       IN  \E order \in SetToAllKPermutations(there) :
             /\ ToSet(order) = there
             /\ listed' = order /\ queue' = order
    /\ UNCHANGED <<stop, half, running, raised, world>>

BeginUnlessStopped == \* slip: the workers heed the stop, the main thread waits
    /\ phase = "running" /\ queue # <<>> /\ ~stop
    /\ Cardinality(running) < Width
    /\ ~Pooled => raised = {}
    /\ running' = running \cup {Head(queue)}
    /\ queue' = Tail(queue)
    /\ UNCHANGED <<phase, stop, half, listed, raised, world>>

(* A worker, or the main thread, takes the next item of the list.          *)
Begin ==
    /\ phase = "running" /\ queue # <<>>
    /\ Cardinality(running) < Width
    /\ ~Pooled => raised = {}
    /\ running' = running \cup {Head(queue)}
    /\ queue' = Tail(queue)
    /\ UNCHANGED <<phase, stop, half, listed, raised, world>>

(* process() returns: the file is gone, or not ready and left for later.   *)
Finish(i) ==
    /\ i \in running \ Raising
    /\ running' = running \ {i}
    /\ tried' = tried \cup {i}
    /\ \E there \in {"there", "gone"} :
         /\ there = "there" => i \in Arriving
         /\ place' = [place EXCEPT ![i] = there]
    /\ UNCHANGED <<host, phase, half, stop, queue, listed, raised, cut, wanted,
                   crashes, requests>>

Raise(i) ==
    /\ i \in running \cap Raising
    /\ running' = running \ {i}
    /\ tried' = tried \cup {i}
    /\ raised' = raised \cup {i}
    /\ UNCHANGED <<host, phase, half, stop, queue, listed, place, cut, wanted,
                   crashes, requests>>

(* The main thread takes the results in the order of the list; the first   *)
(* exception closes pool.map, which cancels what has not been begun.       *)
Surface(i) ==
    /\ phase = "running" /\ i \in raised
    /\ \A j \in Items : Before(j, i) => ~Pending(j) /\ j \notin raised
    /\ phase' = "failing"
    /\ queue' = <<>>
    /\ UNCHANGED <<stop, half, listed, running, raised, world>>

FailAtOnce == \* slip: the pool is shut down without waiting
    /\ phase = "failing"
    /\ phase' = "failed"
    /\ raised' = {}
    /\ UNCHANGED <<stop, half, queue, listed, running, world>>

(* Leaving the `with` waits for the workers; then the exception leaves     *)
(* scan_once, run_forever and run().                                       *)
Fail ==
    /\ phase = "failing" /\ running = {}
    /\ phase' = "failed"
    /\ raised' = {}
    /\ UNCHANGED <<stop, half, queue, listed, running, world>>

EndHalfAtOnce == \* slip: the results are not waited for
    /\ phase = "running" /\ queue = <<>> /\ raised = {}
    /\ IF half = "outbound"
         THEN phase' = "listing" /\ half' = "inbound"
         ELSE phase' = "deciding" /\ UNCHANGED half
    /\ UNCHANGED <<stop, queue, listed, running, raised, world>>

EndHalfIfIdle == \* slip: a pass that finds no outbound work ends there
    /\ phase = "running" /\ queue = <<>> /\ running = {} /\ raised = {}
    /\ IF half = "outbound" /\ listed # <<>>
         THEN phase' = "listing" /\ half' = "inbound"
         ELSE phase' = "deciding" /\ UNCHANGED half
    /\ UNCHANGED <<stop, queue, listed, running, raised, world>>

EndHalf ==
    /\ phase = "running" /\ queue = <<>> /\ running = {} /\ raised = {}
    /\ IF half = "outbound"
         THEN phase' = "listing" /\ half' = "inbound"
         ELSE phase' = "deciding" /\ UNCHANGED half
    /\ UNCHANGED <<stop, queue, listed, running, raised, world>>

(* if self._stop: break; otherwise the sleep.                              *)
Decide ==
    /\ phase = "deciding"
    /\ phase' = IF stop THEN "stopped" ELSE "asleep"
    /\ UNCHANGED <<stop, pass, world>>

(* time.sleep runs to its end, whatever handler is called meanwhile.       *)
Wake ==
    /\ phase = "asleep"
    /\ phase' = "testing"
    /\ UNCHANGED <<stop, pass, world>>

Main == \/ Load \/ Reconcile \/ Test \/ Collect \/ Begin \/ EndHalf
        \/ \E i \in Items : Surface(i)
        \/ Fail \/ Decide \/ Wake

-----------------------------------------------------------------------------
(* The operator and the operating system.                                  *)

Request ==
    /\ requests < MaxRequests /\ phase \notin Ended
    /\ requests' = requests + 1
    /\ wanted' = TRUE

Looping == phase \notin Ended \cup {"loading", "reconciling"}

(* The handler of SIGTERM, or SvcStop in the thread of the dispatcher,     *)
(* calls service.stop(), which sets _stop if there is an orchestrator and  *)
(* does nothing if there is none.                                          *)
RequestStop ==
    /\ host # "terminal" /\ Request
    /\ host = "systemd" => phase # "loading"
    /\ stop' = (stop \/ Looping)
    /\ UNCHANGED <<host, phase, pass, place, tried, cut, crashes>>

(* SIGTERM before linux.run has installed the handler ends the process.    *)
Terminate ==
    /\ host = "systemd" /\ phase = "loading" /\ Request
    /\ phase' = "stopped"
    /\ UNCHANGED <<host, stop, pass, place, tried, cut, crashes>>

(* A pipeline that is cut short has moved its file in already, or not yet. *)
Cut(by) ==
    /\ \E kept \in SUBSET running :
         place' = [i \in Items |-> IF i \in running \ kept THEN "gone" ELSE place[i]]
    /\ cut' = IF running = {} THEN cut ELSE cut \cup {by}
    /\ running' = {} /\ queue' = <<>> /\ raised' = {}

(* Ctrl+C of `filerouter run`: KeyboardInterrupt, which no `except         *)
(* Exception` catches.  In a pool it leaves pool.map as any exception      *)
(* does; the pipeline of the main thread is cut short.                     *)
Interrupt ==
    /\ host = "terminal" /\ Request
    /\ IF phase \in {"running", "failing"} /\ Pooled
         THEN /\ phase' = "failing" /\ queue' = <<>>
              /\ UNCHANGED <<place, cut, running, raised>>
         ELSE phase' = "failed" /\ Cut("interrupt")
    /\ UNCHANGED <<host, half, stop, listed, tried, crashes>>

Crash ==
    /\ crashes < MaxCrashes /\ phase \notin Ended
    /\ crashes' = crashes + 1
    /\ phase' = "failed"
    /\ Cut("crash")
    /\ UNCHANGED <<host, half, stop, listed, tried, wanted, requests>>

(* Restart=on-failure of the unit, the recovery actions of the SCM.        *)
Restart ==
    /\ phase = "failed" /\ ~wanted /\ host # "terminal"
    /\ phase' = "loading"
    /\ queue' = <<>> /\ listed' = <<>> /\ stop' = FALSE
    /\ UNCHANGED <<half, running, raised, world>>

Next ==
    \/ Main
    \/ \E i \in Items : Submit(i) \/ Finish(i) \/ Raise(i)
    \/ RequestStop \/ Terminate \/ Interrupt \/ Crash \/ Restart

(***************************************************************************)
(* The main thread goes on, a pipeline ends, a failed service is started   *)
(* again.  Nothing makes anybody submit a file, ask for a stop or crash.   *)
(***************************************************************************)
Fairness ==
    /\ WF_vars(Main) /\ WF_vars(Restart)
    /\ \A i \in Items : WF_vars(Finish(i)) /\ WF_vars(Raise(i))

Spec == Init /\ [][Next]_vars /\ Fairness

-----------------------------------------------------------------------------
TypeOK ==
    /\ host \in Hosts /\ phase \in Phases /\ half \in Halves
    /\ {stop, wanted} \subseteq BOOLEAN
    /\ {queue, listed} \subseteq Seq(Items)
    /\ running \subseteq ToSet(listed) /\ raised \subseteq ToSet(listed) \cap Raising
    /\ IsSuffix(queue, listed)
    /\ running \cap ToSet(queue) = {} /\ Cardinality(running) <= Width
    /\ place \in [Items -> {"absent", "there", "gone"}]
    /\ tried \subseteq Items /\ cut \subseteq {"interrupt", "crash"}
    /\ crashes \in 0..MaxCrashes /\ requests \in 0..MaxRequests

(***************************************************************************)
(* Neither a stop nor the exception of another item cuts a pipeline short: *)
(* a process that has ended has no worker left in one, and but for a crash *)
(* only Ctrl+C does it, when the pipeline runs in the main thread          *)
(* (orchestrator.py:133, the `with` of the pool).                          *)
(***************************************************************************)
OnlyInterruptsCut ==
    /\ phase \in Ended => running = {}
    /\ "crash" \in cut => crashes > 0
    /\ "interrupt" \in cut => host = "terminal"

(***************************************************************************)
(* A stop request that finds an orchestrator ends the process, whatever    *)
(* the pass still holds and wherever the main thread is.                   *)
(***************************************************************************)
StopHeard == stop ~> phase \in Ended

(***************************************************************************)
(* A file that is there is processed, unless the service is asked to stop  *)
(* or ended in a shell, or a file raises that is collected in the same     *)
(* half of the pass or before it (orchestrator.py:99-134).                 *)
(***************************************************************************)
Obstructs(j, i) == j \in Raising /\ (j \in Outgoing \/ i \in Arriving)

Reached ==
    \A i \in Items :
        place[i] = "there" ~>
            \/ i \in tried \/ place[i] = "gone" \/ wanted
            \/ host = "terminal" /\ phase \in Ended
            \/ \E j \in Items : Obstructs(j, i) /\ place[j] = "there"

-----------------------------------------------------------------------------
(* What the documents say.                                                 *)

(***************************************************************************)
(* "The stop is cooperative: the current item finishes, the locks are      *)
(* released" (docs/en/13-operations-guide.md:76): whoever asks for a stop  *)
(* gets one.                                                               *)
(***************************************************************************)
EveryStopHeard == wanted ~> phase \in Ended

(***************************************************************************)
(* "An error on one file never affects the others"                         *)
(* (docs/en/09-error-handling.md:91).                                      *)
(***************************************************************************)
ErrorsAffectNoOther ==
    \A i \in Items \ Raising :
        place[i] = "there" ~>
            i \in tried \/ place[i] = "gone" \/ wanted \/ host = "terminal"

=============================================================================
