--------------------------- MODULE ProcessManager ---------------------------
(***************************************************************************)
(* TracingProcessManager: of the tracers of one machine, each a process    *)
(* with a pid, the first becomes the manager, keeps an agent running and   *)
(* writes its port to a file that the others watch.  One agent stands for  *)
(* each of the two sub-processes; both are handled alike.                  *)
(*                                                                         *)
(* A tracer may die at any step and its pid be used again.  Claim files    *)
(* outlive the process that wrote them, and so do agents.                  *)
(***************************************************************************)
EXTENDS Naturals, FiniteSets

CONSTANTS Tracers,      \* pids of processes with a tracer
          Ports,
          Stopping,     \* bound: the tracers whose process may announce its end
          None          \* no port, no process, no file

Agent == [owner : Tracers, port : Ports]

ASSUME ProcessAssumption == None \notin Ports \cup Agent

VARIABLES
    claims,     \* pids with a claim file
    file,       \* the port in the port file
    agents,     \* the agents that run
    tracer,     \* the state of each tracer
    overlap     \* history: two tracers were between 155 and 180 together

vars == <<claims, file, agents, tracer, overlap>>

Starting == {"delete", "claim"}
Looping == {"check", "look", "port", "start", "assign", "verify"}
Managing == Looping \cup {"ended"}
Places == {"down", "new", "off", "exists", "window", "watching"} \cup Starting \cup Managing

MaxFailures == 3        \* circuitBreakerMax

Down == [at |-> "down", listed |-> {}, gone |-> {}, port |-> None, own |-> None,
         failures |-> 0, stop |-> "no", disposed |-> FALSE, unseen |-> FALSE,
         unkilled |-> FALSE, event |-> FALSE, missed |-> FALSE]

Init ==
    /\ claims = {} /\ file = None /\ agents = {} /\ overlap = FALSE
    /\ tracer = [p \in Tracers |-> Down]

Alive(p) == tracer[p].at # "down"
Set(p, t) == tracer' = [tracer EXCEPT ![p] = t]
Go(p, place) == Set(p, [tracer[p] EXCEPT !.at = place])

-----------------------------------------------------------------------------
(***************************************************************************)
(* Initialize and the claim files.                                         *)
(***************************************************************************)

Boot(p) ==
    /\ ~Alive(p)
    /\ Go(p, "new")
    /\ UNCHANGED <<claims, file, agents, overlap>>

\* A process ends, in whatever step; its agent goes on.  A pid that is used
\* again has no agent of the former process in its metadata.
Die(p) ==
    /\ Alive(p)
    /\ Set(p, Down)
    /\ UNCHANGED <<claims, file, agents, overlap>>

\* The claim files, then the pids in use: a tracer that starts or ends between
\* the two counts as having done so before the first.
List(p) ==
    /\ tracer[p].at = "new"
    /\ Set(p, [tracer[p] EXCEPT !.at = "delete", !.listed = claims,
                                !.gone = {q \in claims : ~Alive(q)}])
    /\ overlap' = (overlap \/ \E q \in Tracers : tracer[q].at \in Starting)
    /\ UNCHANGED <<claims, file, agents>>

\* The claims of processes that are gone are deleted, those that can be.
Delete(p) ==
    /\ tracer[p].at = "delete"
    /\ \E deleted \in SUBSET tracer[p].gone :
          /\ claims' = claims \ deleted
          /\ Set(p, [tracer[p] EXCEPT
                      !.at = IF deleted = tracer[p].listed THEN "claim" ELSE "exists",
                      !.listed = {}, !.gone = {}])
    /\ UNCHANGED <<file, agents, overlap>>

\* A variant that becomes the manager though it could not write its claim.
ClaimUnwritten(p) ==
    /\ tracer[p].at = "claim"
    /\ claims' \in {claims, claims \cup {p}}
    /\ Go(p, "check")
    /\ UNCHANGED <<file, agents, overlap>>

\* The claim is written, or the exception ends Initialize with neither a loop
\* nor a watcher.
Claim(p) ==
    /\ tracer[p].at = "claim"
    /\ \/ claims' = claims \cup {p} /\ Go(p, "check")
       \/ Go(p, "off") /\ UNCHANGED claims
    /\ UNCHANGED <<file, agents, overlap>>

-----------------------------------------------------------------------------
(***************************************************************************)
(* The keep-alive loop of a manager.                                       *)
(***************************************************************************)

\* A variant that allows one failure more.
FailedOnceMore(t) ==
    [t EXCEPT !.failures = @ + 1,
              !.at = IF t.failures >= MaxFailures THEN "ended" ELSE "check"]

\* A round that failed; the third in a row ends the loop.
Failed(t) ==
    [t EXCEPT !.failures = @ + 1,
              !.at = IF t.failures + 1 >= MaxFailures THEN "ended" ELSE "check"]

\* A variant that goes on after StopProcesses.
CheckTokenNever(p) ==
    /\ tracer[p].at = "check"
    /\ Go(p, "look")
    /\ UNCHANGED <<claims, file, agents, overlap>>

CheckToken(p) ==
    /\ tracer[p].at = "check"
    /\ Go(p, IF tracer[p].stop = "no" THEN "look" ELSE "ended")
    /\ UNCHANGED <<claims, file, agents, overlap>>

\* A variant that takes a process it once started for a running one.
LookForReference(p) ==
    /\ tracer[p].at = "look"
    /\ Go(p, IF tracer[p].own # None \/ agents # {} THEN "check" ELSE "port")
    /\ UNCHANGED <<claims, file, agents, overlap>>

\* Its own agent or any other runs: this round does nothing, and leaves the
\* count of failures as it is.  A Process that was disposed throws.
Look(p) ==
    /\ tracer[p].at = "look"
    /\ IF tracer[p].disposed
       THEN Set(p, Failed(tracer[p]))
       ELSE Go(p, IF agents # {} THEN "check" ELSE "port")
    /\ UNCHANGED <<claims, file, agents, overlap>>

\* What the port file's change does to a tracer: an event for a watcher, nothing
\* for one that is between File.Exists and EnableRaisingEvents.
Notified(t) ==
    [t EXCEPT !.event = @ \/ (t.at = "watching" /\ t.stop # "done"),
              !.missed = (t.at = "window")]

\* A free port is kept and written to the file, or there is none.
GrabFreePort(p) ==
    /\ tracer[p].at = "port"
    /\ \/ \E port \in Ports \ {a.port : a \in agents} :
             /\ file' = port
             /\ tracer' = [q \in Tracers |->
                   IF q = p THEN [tracer[p] EXCEPT !.port = port, !.at = "start"]
                   ELSE Notified(tracer[q])]
       \/ /\ Set(p, [Failed(tracer[p]) EXCEPT !.port = None])
          /\ UNCHANGED file
    /\ UNCHANGED <<claims, agents, overlap>>

\* Process.Start: the new process ends at once if its port was taken since; or
\* Process.Start throws.  The process metadata.Process held has exited.
StartAgent(p) ==
    /\ tracer[p].at = "start"
    /\ \/ LET a == [owner |-> p, port |-> tracer[p].port]
          IN /\ Set(p, [tracer[p] EXCEPT !.own = a, !.at = "assign"])
             /\ agents' = IF \E b \in agents : b.port = a.port
                          THEN agents ELSE agents \cup {a}
       \/ Set(p, Failed(tracer[p])) /\ UNCHANGED agents
    /\ UNCHANGED <<claims, file, overlap>>

\* metadata.Process is set to it; unseen notes that SafelyKillProcess was
\* through with the process before.
AssignProcess(p) ==
    /\ tracer[p].at = "assign"
    /\ Set(p, [tracer[p] EXCEPT !.at = "verify", !.disposed = FALSE,
                                !.unseen = (tracer[p].stop \in {"killed", "done"})])
    /\ UNCHANGED <<claims, file, agents, overlap>>

\* 200 ms later: the failures are reset before the subscribers are alerted, and
\* one that throws counts as a failure of this round.
Verify(p) ==
    /\ tracer[p].at = "verify"
    /\ IF tracer[p].own \in agents /\ ~tracer[p].disposed
       THEN LET t == [tracer[p] EXCEPT !.failures = 0]
            IN Set(p, [t EXCEPT !.at = "check"]) \/ Set(p, Failed(t))
       ELSE Set(p, Failed(tracer[p]))
    /\ UNCHANGED <<claims, file, agents, overlap>>

AgentDies(a) ==
    /\ agents' = agents \ {a}
    /\ UNCHANGED <<claims, file, tracer, overlap>>

-----------------------------------------------------------------------------
(***************************************************************************)
(* The port file's watcher of the other tracers.                           *)
(***************************************************************************)

\* ReadPortAndAlertSubscribers; a read of a file that is being written changes
\* nothing and is followed by the event of that write.
Read(t) == [t EXCEPT !.port = IF file = None THEN @ ELSE file]

ReadExisting(p) ==
    /\ tracer[p].at = "exists"
    /\ Set(p, [Read(tracer[p]) EXCEPT !.at = "window"])
    /\ UNCHANGED <<claims, file, agents, overlap>>

EnableRaisingEvents(p) ==
    /\ tracer[p].at = "window"
    /\ Go(p, "watching")
    /\ UNCHANGED <<claims, file, agents, overlap>>

\* A variant that keeps the first port it read.
OnPortFileChangedOnce(p) ==
    /\ tracer[p].event
    /\ Set(p, [IF tracer[p].port = None THEN Read(tracer[p]) ELSE tracer[p] EXCEPT !.event = FALSE])
    /\ UNCHANGED <<claims, file, agents, overlap>>

OnPortFileChanged(p) ==
    /\ tracer[p].event
    /\ Set(p, [Read(tracer[p]) EXCEPT !.event = FALSE])
    /\ UNCHANGED <<claims, file, agents, overlap>>

-----------------------------------------------------------------------------
(***************************************************************************)
(* StopProcesses, from a handler of the end of the process: the loop goes  *)
(* on meanwhile.                                                           *)
(***************************************************************************)

Cancel(p) ==
    /\ p \in Stopping
    /\ tracer[p].at \in Managing \cup {"watching"} /\ tracer[p].stop = "no"
    /\ Set(p, [tracer[p] EXCEPT !.stop = "cancelled"])
    /\ UNCHANGED <<claims, file, agents, overlap>>

\* A variant that leaves the agent alone when the loop is over.
KillWhileLooping(p) ==
    /\ tracer[p].stop = "cancelled"
    /\ agents' = IF tracer[p].at = "ended" THEN agents ELSE agents \ {tracer[p].own}
    /\ Set(p, [tracer[p] EXCEPT !.stop = "killed"])
    /\ UNCHANGED <<claims, file, overlap>>

\* SafelyKillProcess: a process that was started and is not assigned yet is not
\* there to be killed; a failure is logged and the process runs on.
Kill(p) ==
    /\ tracer[p].stop = "cancelled"
    /\ \/ /\ tracer[p].at # "assign"
          /\ agents' = agents \ {tracer[p].own}
          /\ Set(p, [tracer[p] EXCEPT !.stop = "killed"])
       \/ /\ tracer[p].at = "assign" \/ tracer[p].own \in agents
          /\ Set(p, [tracer[p] EXCEPT !.stop = "killed",
                                      !.unkilled = (tracer[p].at # "assign")])
          /\ UNCHANGED agents
    /\ UNCHANGED <<claims, file, overlap>>

\* Dispose of the watcher and of the process that metadata.Process holds now.
Dispose(p) ==
    /\ tracer[p].stop = "killed"
    /\ Set(p, [tracer[p] EXCEPT !.stop = "done", !.event = FALSE,
                                !.disposed = (tracer[p].own # None)])
    /\ UNCHANGED <<claims, file, agents, overlap>>

Loop(p) == CheckToken(p) \/ Look(p) \/ GrabFreePort(p) \/ StartAgent(p)
           \/ AssignProcess(p) \/ Verify(p)

Next ==
    \/ \E p \in Tracers :
          \/ Boot(p) \/ Die(p) \/ List(p) \/ Delete(p) \/ Claim(p) \/ Loop(p)
          \/ ReadExisting(p) \/ EnableRaisingEvents(p) \/ OnPortFileChanged(p)
          \/ Cancel(p) \/ Kill(p) \/ Dispose(p)
    \/ \E a \in agents : AgentDies(a)

\* The thread pool runs the loop, and its delays end.
Spec == Init /\ [][Next]_vars /\ \A p \in Tracers : WF_vars(Loop(p))

-----------------------------------------------------------------------------
(***************************************************************************)
(* Properties.                                                             *)
(***************************************************************************)

\* The variables hold what the fields and files can hold; the loop counts to
\* three failures and no further.
TypeOK ==
    /\ claims \subseteq Tracers /\ agents \subseteq Agent
    /\ file \in Ports \cup {None} /\ overlap \in BOOLEAN
    /\ tracer \in [Tracers ->
          [at : Places, listed : SUBSET Tracers, gone : SUBSET Tracers,
           port : Ports \cup {None}, own : Agent \cup {None},
           failures : 0 .. MaxFailures, stop : {"no", "cancelled", "killed", "done"},
           disposed : BOOLEAN, unseen : BOOLEAN, unkilled : BOOLEAN,
           event : BOOLEAN, missed : BOOLEAN]]

Manager(p) == tracer[p].at \in Managing

\* Two live tracers are both managers only if two tracers were at the claim
\* files together: otherwise the claim of a live manager is there to be seen,
\* whoever dies and whichever pid is used again (lines 155 to 182).
OneManagerUnlessTogether ==
    ~overlap => \A p, q \in Tracers : Manager(p) /\ Manager(q) => p = q

\* The circuit breaker never gives up an agent that runs: a subscriber that
\* throws after each successful start does not add up to three failures
\* (lines 290 and 306).
BreakerAbandonsNoAgent ==
    \A p \in Tracers :
        tracer[p].at = "ended" /\ tracer[p].stop = "no" => tracer[p].own \notin agents

\* While a tracer that was stopped lives, its agent goes on only because its
\* kill failed, or because SafelyKillProcess could not see it: the loop was past
\* its test of the token, and Process.Start had not yet been assigned to
\* metadata.Process (lines 82 to 98, 204 to 212, 249 and 278).
AgentLeftOnlyByRace ==
    \A p \in Tracers :
        LET t == tracer[p] IN
        t.stop \in {"killed", "done"} /\ t.own \in agents
        => t.at = "assign" \/ t.unseen \/ t.unkilled

\* A watcher with no event to handle has the port of the file, unless the file
\* was last written just before the watcher's events were enabled (line 440).
WatcherHasPort ==
    \A p \in Tracers :
        LET t == tracer[p] IN
        t.at = "watching" /\ t.stop # "done" /\ ~t.event /\ ~t.missed /\ file # None
        => t.port = file

\* A manager that was stopped leaves its loop (line 249).
StoppedLoopEnds ==
    \A p \in Tracers :
        (Manager(p) /\ tracer[p].stop # "no") ~> (tracer[p].at \in {"ended", "down"})

\* While a manager loops, an agent that ended is started again, or the loop
\* gives up after three failures (lines 255 to 306).
AgentRestarted ==
    \A p \in Tracers :
        (tracer[p].at \in Looping) ~> (agents # {} \/ tracer[p].at \in {"ended", "down"})

\* A tracer that lives leaves no agent of its own running, by the breaker or by
\* StopProcesses, but for a kill that failed and the race of the kill with the
\* loop (lines 82 to 98 and 249 to 309).  A tracer that dies leaves its agent;
\* AgentRestarted is about its successor.
NoAgentAbandoned == BreakerAbandonsNoAgent /\ AgentLeftOnlyByRace
=============================================================================
