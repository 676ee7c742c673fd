------------------------ MODULE ProcessManagerProofs ------------------------
(***************************************************************************)
(* Proofs about ProcessManager, for any set of tracers and of ports.       *)
(***************************************************************************)
EXTENDS ProcessManager, TLAPS

State ==
    [at : Places, listed : SUBSET Tracers, gone : SUBSET Tracers,
     port : Ports \cup {None}, own : Agent \cup {None},
     failures : 0 .. MaxFailures, stop : {"no", "cancelled", "killed", "done"},
     disposed : BOOLEAN, unseen : BOOLEAN, unkilled : BOOLEAN,
     event : BOOLEAN, missed : BOOLEAN]

\* The loop is left with the third failure, and it starts an agent only after
\* it found a port.
Sound(t) ==
    /\ t \in State
    /\ t.at # "ended" => t.failures < MaxFailures
    /\ t.at = "start" => t.port \in Ports

TypeInv ==
    /\ claims \subseteq Tracers /\ agents \subseteq Agent
    /\ file \in Ports \cup {None} /\ overlap \in BOOLEAN
    /\ tracer \in [Tracers -> State]
    /\ \A p \in Tracers : Sound(tracer[p])

-----------------------------------------------------------------------------
\* The places of the code that the steps lead to.
LEMMA PlaceNames ==
    {"down", "new", "off", "exists", "window", "watching", "delete", "claim", "check",
     "look", "port", "start", "assign", "verify", "ended"} \subseteq Places
  BY DEF Places, Managing, Looping, Starting

\* A failing round keeps a tracer's state well formed (the circuit breaker).
LEMMA FailedSound ==
    ASSUME NEW t, Sound(t), t.failures < MaxFailures
    PROVE  Sound(Failed(t)) /\ Sound([Failed(t) EXCEPT !.port = None])
<1> DEFINE place == IF t.failures + 1 >= MaxFailures THEN "ended" ELSE "check"
<1>1. place \in Places
  BY PlaceNames
<1>2. t.failures + 1 \in 0 .. MaxFailures
  BY DEF Sound, State, MaxFailures
<1>3. Failed(t) = [t EXCEPT !.failures = t.failures + 1, !.at = place]
  BY DEF Failed, Sound, State
<1>4. /\ place \in {"ended", "check"}
      /\ place = "check" => t.failures + 1 < MaxFailures
  BY <1>2 DEF MaxFailures
<1> HIDE DEF place
<1> QED BY <1>1, <1>2, <1>3, <1>4 DEF Sound, State

\* Setting one tracer's state keeps all the states well formed.
LEMMA SetSound ==
    ASSUME TypeInv, NEW p \in Tracers, NEW t, Sound(t), Set(p, t)
    PROVE  /\ tracer' \in [Tracers -> State]
           /\ \A q \in Tracers : Sound(tracer'[q])
  BY DEF TypeInv, Set, Sound

\* So does going on to another place, other than Process.Start.
LEMMA GoSound ==
    ASSUME TypeInv, NEW p \in Tracers, NEW place \in Places, place # "start",
           Go(p, place), tracer[p].at # "ended"
    PROVE  /\ tracer' \in [Tracers -> State]
           /\ \A q \in Tracers : Sound(tracer'[q])
<1>1. Sound([tracer[p] EXCEPT !.at = place])
  BY DEF TypeInv, Sound, State
<1> QED BY <1>1, SetSound DEF Go

\* A change of the port file leaves the other fields of a tracer alone.
LEMMA NotifiedSound ==
    ASSUME NEW t, Sound(t)
    PROVE  /\ Sound(Notified(t)) /\ Notified(t).at = t.at
           /\ Notified(t).listed = t.listed /\ Notified(t).gone = t.gone
<1>1. /\ Notified(t) \in State /\ Notified(t).at = t.at
      /\ Notified(t).failures = t.failures /\ Notified(t).port = t.port
      /\ Notified(t).listed = t.listed /\ Notified(t).gone = t.gone
  BY DEF Sound, State, Notified
<1> QED BY <1>1 DEF Sound

\* So does a read of the port file.
LEMMA ReadSound ==
    ASSUME TypeInv, NEW t, Sound(t)
    PROVE  /\ Sound([Read(t) EXCEPT !.event = FALSE])
           /\ t.at # "ended" => Sound([Read(t) EXCEPT !.at = "window"])
<1>1. file \in Ports \cup {None}
  BY DEF TypeInv
<1>2. [Read(t) EXCEPT !.event = FALSE] \in State
  BY <1>1 DEF Sound, State, Read
<1>3. [Read(t) EXCEPT !.at = "window"] \in State
  BY <1>1, PlaceNames DEF Sound, State, Read
<1>4. t.at = "start" => Read(t).port \in Ports
  BY <1>1 DEF Sound, State, Read
<1> QED BY <1>2, <1>3, <1>4 DEF Sound, State, Read

\* The other changes the steps make to a tracer's state.
LEMMA FieldsSound ==
    ASSUME NEW t, Sound(t)
    PROVE  /\ \A place \in Places \ {"start"}, u, v \in SUBSET Tracers :
                t.at # "ended" => Sound([t EXCEPT !.at = place, !.listed = u, !.gone = v])
           /\ \A port \in Ports :
                t.at # "ended" => Sound([t EXCEPT !.port = port, !.at = "start"])
           /\ \A a \in Agent :
                t.at # "ended" => Sound([t EXCEPT !.own = a, !.at = "assign"])
           /\ \A b \in BOOLEAN :
                t.at # "ended" => Sound([t EXCEPT !.at = "verify", !.disposed = FALSE,
                                                  !.unseen = b])
           /\ Sound([t EXCEPT !.failures = 0])
           /\ Sound([t EXCEPT !.stop = "cancelled"])
           /\ Sound([t EXCEPT !.stop = "killed"])
           /\ \A b \in BOOLEAN : Sound([t EXCEPT !.stop = "killed", !.unkilled = b])
           /\ \A b \in BOOLEAN :
                Sound([t EXCEPT !.stop = "done", !.event = FALSE, !.disposed = b])
<1>1. ASSUME NEW place \in Places, place # "start", NEW u \in SUBSET Tracers,
             NEW v \in SUBSET Tracers, t.at # "ended"
      PROVE  Sound([t EXCEPT !.at = place, !.listed = u, !.gone = v])
  BY <1>1 DEF Sound, State
<1>2. ASSUME NEW port \in Ports, t.at # "ended"
      PROVE  Sound([t EXCEPT !.port = port, !.at = "start"])
  BY <1>2, PlaceNames DEF Sound, State
<1>3. ASSUME NEW a \in Agent, t.at # "ended"
      PROVE  Sound([t EXCEPT !.own = a, !.at = "assign"])
  BY <1>3, PlaceNames DEF Sound, State
<1>7. ASSUME NEW b \in BOOLEAN, t.at # "ended"
      PROVE  Sound([t EXCEPT !.at = "verify", !.disposed = FALSE, !.unseen = b])
  BY <1>7, PlaceNames DEF Sound, State
<1>4. Sound([t EXCEPT !.failures = 0])
  BY DEF Sound, State, MaxFailures
<1>5. Sound([t EXCEPT !.stop = "cancelled"])
  BY DEF Sound, State
<1>6. Sound([t EXCEPT !.stop = "killed"])
  BY DEF Sound, State
<1>8. ASSUME NEW b \in BOOLEAN
      PROVE  /\ Sound([t EXCEPT !.stop = "killed", !.unkilled = b])
             /\ Sound([t EXCEPT !.stop = "done", !.event = FALSE, !.disposed = b])
  BY DEF Sound, State
<1> QED BY <1>1, <1>2, <1>3, <1>4, <1>5, <1>6, <1>7, <1>8

-----------------------------------------------------------------------------
\* The initial state is well typed.
LEMMA InitTyped == Init => TypeInv
<1>1. Sound(Down)
  BY PlaceNames DEF Down, Sound, State, MaxFailures
<1> QED BY <1>1 DEF Init, TypeInv, Sound

\* Every step keeps the state well typed.
LEMMA NextTyped == TypeInv /\ [Next]_vars => TypeInv'
<1> SUFFICES ASSUME TypeInv, [Next]_vars PROVE TypeInv'
  OBVIOUS
<1>a. ASSUME claims' \subseteq Tracers, agents' \subseteq Agent,
             file' \in Ports \cup {None}, overlap' \in BOOLEAN,
             tracer' \in [Tracers -> State], \A q \in Tracers : Sound(tracer'[q])
      PROVE  TypeInv'
  BY <1>a DEF TypeInv, Sound
<1>b. \A p \in Tracers : Sound(tracer[p])
  BY DEF TypeInv
<1>c. \A p \in Tracers : tracer[p].at # "ended" => tracer[p].failures < MaxFailures
  BY <1>b DEF Sound
<1>1. CASE UNCHANGED vars
  BY <1>1 DEF vars, TypeInv, Sound
<1>2. ASSUME NEW p \in Tracers, Boot(p) PROVE TypeInv'
  BY <1>a, <1>2, GoSound, PlaceNames DEF Boot, Alive, TypeInv
<1>3. ASSUME NEW p \in Tracers, Die(p) PROVE TypeInv'
  <2>1. Sound(Down)
    BY PlaceNames DEF Down, Sound, State, MaxFailures
  <2> QED BY <1>a, <1>3, <2>1, SetSound DEF Die, TypeInv
<1>4. ASSUME NEW p \in Tracers, List(p) PROVE TypeInv'
  <2>1. Sound([tracer[p] EXCEPT !.at = "delete", !.listed = claims,
                                !.gone = {q \in claims : ~Alive(q)}])
    BY <1>4, <1>b, FieldsSound, PlaceNames DEF List, TypeInv
  <2>2. overlap' \in BOOLEAN
    BY <1>4 DEF List, TypeInv
  <2> QED BY <1>a, <1>4, <2>1, <2>2, SetSound DEF List, TypeInv
<1>5. ASSUME NEW p \in Tracers, Delete(p) PROVE TypeInv'
  <2>1. PICK deleted \in SUBSET tracer[p].gone :
          /\ claims' = claims \ deleted
          /\ Set(p, [tracer[p] EXCEPT
                    !.at = IF deleted = tracer[p].listed THEN "claim" ELSE "exists",
                    !.listed = {}, !.gone = {}])
    BY <1>5 DEF Delete
  <2> DEFINE place == IF deleted = tracer[p].listed THEN "claim" ELSE "exists"
  <2>2. place \in Places /\ place \notin {"start", "ended"}
    BY PlaceNames
  <2>3. Set(p, [tracer[p] EXCEPT !.at = place, !.listed = {}, !.gone = {}])
    BY <2>1
  <2>4. Sound([tracer[p] EXCEPT !.at = place, !.listed = {}, !.gone = {}])
    <3> HIDE DEF place
    <3> QED BY <1>5, <1>b, <2>2, FieldsSound DEF Delete
  <2>5. tracer' \in [Tracers -> State] /\ \A q \in Tracers : Sound(tracer'[q])
    <3> HIDE DEF place
    <3> QED BY <2>3, <2>4, SetSound
  <2> QED BY <1>a, <1>5, <2>1, <2>5 DEF Delete, TypeInv
<1>6. ASSUME NEW p \in Tracers, Claim(p) PROVE TypeInv'
  BY <1>a, <1>6, GoSound, PlaceNames DEF Claim, TypeInv
<1>7. ASSUME NEW p \in Tracers, CheckToken(p) PROVE TypeInv'
  BY <1>a, <1>7, GoSound, PlaceNames DEF CheckToken, TypeInv
<1>8. ASSUME NEW p \in Tracers, Look(p) PROVE TypeInv'
  <2>1. CASE Set(p, Failed(tracer[p]))
    BY <1>a, <1>b, <1>c, <1>8, <2>1, FailedSound, SetSound DEF Look, TypeInv
  <2>2. CASE \E place \in {"check", "port"} : Go(p, place)
    BY <1>a, <1>8, <2>2, GoSound, PlaceNames DEF Look, TypeInv
  <2> QED BY <1>8, <2>1, <2>2 DEF Look
<1>9. ASSUME NEW p \in Tracers, GrabFreePort(p) PROVE TypeInv'
  <2>1. CASE Set(p, [Failed(tracer[p]) EXCEPT !.port = None]) /\ UNCHANGED file
    BY <1>a, <1>b, <1>c, <1>9, <2>1, FailedSound, SetSound DEF GrabFreePort, TypeInv
  <2>2. ASSUME NEW port \in Ports \ {a.port : a \in agents}, file' = port,
               tracer' = [q \in Tracers |->
                   IF q = p THEN [tracer[p] EXCEPT !.port = port, !.at = "start"]
                   ELSE Notified(tracer[q])]
        PROVE  TypeInv'
    <3>1. Sound([tracer[p] EXCEPT !.port = port, !.at = "start"])
      BY <1>9, <1>b, FieldsSound DEF GrabFreePort
    <3>2. \A q \in Tracers : Sound(Notified(tracer[q]))
      BY <1>b, NotifiedSound
    <3>3. \A q \in Tracers : Sound(tracer'[q])
      BY <2>2, <3>1, <3>2
    <3>4. tracer' \in [Tracers -> State]
      BY <2>2, <3>1, <3>2 DEF Sound
    <3> QED BY <1>a, <1>9, <2>2, <3>3, <3>4 DEF GrabFreePort, TypeInv
  <2> QED BY <1>9, <2>1, <2>2 DEF GrabFreePort
<1>10. ASSUME NEW p \in Tracers, StartAgent(p) PROVE TypeInv'
  <2>1. CASE Set(p, Failed(tracer[p])) /\ UNCHANGED agents
    BY <1>a, <1>b, <1>c, <1>10, <2>1, FailedSound, SetSound DEF StartAgent, TypeInv
  <2> DEFINE a == [owner |-> p, port |-> tracer[p].port]
  <2>2. CASE /\ Set(p, [tracer[p] EXCEPT !.own = a, !.at = "assign"])
             /\ agents' = IF \E b \in agents : b.port = a.port
                          THEN agents ELSE agents \cup {a}
    <3>1. a \in Agent
      BY <1>10, <1>b DEF StartAgent, Sound, Agent
    <3>2. Sound([tracer[p] EXCEPT !.own = a, !.at = "assign"])
      <4> HIDE DEF a
      <4> QED BY <1>10, <1>b, <3>1, FieldsSound DEF StartAgent
    <3>3. tracer' \in [Tracers -> State] /\ \A q \in Tracers : Sound(tracer'[q])
      <4> HIDE DEF a
      <4> QED BY <2>2, <3>2, SetSound
    <3> QED BY <1>a, <1>10, <2>2, <3>1, <3>3 DEF StartAgent, TypeInv
  <2> QED BY <1>10, <2>1, <2>2 DEF StartAgent
<1>11. ASSUME NEW p \in Tracers, Verify(p) PROVE TypeInv'
  <2> DEFINE t == [tracer[p] EXCEPT !.failures = 0]
  <2>1. Sound(t) /\ t.failures < MaxFailures /\ t.at # "ended"
    <3>1. Sound(tracer[p]) /\ tracer[p].at = "verify"
      BY <1>11, <1>b DEF Verify
    <3>2. Sound(t)
      BY <3>1, FieldsSound, Zenon
    <3>3. t.failures = 0 /\ t.at = "verify"
      BY <3>1 DEF Sound, State
    <3> QED
      BY <3>2, <3>3 DEF MaxFailures
  <2>2. Sound([t EXCEPT !.at = "check"])
    <3> HIDE DEF t
    <3> QED BY <2>1, PlaceNames DEF Sound, State
  <2>3. \/ Set(p, [t EXCEPT !.at = "check"])
        \/ Set(p, Failed(t))
        \/ Set(p, Failed(tracer[p])) /\ tracer[p].failures < MaxFailures
    BY <1>11, <1>c DEF Verify
  <2>4. tracer' \in [Tracers -> State] /\ \A q \in Tracers : Sound(tracer'[q])
    <3> HIDE DEF t
    <3> QED BY <1>b, <2>1, <2>2, <2>3, FailedSound, SetSound
  <2> QED BY <1>a, <1>11, <2>4 DEF Verify, TypeInv
<1>12. ASSUME NEW p \in Tracers, ReadExisting(p) PROVE TypeInv'
  BY <1>a, <1>b, <1>12, ReadSound, SetSound DEF ReadExisting, TypeInv
<1>13. ASSUME NEW p \in Tracers, EnableRaisingEvents(p) PROVE TypeInv'
  BY <1>a, <1>13, GoSound, PlaceNames DEF EnableRaisingEvents, TypeInv
<1>14. ASSUME NEW p \in Tracers, OnPortFileChanged(p) PROVE TypeInv'
  BY <1>a, <1>b, <1>14, ReadSound, SetSound DEF OnPortFileChanged, TypeInv
<1>15. ASSUME NEW p \in Tracers, Cancel(p) PROVE TypeInv'
  <2>1. Sound([tracer[p] EXCEPT !.stop = "cancelled"])
    BY <1>b, FieldsSound
  <2> QED BY <1>a, <1>15, <2>1, SetSound DEF Cancel, TypeInv
<1>16. ASSUME NEW p \in Tracers, Kill(p) PROVE TypeInv'
  <2>1. \/ Set(p, [tracer[p] EXCEPT !.stop = "killed"])
        \/ \E b \in BOOLEAN : Set(p, [tracer[p] EXCEPT !.stop = "killed", !.unkilled = b])
    BY <1>16 DEF Kill
  <2>2. tracer' \in [Tracers -> State] /\ \A q \in Tracers : Sound(tracer'[q])
    BY <1>b, <2>1, FieldsSound, SetSound
  <2>3. UNCHANGED <<claims, file, overlap>> /\ agents' \subseteq agents
    BY <1>16 DEF Kill
  <2> QED BY <1>a, <2>2, <2>3 DEF TypeInv
<1>18. ASSUME NEW p \in Tracers, Dispose(p) PROVE TypeInv'
  <2>1. \E b \in BOOLEAN :
          Set(p, [tracer[p] EXCEPT !.stop = "done", !.event = FALSE, !.disposed = b])
    BY <1>18 DEF Dispose
  <2>2. tracer' \in [Tracers -> State] /\ \A q \in Tracers : Sound(tracer'[q])
    BY <1>b, <2>1, FieldsSound, SetSound
  <2> QED BY <1>a, <1>18, <2>2 DEF Dispose, TypeInv
<1>19. ASSUME NEW p \in Tracers, AssignProcess(p) PROVE TypeInv'
  <2> DEFINE b == tracer[p].stop \in {"killed", "done"}
  <2>1. /\ b \in BOOLEAN
        /\ Set(p, [tracer[p] EXCEPT !.at = "verify", !.disposed = FALSE, !.unseen = b])
    BY <1>19 DEF AssignProcess
  <2> HIDE DEF b
  <2>2. tracer' \in [Tracers -> State] /\ \A q \in Tracers : Sound(tracer'[q])
    BY <1>19, <1>b, <2>1, FieldsSound, SetSound DEF AssignProcess
  <2> QED BY <1>a, <1>19, <2>2 DEF AssignProcess, TypeInv
<1>17. ASSUME NEW a \in agents, AgentDies(a) PROVE TypeInv'
  BY <1>17 DEF AgentDies, TypeInv, Sound
<1> QED BY <1>1, <1>2, <1>3, <1>4, <1>5, <1>6, <1>7, <1>8, <1>9, <1>10, <1>11,
           <1>12, <1>13, <1>14, <1>15, <1>16, <1>17, <1>18, <1>19 DEF Next, Loop

\* The fields and files hold what TypeOK says, whatever the tracers and ports.
THEOREM TypeCorrect == Spec => []TypeOK
<1>1. TypeInv => TypeOK
  BY DEF TypeInv, TypeOK, State
<1> QED BY <1>1, InitTyped, NextTyped, PTL DEF Spec

-----------------------------------------------------------------------------
(***************************************************************************)
(* One manager.  While no two tracers were at the claim files together, a  *)
(* live manager's claim is there, and a tracer that is deleting claims has *)
(* it among those it listed and not among those it deletes.                *)
(***************************************************************************)

ManagerSeen(p, q) ==
    Manager(q) =>
        /\ q \in claims
        /\ tracer[p].at = "delete" => q \in tracer[p].listed \ tracer[p].gone
        /\ tracer[p].at # "claim"

ClaimInv ==
    ~overlap => \A p, q \in Tracers :
        /\ ManagerSeen(p, q)
        /\ tracer[p].at \in Starting /\ tracer[q].at \in Starting => p = q
        /\ Manager(p) /\ Manager(q) => p = q

\* A step that makes no tracer a manager and brings none to the claim files.
LEMMA ClaimFrame ==
    ASSUME ClaimInv, UNCHANGED <<claims, overlap>>,
           \A q \in Tracers : Manager(q)' => Manager(q),
           \A q \in Tracers :
              tracer'[q].at \in Starting =>
                  /\ tracer[q].at = tracer'[q].at
                  /\ tracer[q].listed = tracer'[q].listed
                  /\ tracer[q].gone = tracer'[q].gone
    PROVE  ClaimInv'
<1> SUFFICES ASSUME ~overlap', NEW p \in Tracers, NEW q \in Tracers
             PROVE  /\ ManagerSeen(p, q)'
                    /\ tracer'[p].at \in Starting /\ tracer'[q].at \in Starting => p = q
                    /\ Manager(p)' /\ Manager(q)' => p = q
  BY DEF ClaimInv
<1>1. ManagerSeen(p, q)'
  BY DEF ClaimInv, ManagerSeen, Starting
<1> QED BY <1>1 DEF ClaimInv

\* Setting the state of one tracer that is not at the claim files afterwards and
\* is a manager only if it was one before.
LEMMA ClaimSet ==
    ASSUME TypeInv, ClaimInv, UNCHANGED <<claims, overlap>>,
           NEW p \in Tracers, NEW t, Set(p, t), t.at \notin Starting,
           t.at \in Managing => tracer[p].at \in Managing
    PROVE  ClaimInv'
<1>1. \A q \in Tracers : tracer'[q] = IF q = p THEN t ELSE tracer[q]
  BY DEF TypeInv, Set
<1>2. \A q \in Tracers : Manager(q)' => Manager(q)
  BY <1>1 DEF Manager
<1> QED BY <1>1, <1>2, ClaimFrame

\* The same for a step to another place of the code.
LEMMA ClaimGo ==
    ASSUME TypeInv, ClaimInv, UNCHANGED <<claims, overlap>>,
           NEW p \in Tracers, NEW place, Go(p, place), place \notin Starting,
           place \in Managing => tracer[p].at \in Managing
    PROVE  ClaimInv'
<1>1. [tracer[p] EXCEPT !.at = place].at = place
  BY DEF TypeInv, State
<1> QED BY <1>1, ClaimSet DEF Go

\* A failing round stays in the loop or ends it.
LEMMA FailedPlace ==
    ASSUME NEW t, Sound(t)
    PROVE  /\ Failed(t).at \in {"check", "ended"}
           /\ [Failed(t) EXCEPT !.port = None].at \in {"check", "ended"}
  BY DEF Failed, Sound, State

\* Every step keeps the claim of a live manager where the next tracer sees it.
LEMMA NextClaims == TypeInv /\ ClaimInv /\ [Next]_vars => ClaimInv'
<1> SUFFICES ASSUME TypeInv, ClaimInv, [Next]_vars PROVE ClaimInv'
  OBVIOUS
<1>a. \A p \in Tracers : Sound(tracer[p])
  BY DEF TypeInv
<1>b. {"check", "ended", "look", "port", "start", "assign", "verify"} = Managing
  BY DEF Managing, Looping
<1>c. \A place \in {"down", "new", "off", "exists", "window", "watching"} :
          place \notin Starting \cup Managing
  BY DEF Starting, Managing, Looping
<1>d. \A place \in Managing : place \notin Starting
  BY DEF Starting, Managing, Looping
<1>1. CASE UNCHANGED vars
  BY <1>1 DEF vars, ClaimInv, ManagerSeen, Manager
<1>2. ASSUME NEW p \in Tracers, Boot(p) PROVE ClaimInv'
  BY <1>2, <1>c, ClaimGo DEF Boot
<1>3. ASSUME NEW p \in Tracers, Die(p) PROVE ClaimInv'
  <2>1. Down.at = "down"
    BY DEF Down
  <2> QED BY <1>3, <1>c, <2>1, ClaimSet DEF Die
<1>4. ASSUME NEW p \in Tracers, List(p) PROVE ClaimInv'
  <2> DEFINE t == [tracer[p] EXCEPT !.at = "delete", !.listed = claims,
                                    !.gone = {q \in claims : ~Alive(q)}]
  <2>1. /\ t.at = "delete" /\ t.listed = claims
        /\ t.gone = {q \in claims : ~Alive(q)}
    BY <1>a DEF Sound, State
  <2>2. \A q \in Tracers : tracer'[q] = IF q = p THEN t ELSE tracer[q]
    BY <1>4 DEF List, Set, TypeInv
  <2>3. SUFFICES ASSUME ~overlap' PROVE ClaimInv'
    BY DEF ClaimInv
  <2>4. ~overlap /\ \A q \in Tracers : tracer[q].at \notin Starting
    BY <1>4, <2>3 DEF List
  <2>5. claims' = claims
    BY <1>4 DEF List
  <2> HIDE DEF t
  <2>6. "delete" \notin Managing
    BY DEF Managing, Looping
  <2>7. \A q \in Tracers : Manager(q)' => q # p /\ Manager(q)
    BY <2>1, <2>2, <2>6 DEF Manager
  <2>8. \A q \in Tracers : Manager(q) => Alive(q) /\ q \in claims
    BY <2>4, <1>c DEF Manager, Alive, ClaimInv, ManagerSeen
  <2>9. \A r, q \in Tracers : ManagerSeen(r, q)'
    <3> SUFFICES ASSUME NEW r \in Tracers, NEW q \in Tracers, Manager(q)'
                 PROVE  /\ q \in claims'
                        /\ tracer'[r].at = "delete" => q \in tracer'[r].listed \ tracer'[r].gone
                        /\ tracer'[r].at # "claim"
      BY DEF ManagerSeen
    <3>1. Manager(q) /\ q \in claims /\ Alive(q)
      BY <2>7, <2>8
    <3>2. CASE r = p
      BY <2>1, <2>2, <2>5, <3>1, <3>2
    <3>3. CASE r # p
      BY <2>2, <2>4, <2>5, <3>1, <3>3 DEF Starting
    <3> QED BY <3>2, <3>3
  <2> QED BY <2>2, <2>4, <2>7, <2>9 DEF ClaimInv
<1>5. ASSUME NEW p \in Tracers, Delete(p) PROVE ClaimInv'
  <2>1. PICK deleted \in SUBSET tracer[p].gone :
          /\ claims' = claims \ deleted
          /\ Set(p, [tracer[p] EXCEPT
                    !.at = IF deleted = tracer[p].listed THEN "claim" ELSE "exists",
                    !.listed = {}, !.gone = {}])
    BY <1>5 DEF Delete
  <2> DEFINE place == IF deleted = tracer[p].listed THEN "claim" ELSE "exists"
  <2>2. /\ tracer'[p].at = place
        /\ \A q \in Tracers : q # p => tracer'[q] = tracer[q]
    BY <2>1 DEF Set, TypeInv, State
  <2>3. SUFFICES ASSUME ~overlap' PROVE ClaimInv'
    BY DEF ClaimInv
  <2>4. ~overlap /\ tracer[p].at = "delete"
    BY <1>5, <2>3 DEF Delete
  <2>5. \A q \in Tracers : Manager(q)' => q # p /\ Manager(q)
    BY <2>2 DEF Manager, Managing, Looping
  <2>6. \A q \in Tracers : Manager(q) => q \in tracer[p].listed \ tracer[p].gone /\ q \in claims
    BY <2>4 DEF ClaimInv, ManagerSeen
  <2>7. \A q \in Tracers : tracer'[q].at \in Starting => tracer[q].at \in Starting
    BY <2>2, <2>4 DEF Starting
  <2>8. \A r, q \in Tracers : ManagerSeen(r, q)'
    <3> SUFFICES ASSUME NEW r \in Tracers, NEW q \in Tracers, Manager(q)'
                 PROVE  /\ q \in claims'
                        /\ tracer'[r].at = "delete" => q \in tracer'[r].listed \ tracer'[r].gone
                        /\ tracer'[r].at # "claim"
      BY DEF ManagerSeen
    <3>1. q # p /\ Manager(q) /\ q \in tracer[p].listed /\ q \notin tracer[p].gone /\ q \in claims
      BY <2>5, <2>6
    <3>2. q \in claims'
      BY <2>1, <3>1
    <3>3. place = "exists"
      BY <3>1
    <3>4. CASE r = p
      BY <2>2, <3>2, <3>3, <3>4
    <3>5. CASE r # p
      BY <2>2, <2>4, <3>1, <3>2, <3>5 DEF ClaimInv, ManagerSeen
    <3> QED BY <3>4, <3>5
  <2> QED BY <2>4, <2>5, <2>7, <2>8 DEF ClaimInv
<1>6. ASSUME NEW p \in Tracers, Claim(p) PROVE ClaimInv'
  <2>1. CASE Go(p, "off") /\ UNCHANGED claims
    BY <1>6, <1>c, <2>1, ClaimGo DEF Claim
  <2>2. CASE claims' = claims \cup {p} /\ Go(p, "check")
    <3>1. /\ tracer'[p].at = "check" /\ tracer[p].at = "claim" /\ overlap' = overlap
          /\ \A q \in Tracers : q # p => tracer'[q] = tracer[q]
      BY <1>6, <2>2 DEF Claim, Go, Set, TypeInv, State
    <3>2. SUFFICES ASSUME ~overlap PROVE ClaimInv'
      BY <3>1 DEF ClaimInv
    <3>3. \A q \in Tracers : ~Manager(q) /\ (q # p => tracer[q].at \notin Starting)
      BY <3>1, <3>2 DEF ClaimInv, ManagerSeen, Starting
    <3>4. \A q \in Tracers : Manager(q)' => q = p
      BY <3>1, <3>3 DEF Manager
    <3>5. \A q \in Tracers : tracer'[q].at \notin Starting
      BY <3>1, <3>3 DEF Starting
    <3>6. \A r, q \in Tracers : ManagerSeen(r, q)'
      BY <2>2, <3>4, <3>5 DEF ManagerSeen, Starting
    <3> QED BY <3>4, <3>5, <3>6 DEF ClaimInv
  <2> QED BY <1>6, <2>1, <2>2 DEF Claim
<1>7. ASSUME NEW p \in Tracers, CheckToken(p) PROVE ClaimInv'
  BY <1>7, <1>b, <1>d, ClaimGo DEF CheckToken
<1>8. ASSUME NEW p \in Tracers, Look(p) PROVE ClaimInv'
  <2>1. CASE Set(p, Failed(tracer[p]))
    BY <1>8, <1>a, <1>b, <1>d, <2>1, FailedPlace, ClaimSet DEF Look
  <2>2. CASE \E place \in {"check", "port"} : Go(p, place)
    BY <1>8, <1>b, <1>d, <2>2, ClaimGo DEF Look
  <2> QED BY <1>8, <2>1, <2>2 DEF Look
<1>9. ASSUME NEW p \in Tracers, GrabFreePort(p) PROVE ClaimInv'
  <2>1. CASE Set(p, [Failed(tracer[p]) EXCEPT !.port = None])
    BY <1>9, <1>a, <1>b, <1>d, <2>1, FailedPlace, ClaimSet DEF GrabFreePort
  <2>2. ASSUME NEW port \in Ports,
               tracer' = [q \in Tracers |->
                   IF q = p THEN [tracer[p] EXCEPT !.port = port, !.at = "start"]
                   ELSE Notified(tracer[q])]
        PROVE  ClaimInv'
    <3>1. \A q \in Tracers : q # p =>
             /\ tracer'[q].at = tracer[q].at /\ tracer'[q].listed = tracer[q].listed
             /\ tracer'[q].gone = tracer[q].gone
      BY <1>a, <2>2, NotifiedSound
    <3>2. tracer'[p].at = "start" /\ tracer[p].at = "port"
      <4>1. [tracer[p] EXCEPT !.port = port, !.at = "start"].at = "start"
        BY <1>a DEF Sound, State
      <4> QED BY <1>9, <2>2, <4>1 DEF GrabFreePort
    <3>3. \A q \in Tracers : Manager(q)' => Manager(q)
      BY <1>b, <3>1, <3>2 DEF Manager
    <3> QED BY <1>9, <1>b, <1>d, <3>1, <3>2, <3>3, ClaimFrame DEF GrabFreePort
  <2> QED BY <1>9, <2>1, <2>2 DEF GrabFreePort
<1>10. ASSUME NEW p \in Tracers, StartAgent(p) PROVE ClaimInv'
  <2>1. CASE Set(p, Failed(tracer[p]))
    BY <1>10, <1>a, <1>b, <1>d, <2>1, FailedPlace, ClaimSet DEF StartAgent
  <2>2. ASSUME NEW a, Set(p, [tracer[p] EXCEPT !.own = a, !.at = "assign"])
        PROVE  ClaimInv'
    <3>1. [tracer[p] EXCEPT !.own = a, !.at = "assign"].at = "assign"
      BY <1>a DEF Sound, State
    <3> QED BY <1>10, <1>b, <1>d, <2>2, <3>1, ClaimSet DEF StartAgent
  <2> QED BY <1>10, <2>1, <2>2 DEF StartAgent
<1>11. ASSUME NEW p \in Tracers, Verify(p) PROVE ClaimInv'
  <2> DEFINE t == [tracer[p] EXCEPT !.failures = 0]
  <2>1. Sound(t) /\ [t EXCEPT !.at = "check"].at = "check"
    <3>1. Sound(t)
      BY <1>a, FieldsSound
    <3>2. [t EXCEPT !.at = "check"].at = "check"
      BY <1>a DEF Sound, State
    <3> QED BY <3>1, <3>2
  <2>2. \/ Set(p, [t EXCEPT !.at = "check"]) \/ Set(p, Failed(t))
        \/ Set(p, Failed(tracer[p]))
    BY <1>11 DEF Verify
  <2>3. /\ tracer[p].at \in Managing /\ UNCHANGED <<claims, overlap>>
        /\ "check" \in Managing \ Starting /\ "ended" \in Managing \ Starting
    BY <1>11, <1>b, <1>d DEF Verify
  <2> HIDE DEF t
  <2> QED BY <1>a, <2>1, <2>2, <2>3, FailedPlace, ClaimSet
<1>12. ASSUME NEW p \in Tracers, ReadExisting(p) PROVE ClaimInv'
  <2>1. [Read(tracer[p]) EXCEPT !.at = "window"].at = "window"
    BY <1>a DEF Read, Sound, State
  <2> QED BY <1>12, <1>c, <2>1, ClaimSet DEF ReadExisting
<1>13. ASSUME NEW p \in Tracers, EnableRaisingEvents(p) PROVE ClaimInv'
  BY <1>13, <1>c, ClaimGo DEF EnableRaisingEvents
<1>14. ASSUME NEW p \in Tracers, NEW t, Set(p, t), UNCHANGED <<claims, overlap>>,
              t.at = tracer[p].at, t.listed = tracer[p].listed, t.gone = tracer[p].gone
       PROVE  ClaimInv'
  <2>1. \A q \in Tracers : tracer'[q] = IF q = p THEN t ELSE tracer[q]
    BY <1>14 DEF Set, TypeInv
  <2>2. \A q \in Tracers : Manager(q)' => Manager(q)
    BY <1>14, <2>1 DEF Manager
  <2> QED BY <1>14, <2>1, <2>2, ClaimFrame
<1>15. ASSUME NEW p \in Tracers, OnPortFileChanged(p) PROVE ClaimInv'
  <2> DEFINE t == [Read(tracer[p]) EXCEPT !.event = FALSE]
  <2>1. t.at = tracer[p].at /\ t.listed = tracer[p].listed /\ t.gone = tracer[p].gone
    BY <1>a DEF Read, Sound, State
  <2> QED BY <1>14, <1>15, <2>1 DEF OnPortFileChanged
<1>16. ASSUME NEW p \in Tracers, Cancel(p) PROVE ClaimInv'
  <2> DEFINE t == [tracer[p] EXCEPT !.stop = "cancelled"]
  <2>1. t.at = tracer[p].at /\ t.listed = tracer[p].listed /\ t.gone = tracer[p].gone
    BY <1>a DEF Sound, State
  <2> QED BY <1>14, <1>16, <2>1 DEF Cancel
<1>17. ASSUME NEW p \in Tracers, Kill(p) PROVE ClaimInv'
  <2>1. \E t : /\ t = [tracer[p] EXCEPT !.stop = "killed"]
                    \/ \E b : t = [tracer[p] EXCEPT !.stop = "killed", !.unkilled = b]
              /\ Set(p, t)
    BY <1>17 DEF Kill
  <2>2. \E t : /\ t.at = tracer[p].at /\ t.listed = tracer[p].listed
              /\ t.gone = tracer[p].gone /\ Set(p, t)
    BY <1>a, <2>1 DEF Sound, State
  <2> QED BY <1>14, <1>17, <2>2 DEF Kill
<1>19. ASSUME NEW p \in Tracers, Dispose(p) PROVE ClaimInv'
  <2> DEFINE t == [tracer[p] EXCEPT !.stop = "done", !.event = FALSE,
                                    !.disposed = (tracer[p].own # None)]
  <2>1. t.at = tracer[p].at /\ t.listed = tracer[p].listed /\ t.gone = tracer[p].gone
    BY <1>a DEF Sound, State
  <2> QED BY <1>14, <1>19, <2>1 DEF Dispose
<1>20. ASSUME NEW p \in Tracers, AssignProcess(p) PROVE ClaimInv'
  <2> DEFINE t == [tracer[p] EXCEPT !.at = "verify", !.disposed = FALSE,
                                    !.unseen = (tracer[p].stop \in {"killed", "done"})]
  <2>1. t.at = "verify"
    BY <1>a DEF Sound, State
  <2>2. Set(p, t) /\ UNCHANGED <<claims, overlap>> /\ tracer[p].at = "assign"
    BY <1>20 DEF AssignProcess
  <2> HIDE DEF t
  <2> QED BY <1>b, <1>d, <2>1, <2>2, ClaimSet
<1>18. ASSUME NEW a \in agents, AgentDies(a) PROVE ClaimInv'
  BY <1>18 DEF AgentDies, ClaimInv, ManagerSeen, Manager
<1> QED BY <1>1, <1>2, <1>3, <1>4, <1>5, <1>6, <1>7, <1>8, <1>9, <1>10, <1>11,
           <1>12, <1>13, <1>15, <1>16, <1>17, <1>18, <1>19, <1>20 DEF Next, Loop

\* Two live tracers are managers together only if two were at the claim files
\* together, however many there are and whoever dies meanwhile.
THEOREM OneManager == Spec => []OneManagerUnlessTogether
<1>1. Init => ClaimInv
  BY DEF Init, ClaimInv, ManagerSeen, Manager, Managing, Looping, Starting, Down
<1>2. ClaimInv => OneManagerUnlessTogether
  BY DEF ClaimInv, OneManagerUnlessTogether
<1> QED BY <1>1, <1>2, InitTyped, NextTyped, NextClaims, PTL DEF Spec
-----------------------------------------------------------------------------
(***************************************************************************)
(* Ports and agents.  What a tracer knows of the port file f, from         *)
(* File.Exists on; and where the agents as leave a tracer that started one *)
(* of them: past a look that found none it runs none, and a stopped one    *)
(* runs only an agent that its kill failed on or could not see.            *)
(***************************************************************************)

PortSound(t, f) ==
    (/\ \/ t.at = "window"
        \/ t.at = "watching" /\ t.stop # "done" /\ ~t.event
     /\ ~t.missed /\ f # None) => t.port = f

OwnSound(p, t, as) ==
    /\ t.own # None => t.own.owner = p
    /\ t.at \in {"port", "start"} => t.own \notin as
    /\ t.at = "ended" /\ t.stop = "no" => t.own \notin as
    /\ t.stop \in {"killed", "done"} /\ t.own \in as =>
          t.at = "assign" \/ t.unseen \/ t.unkilled
    /\ t.disposed => t.stop = "done"

\* The fields of t that OwnSound reads are those of u, but for the place.
Keeps(t, u) ==
    /\ t.own = u.own /\ t.stop = u.stop /\ t.disposed = u.disposed
    /\ t.unseen = u.unseen /\ t.unkilled = u.unkilled

AgentInv ==
    \A p \in Tracers : PortSound(tracer[p], file) /\ OwnSound(p, tracer[p], agents)

\* A step of one tracer.  The agents may lose some, or gain one it owns.
LEMMA AgentSet ==
    ASSUME TypeInv, AgentInv, NEW p \in Tracers, NEW t, Set(p, t), file' = file,
           \A a \in agents' \ agents : a \in Agent /\ a.owner = p,
           PortSound(t, file), OwnSound(p, t, agents')
    PROVE  AgentInv'
<1>1. \A q \in Tracers : tracer'[q] = IF q = p THEN t ELSE tracer[q]
  BY DEF TypeInv, Set
<1>2. ASSUME NEW q \in Tracers, q # p PROVE OwnSound(q, tracer[q], agents')
  <2>1. tracer[q].own \in Agent \cup {None} /\ OwnSound(q, tracer[q], agents)
    BY DEF AgentInv, TypeInv, State
  <2>2. tracer[q].own \in agents' => tracer[q].own \in agents
    BY <1>2, <2>1, ProcessAssumption DEF OwnSound
  <2> QED BY <2>1, <2>2 DEF OwnSound
<1> QED BY <1>1, <1>2 DEF AgentInv

\* A failing round.  The loop is not left with an agent that runs.
LEMMA FailedAgent ==
    ASSUME NEW p \in Tracers, NEW t, Sound(t), NEW as, OwnSound(p, t, as), t.at # "assign",
           \/ t.own \notin as
           \/ t.stop = "done"
           \/ t.failures = 0
    PROVE  /\ PortSound(Failed(t), file) /\ OwnSound(p, Failed(t), as)
           /\ PortSound([Failed(t) EXCEPT !.port = None], file)
           /\ OwnSound(p, [Failed(t) EXCEPT !.port = None], as)
<1>1. t \in State
  BY DEF Sound
<1>2. /\ Failed(t).at \in {"check", "ended"} /\ (t.failures = 0 => Failed(t).at = "check")
      /\ Keeps(Failed(t), t)
  BY <1>1 DEF Failed, State, MaxFailures, Keeps
<1>3. LET u == [Failed(t) EXCEPT !.port = None] IN u.at = Failed(t).at /\ Keeps(u, t)
  BY <1>1 DEF Failed, State, Keeps
<1>4. ASSUME NEW u, u.at = Failed(t).at, Keeps(u, t)
      PROVE  PortSound(u, file) /\ OwnSound(p, u, as)
  BY <1>2, <1>4 DEF PortSound, OwnSound, Keeps
<1> QED BY <1>2, <1>3, <1>4

\* Going on to a place where neither the port nor the agents matter.
LEMMA AgentGo ==
    ASSUME TypeInv, AgentInv, NEW p \in Tracers, NEW place, Go(p, place),
           UNCHANGED <<file, agents>>, tracer[p].at # "assign",
           place \notin {"window", "watching", "port", "start"},
           place = "ended" => tracer[p].stop # "no"
    PROVE  AgentInv'
<1> DEFINE t == [tracer[p] EXCEPT !.at = place]
<1>1. t.at = place /\ Keeps(t, tracer[p])
  BY DEF TypeInv, State, Keeps
<1>2. Set(p, t)
  BY DEF Go
<1> HIDE DEF t
<1>3. PortSound(t, file) /\ OwnSound(p, t, agents)
  BY <1>1 DEF AgentInv, PortSound, OwnSound, Keeps
<1> QED BY <1>2, <1>3, AgentSet

\* Every step keeps the agents cared for.
LEMMA NextAgents == TypeInv /\ AgentInv /\ [Next]_vars => AgentInv'
<1> SUFFICES ASSUME TypeInv, AgentInv, [Next]_vars PROVE AgentInv'
  OBVIOUS
<1>a. \A p \in Tracers : Sound(tracer[p]) /\ tracer[p] \in State
  BY DEF TypeInv
<1>b. \A p \in Tracers : PortSound(tracer[p], file) /\ OwnSound(p, tracer[p], agents)
  BY DEF AgentInv
<1>1. CASE UNCHANGED vars
  BY <1>1 DEF vars, AgentInv
<1>2. ASSUME NEW p \in Tracers, Boot(p) PROVE AgentInv'
  BY <1>2, AgentGo DEF Boot, Alive
<1>3. ASSUME NEW p \in Tracers, Die(p) PROVE AgentInv'
  <2>1. None \notin agents
    BY ProcessAssumption DEF TypeInv
  <2>2. PortSound(Down, file) /\ OwnSound(p, Down, agents)
    BY <2>1 DEF Down, PortSound, OwnSound
  <2> QED BY <1>3, <2>2, AgentSet DEF Die
<1>4. ASSUME NEW p \in Tracers, NEW t, Set(p, t), UNCHANGED <<file, agents>>,
             t.at \in {"delete", "claim", "exists"}, tracer[p].at # "assign",
             Keeps(t, tracer[p])
      PROVE  AgentInv'
  <2>1. PortSound(t, file) /\ OwnSound(p, t, agents)
    BY <1>4, <1>b DEF PortSound, OwnSound, Keeps
  <2> QED BY <1>4, <2>1, AgentSet
<1>5. ASSUME NEW p \in Tracers, List(p) PROVE AgentInv'
  <2> DEFINE t == [tracer[p] EXCEPT !.at = "delete", !.listed = claims,
                                    !.gone = {q \in claims : ~Alive(q)}]
  <2>1. t.at = "delete" /\ Keeps(t, tracer[p])
    BY <1>a DEF State, Keeps
  <2>2. Set(p, t) /\ UNCHANGED <<file, agents>> /\ tracer[p].at = "new"
    BY <1>5 DEF List
  <2> HIDE DEF t
  <2> QED BY <1>4, <2>1, <2>2
<1>6. ASSUME NEW p \in Tracers, Delete(p) PROVE AgentInv'
  <2>1. PICK place \in {"claim", "exists"} :
          /\ Set(p, [tracer[p] EXCEPT !.at = place, !.listed = {}, !.gone = {}])
          /\ UNCHANGED <<file, agents>>
    BY <1>6 DEF Delete
  <2> DEFINE t == [tracer[p] EXCEPT !.at = place, !.listed = {}, !.gone = {}]
  <2>2. t.at = place /\ Keeps(t, tracer[p])
    BY <1>a DEF State, Keeps
  <2>3. Set(p, t) /\ tracer[p].at = "delete"
    BY <1>6, <2>1 DEF Delete
  <2> HIDE DEF t
  <2> QED BY <1>4, <2>1, <2>2, <2>3
<1>7. ASSUME NEW p \in Tracers, Claim(p) PROVE AgentInv'
  BY <1>7, AgentGo DEF Claim
<1>8. ASSUME NEW p \in Tracers, CheckToken(p) PROVE AgentInv'
  BY <1>8, AgentGo DEF CheckToken
<1>9. ASSUME NEW p \in Tracers, Look(p) PROVE AgentInv'
  <2>0. tracer[p].at = "look" /\ (tracer[p].disposed => tracer[p].stop = "done")
    BY <1>9, <1>b DEF Look, OwnSound
  <2>1. CASE Set(p, Failed(tracer[p])) /\ tracer[p].stop = "done"
    BY <1>9, <1>a, <1>b, <2>0, <2>1, FailedAgent, AgentSet DEF Look
  <2>2. CASE Go(p, "check")
    BY <1>9, <2>2, AgentGo DEF Look
  <2>3. CASE Go(p, "port") /\ agents = {}
    <3> DEFINE t == [tracer[p] EXCEPT !.at = "port"]
    <3>1. t.at = "port" /\ Keeps(t, tracer[p])
      BY <1>a DEF State, Keeps
    <3>2. Set(p, t) /\ UNCHANGED <<file, agents>>
      BY <1>9, <2>3 DEF Look, Go
    <3> HIDE DEF t
    <3>3. PortSound(t, file) /\ OwnSound(p, t, agents)
      BY <1>b, <2>3, <3>1 DEF PortSound, OwnSound, Keeps
    <3> QED BY <3>2, <3>3, AgentSet
  <2> QED BY <1>9, <2>0, <2>1, <2>2, <2>3 DEF Look
<1>10. ASSUME NEW p \in Tracers, GrabFreePort(p) PROVE AgentInv'
  <2>0. tracer[p].own \notin agents /\ agents' = agents /\ tracer[p].at = "port"
    BY <1>10, <1>b DEF GrabFreePort, OwnSound
  <2>1. CASE Set(p, [Failed(tracer[p]) EXCEPT !.port = None]) /\ UNCHANGED file
    BY <1>a, <1>b, <2>0, <2>1, FailedAgent, AgentSet
  <2>2. ASSUME NEW port \in Ports, file' = port,
               tracer' = [q \in Tracers |->
                   IF q = p THEN [tracer[p] EXCEPT !.port = port, !.at = "start"]
                   ELSE Notified(tracer[q])]
        PROVE  AgentInv'
    <3> DEFINE t == [tracer[p] EXCEPT !.port = port, !.at = "start"]
    <3>1. t.at = "start" /\ Keeps(t, tracer[p])
      BY <1>a DEF State, Keeps
    <3>2. \A q \in Tracers : tracer'[q] = IF q = p THEN t ELSE Notified(tracer[q])
      BY <2>2
    <3> HIDE DEF t
    <3>3. PortSound(t, file') /\ OwnSound(p, t, agents')
      BY <1>b, <2>0, <3>1 DEF PortSound, OwnSound, Keeps
    <3>4. ASSUME NEW q \in Tracers
          PROVE  PortSound(Notified(tracer[q]), file') /\ OwnSound(q, Notified(tracer[q]), agents')
      <4> DEFINE n == Notified(tracer[q])
      <4>1. /\ n.at = tracer[q].at /\ Keeps(n, tracer[q])
            /\ n.at = "window" => n.missed
            /\ n.at = "watching" /\ n.stop # "done" => n.event
        <5>1. tracer[q] \in State
          BY <1>a
        <5>2. n.at = tracer[q].at /\ Keeps(n, tracer[q])
          BY <5>1 DEF Notified, State, Keeps
        <5>3. n.missed = (tracer[q].at = "window")
          BY <5>1 DEF Notified, State
        <5>4. n.event = (tracer[q].event \/ (tracer[q].at = "watching" /\ tracer[q].stop # "done"))
          BY <5>1 DEF Notified, State
        <5> HIDE DEF n
        <5> QED BY <5>2, <5>3, <5>4 DEF Keeps
      <4> HIDE DEF n
      <4>2. PortSound(n, file')
        BY <4>1 DEF PortSound, Keeps
      <4>3. OwnSound(q, n, agents')
        BY <1>b, <2>0, <4>1 DEF OwnSound, Keeps
      <4> QED BY <4>2, <4>3 DEF n
    <3> QED BY <3>2, <3>3, <3>4 DEF AgentInv
  <2> QED BY <1>10, <2>1, <2>2 DEF GrabFreePort
<1>11. ASSUME NEW p \in Tracers, StartAgent(p) PROVE AgentInv'
  <2>0. tracer[p].own \notin agents /\ file' = file /\ tracer[p].at = "start"
    BY <1>11, <1>b DEF StartAgent, OwnSound
  <2>1. CASE Set(p, Failed(tracer[p])) /\ UNCHANGED agents
    BY <1>a, <1>b, <2>0, <2>1, FailedAgent, AgentSet
  <2> DEFINE a == [owner |-> p, port |-> tracer[p].port]
             t == [tracer[p] EXCEPT !.own = a, !.at = "assign"]
  <2>2. CASE /\ Set(p, t)
             /\ agents' = IF \E b \in agents : b.port = a.port
                          THEN agents ELSE agents \cup {a}
    <3>1. a \in Agent /\ a.owner = p
      BY <1>11, <1>a DEF StartAgent, Sound, Agent
    <3>2. agents' = agents \/ agents' = agents \cup {a}
      BY <2>2
    <3> HIDE DEF a
    <3>3. /\ t.at = "assign" /\ t.own = a /\ t.stop = tracer[p].stop
          /\ t.disposed = tracer[p].disposed
      BY <1>a DEF State
    <3>4. Set(p, t)
      BY <2>2
    <3> HIDE DEF t
    <3>5. PortSound(t, file) /\ OwnSound(p, t, agents')
      BY <1>b, <3>1, <3>3 DEF PortSound, OwnSound
    <3> QED BY <2>0, <3>1, <3>2, <3>4, <3>5, AgentSet
  <2> QED BY <1>11, <2>1, <2>2 DEF StartAgent
<1>20. ASSUME NEW p \in Tracers, AssignProcess(p) PROVE AgentInv'
  <2> DEFINE b == tracer[p].stop \in {"killed", "done"}
             t == [tracer[p] EXCEPT !.at = "verify", !.disposed = FALSE, !.unseen = b]
  <2>1. /\ t.at = "verify" /\ t.own = tracer[p].own /\ t.stop = tracer[p].stop
        /\ ~t.disposed /\ (t.stop \in {"killed", "done"} => t.unseen)
    <3>1. tracer[p].stop \in {"killed", "done"} => b
      OBVIOUS
    <3> HIDE DEF b
    <3>2. /\ t.at = "verify" /\ t.own = tracer[p].own /\ t.stop = tracer[p].stop
          /\ t.disposed = FALSE /\ t.unseen = b
      BY <1>a DEF State
    <3> HIDE DEF t
    <3> QED BY <3>1, <3>2
  <2>2. Set(p, t) /\ UNCHANGED <<file, agents>>
    BY <1>20 DEF AssignProcess
  <2> HIDE DEF t
  <2>3. PortSound(t, file) /\ OwnSound(p, t, agents)
    BY <1>b, <2>1 DEF PortSound, OwnSound
  <2> QED BY <2>2, <2>3, AgentSet
<1>12. ASSUME NEW p \in Tracers, Verify(p) PROVE AgentInv'
  <2> DEFINE t == [tracer[p] EXCEPT !.failures = 0]
  <2>0. UNCHANGED <<file, agents>> /\ tracer[p].at = "verify"
    BY <1>12 DEF Verify
  <2>1. CASE Set(p, Failed(tracer[p])) /\ (tracer[p].own \notin agents \/ tracer[p].disposed)
    <3>1. tracer[p].own \notin agents \/ tracer[p].stop = "done"
      BY <1>b, <2>1 DEF OwnSound
    <3> QED BY <1>a, <1>b, <2>0, <2>1, <3>1, FailedAgent, AgentSet
  <2>2. /\ Sound(t) /\ t.failures = 0 /\ Keeps(t, tracer[p]) /\ t.at = tracer[p].at
    <3>1. Sound(t)
      BY <1>a, FieldsSound
    <3>2. t.failures = 0 /\ Keeps(t, tracer[p]) /\ t.at = tracer[p].at
      BY <1>a DEF State, Keeps
    <3> QED BY <3>1, <3>2
  <2>3. LET u == [t EXCEPT !.at = "check"] IN u.at = "check" /\ Keeps(u, tracer[p])
    BY <1>a DEF State, Keeps
  <2>4. CASE Set(p, [t EXCEPT !.at = "check"]) \/ Set(p, Failed(t))
    <3> HIDE DEF t
    <3>1. OwnSound(p, t, agents)
      BY <1>b, <2>2 DEF OwnSound, Keeps
    <3>2. PortSound(Failed(t), file) /\ OwnSound(p, Failed(t), agents)
      BY <2>0, <2>2, <3>1, FailedAgent
    <3> DEFINE u == [t EXCEPT !.at = "check"]
    <3>3. u.at = "check" /\ Keeps(u, tracer[p])
      BY <2>3
    <3>4. Set(p, u) \/ Set(p, Failed(t))
      BY <2>4
    <3> HIDE DEF u
    <3>5. PortSound(u, file) /\ OwnSound(p, u, agents)
      BY <1>b, <2>0, <3>3 DEF PortSound, OwnSound, Keeps
    <3> QED BY <2>0, <3>2, <3>4, <3>5, AgentSet
  <2> QED BY <1>12, <2>1, <2>4 DEF Verify
<1>13. ASSUME NEW p \in Tracers, ReadExisting(p) PROVE AgentInv'
  <2> DEFINE t == [Read(tracer[p]) EXCEPT !.at = "window"]
  <2>1. /\ t.at = "window" /\ Keeps(t, tracer[p])
        /\ file # None => t.port = file
    BY <1>a DEF Read, State, Keeps
  <2>2. Set(p, t) /\ UNCHANGED <<file, agents>>
    BY <1>13 DEF ReadExisting
  <2>4. tracer[p].at = "exists"
    BY <1>13 DEF ReadExisting
  <2> HIDE DEF t
  <2>3. PortSound(t, file) /\ OwnSound(p, t, agents)
    BY <1>b, <2>1, <2>4 DEF PortSound, OwnSound, Keeps
  <2> QED BY <2>2, <2>3, AgentSet
<1>14. ASSUME NEW p \in Tracers, EnableRaisingEvents(p) PROVE AgentInv'
  <2> DEFINE t == [tracer[p] EXCEPT !.at = "watching"]
  <2>1. /\ t.at = "watching" /\ Keeps(t, tracer[p])
        /\ t.port = tracer[p].port /\ t.missed = tracer[p].missed
    BY <1>a DEF State, Keeps
  <2>2. Set(p, t) /\ UNCHANGED <<file, agents>> /\ tracer[p].at = "window"
    BY <1>14 DEF EnableRaisingEvents, Go
  <2> HIDE DEF t
  <2>3. PortSound(t, file) /\ OwnSound(p, t, agents)
    BY <1>b, <2>1, <2>2 DEF PortSound, OwnSound, Keeps
  <2> QED BY <2>2, <2>3, AgentSet
<1>15. ASSUME NEW p \in Tracers, OnPortFileChanged(p) PROVE AgentInv'
  <2> DEFINE t == [Read(tracer[p]) EXCEPT !.event = FALSE]
  <2>1. /\ t.at = tracer[p].at /\ Keeps(t, tracer[p])
        /\ file # None => t.port = file
    BY <1>a DEF Read, State, Keeps
  <2>2. Set(p, t) /\ UNCHANGED <<file, agents>>
    BY <1>15 DEF OnPortFileChanged
  <2> HIDE DEF t
  <2>3. PortSound(t, file) /\ OwnSound(p, t, agents)
    BY <1>b, <2>1 DEF PortSound, OwnSound, Keeps
  <2> QED BY <2>2, <2>3, AgentSet
<1>16. ASSUME NEW p \in Tracers, Cancel(p) PROVE AgentInv'
  <2> DEFINE t == [tracer[p] EXCEPT !.stop = "cancelled"]
  <2>1. /\ t.at = tracer[p].at /\ t.own = tracer[p].own /\ t.stop = "cancelled"
        /\ t.disposed = tracer[p].disposed
        /\ t.event = tracer[p].event /\ t.missed = tracer[p].missed /\ t.port = tracer[p].port
    BY <1>a DEF State
  <2>2. Set(p, t) /\ UNCHANGED <<file, agents>> /\ tracer[p].stop = "no"
    BY <1>16 DEF Cancel
  <2> HIDE DEF t
  <2>3. PortSound(t, file) /\ OwnSound(p, t, agents)
    BY <1>b, <2>1, <2>2 DEF PortSound, OwnSound
  <2> QED BY <2>2, <2>3, AgentSet
<1>17. ASSUME NEW p \in Tracers, Kill(p) PROVE AgentInv'
  <2>1. PICK t :
          /\ Set(p, t) /\ file' = file
          /\ \/ /\ t = [tracer[p] EXCEPT !.stop = "killed"]
                /\ agents' = agents \ {tracer[p].own}
             \/ /\ t = [tracer[p] EXCEPT !.stop = "killed",
                                         !.unkilled = (tracer[p].at # "assign")]
                /\ agents' = agents
    BY <1>17 DEF Kill
  <2>2. /\ t.at = tracer[p].at /\ t.own = tracer[p].own /\ t.stop = "killed"
        /\ t.missed = tracer[p].missed /\ t.port = tracer[p].port
        /\ t.event = tracer[p].event /\ t.disposed = tracer[p].disposed
        /\ agents' \subseteq agents
        /\ t.own \in agents' => t.at = "assign" \/ t.unkilled
    BY <1>a, <2>1 DEF State
  <2>3. tracer[p].stop = "cancelled"
    BY <1>17 DEF Kill
  <2>4. PortSound(t, file)
    BY <1>b, <2>2, <2>3 DEF PortSound
  <2>5. OwnSound(p, t, agents')
    BY <1>b, <2>2, <2>3 DEF OwnSound
  <2> QED BY <2>1, <2>2, <2>4, <2>5, AgentSet
<1>19. ASSUME NEW p \in Tracers, Dispose(p) PROVE AgentInv'
  <2> DEFINE t == [tracer[p] EXCEPT !.stop = "done", !.event = FALSE,
                                    !.disposed = (tracer[p].own # None)]
  <2>1. /\ t.at = tracer[p].at /\ t.own = tracer[p].own /\ t.stop = "done"
        /\ t.missed = tracer[p].missed /\ t.port = tracer[p].port
        /\ t.unseen = tracer[p].unseen /\ t.unkilled = tracer[p].unkilled
    BY <1>a DEF State
  <2>2. Set(p, t) /\ UNCHANGED <<file, agents>> /\ tracer[p].stop = "killed"
    BY <1>19 DEF Dispose
  <2> HIDE DEF t
  <2>3. PortSound(t, file) /\ OwnSound(p, t, agents)
    BY <1>b, <2>1, <2>2 DEF PortSound, OwnSound
  <2> QED BY <2>2, <2>3, AgentSet
<1>18. ASSUME NEW a \in agents, AgentDies(a) PROVE AgentInv'
  BY <1>18 DEF AgentDies, AgentInv, OwnSound
<1> QED BY <1>1, <1>2, <1>3, <1>5, <1>6, <1>7, <1>8, <1>9, <1>10, <1>11, <1>12,
           <1>13, <1>14, <1>15, <1>16, <1>17, <1>18, <1>19, <1>20 DEF Next, Loop

\* AgentInv holds throughout.
LEMMA AgentInvariant == Spec => []AgentInv
<1>1. Init => AgentInv
  BY DEF Init, AgentInv, PortSound, OwnSound, Down
<1> QED BY <1>1, InitTyped, NextTyped, NextAgents, PTL DEF Spec

\* A watcher without an event to handle has the port in the file, but for the
\* write between File.Exists and EnableRaisingEvents.
THEOREM WatcherPort == Spec => []WatcherHasPort
<1>1. AgentInv => WatcherHasPort
  BY DEF AgentInv, PortSound, WatcherHasPort
<1> QED BY <1>1, AgentInvariant, PTL

\* While its tracer lives, the breaker gives up no agent that runs, and one
\* outlives StopProcesses only if its kill failed or could not see it.
THEOREM AgentsCaredFor == Spec => []NoAgentAbandoned
<1>1. AgentInv => NoAgentAbandoned
  BY DEF AgentInv, OwnSound, NoAgentAbandoned, BreakerAbandonsNoAgent, AgentLeftOnlyByRace
<1> QED BY <1>1, AgentInvariant, PTL
=============================================================================
