------------------------ MODULE ServerRequestsProofs ------------------------
(***************************************************************************)
(* Proofs about ServerRequests, for any number of requests and of scopes.  *)
(***************************************************************************)
EXTENDS ServerRequests, SequenceTheorems, TLAPS

-----------------------------------------------------------------------------
(***************************************************************************)
(* The invariant.                                                          *)
(***************************************************************************)

Numbers == 1 .. Len(scopes)
Kinds == {"request", "app", "action", "server", "dropped"}
Scope == [kind : Kinds, by : Flows, of : Nat, parent : Nat, trace : Nat,
          open : BOOLEAN, error : BOOLEAN]
Action == [ending : BOOLEAN, scope : Nat]

\* The types but those of the scopes' links, and what each host leaves alone.
HostTypes ==
    /\ host \in {"core", "aspnet"} /\ integrated \in BOOLEAN
    /\ request \in [number : Nat, stage : {"idle", "begun", "handling", "handled", "reported"},
                    headers : Int, entered : Nat, failed : {"no", "status", "exception"}]
    /\ request.headers \in {NoContext} \cup 0 .. Len(scopes)
    /\ request.entered \in 0 .. Len(scopes)
    /\ scopes \in Seq(Scope) /\ actions \in Seq(Action) /\ Len(actions) <= 2
    /\ local \in [Flows -> 0 .. Len(scopes)]
    /\ runs \in [Flows -> {"in", "out", "not", "ended"}] /\ runs[Main] = "in"
    /\ items \in [active : 0 .. Len(scopes), module : 0 .. Len(scopes), action : 0 .. Len(scopes)]
    /\ strayed \in BOOLEAN /\ abandoned \subseteq Numbers
    /\ host = "core" => items = NoItems /\ actions = <<>>
    /\ host = "aspnet" => ~strayed /\ request.failed # "status"

\* What the stage of the request says, and what of the task.
StageInv ==
    /\ request.stage # "idle" \/ runs[Task] # "not" => request.number > 0
    /\ request.stage \in {"begun", "handling"} => request.failed = "no"
    /\ request.stage = "reported" => request.failed = "exception"
    /\ request.stage # "handling" => actions = <<>>
    /\ runs[Task] = "not" => local[Task] = 0

ScopeInv ==
    \A s \in Numbers :
        /\ scopes[s].of \in 1 .. request.number
        /\ scopes[s].parent \in 0 .. s - 1 /\ scopes[s].trace \in 0 .. s
        /\ runs[Task] = "not" => scopes[s].by = Main
        /\ scopes[s].kind = "action" => scopes[s].by = Main

\* An open scope of MVC will be closed by the end of an action that has found it,
\* or is in the item for the action that opened it.
Awaited(s) ==
    \E i \in 1 .. Len(actions) :
        actions[i].scope = s /\ (actions[i].ending \/ items.action = s)

ActionInv ==
    /\ \A i \in 1 .. Len(actions) : actions[i].scope # 0 =>
          /\ actions[i].scope \in Numbers
          /\ scopes[actions[i].scope].kind = "action"
    /\ items.action # 0 => scopes[items.action].kind = "action"
    /\ \A s \in Numbers \ abandoned :
          scopes[s].kind = "action" /\ scopes[s].open => Awaited(s)

\* The scope of the request that is under way, 0 for none: that in the items or
\* the one the flow was in when the handler was called.
OurScope ==
    IF host = "aspnet" THEN items.module
    ELSE IF request.stage = "handling" THEN request.entered ELSE local[Main]

Underway(q) ==
    /\ \A s \in Numbers : scopes[s].kind = "request" =>
          s = q \/ (~scopes[s].open /\ scopes[s].of # request.number)
    /\ q # 0 => /\ scopes[q].kind = "request" /\ scopes[q].open
                /\ scopes[q].of = request.number /\ scopes[q].parent = 0
                /\ request.stage = "reported" => scopes[q].error

\* The requests are over and nothing is left of them.
Over ==
    /\ local[Main] = 0 /\ items = NoItems
    /\ host = "aspnet" => runs[Task] # "in"
    /\ \A s \in Numbers : scopes[s].kind = "request" =>
          /\ ~scopes[s].open
          /\ request.failed # "no" /\ scopes[s].of = request.number => scopes[s].error

RequestInv ==
    ~strayed => IF request.stage = "idle" THEN Over ELSE Underway(OurScope)

\* The scopes made in the HttpContext of the request are in its trace and lie on
\* each other, as do those that are active there.
Inside(s) == scopes[s].of = request.number /\ (scopes[s].by = Main \/ runs[Task] = "in")
InUse(s) ==
    \/ s \in {items.module, items.active, local[Main], request.entered}
    \/ s = local[Task] /\ runs[Task] = "in"
LineOn == host = "aspnet" /\ request.stage # "idle" /\ items.module # 0

LineInv ==
    LineOn =>
        /\ items.active # 0
        /\ \A s \in Numbers : InUse(s) => Inside(s)
        /\ \A s \in Numbers : Inside(s) => scopes[s].trace = scopes[items.module].trace
        /\ \A s \in Numbers : Inside(s) /\ s # items.module =>
              scopes[s].parent # 0 /\ \A x \in Numbers : x = scopes[s].parent => Inside(x)
        /\ integrated => request.headers = scopes[items.module].trace
        /\ integrated => \A s \in Numbers :
              scopes[s].of = request.number /\ scopes[s].kind = "server"
              => scopes[s].trace = scopes[items.module].trace

RequestsInv == HostTypes /\ StageInv /\ ScopeInv /\ ActionInv /\ RequestInv /\ LineInv

-----------------------------------------------------------------------------
(***************************************************************************)
(* The scopes: one more, or one that is told it is closed or failed.       *)
(***************************************************************************)

\* The scopes there were are still what they were, none is opened again and no
\* failure forgotten.
Kept ==
    /\ Len(scopes) <= Len(scopes')
    /\ \A s \in Numbers :
          /\ scopes'[s].kind = scopes[s].kind /\ scopes'[s].by = scopes[s].by
          /\ scopes'[s].of = scopes[s].of /\ scopes'[s].parent = scopes[s].parent
          /\ scopes'[s].trace = scopes[s].trace
          /\ scopes'[s].open => scopes[s].open
          /\ scopes[s].error => scopes'[s].error

\* A new scope gets the next number.
LEMMA Appended ==
    ASSUME scopes \in Seq(Scope), NEW x \in Scope, scopes' = Append(scopes, x)
    PROVE  /\ scopes' \in Seq(Scope) /\ Len(scopes) \in Nat /\ Len(scopes') = Fresh
           /\ \A s \in Numbers : scopes'[s] = scopes[s]
           /\ scopes'[Fresh] = x /\ Kept
           /\ Numbers' = Numbers \cup {Fresh} /\ Fresh \notin Numbers
<1>1. /\ scopes' \in Seq(Scope) /\ Len(scopes) \in Nat /\ Len(scopes') = Fresh
      /\ \A s \in Numbers : scopes'[s] = scopes[s]
      /\ scopes'[Fresh] = x
  BY DEF Numbers, Fresh
<1>2. Numbers' = Numbers \cup {Fresh} /\ Fresh \notin Numbers
  BY <1>1 DEF Numbers, Fresh
<1>3. Len(scopes) <= Len(scopes')
  BY <1>1 DEF Fresh
<1>4. Kept
  BY <1>1, <1>3, Zenon DEF Kept
<1> QED
  BY <1>1, <1>2, <1>4

\* The record of one scope is replaced: it may be closed by that, or marked as
\* failed.
LEMMA Changed ==
    ASSUME scopes \in Seq(Scope), NEW s \in Numbers, NEW y \in Scope,
           scopes' = [scopes EXCEPT ![s] = y],
           y.kind = scopes[s].kind, y.by = scopes[s].by, y.of = scopes[s].of,
           y.parent = scopes[s].parent, y.trace = scopes[s].trace,
           y.open => scopes[s].open, scopes[s].error => y.error
    PROVE  /\ scopes' \in Seq(Scope) /\ Len(scopes') = Len(scopes) /\ Numbers' = Numbers
           /\ Kept /\ scopes'[s] = y
           /\ \A x \in Numbers \ {s} : scopes'[x] = scopes[x]
<1>1. /\ Len(scopes) \in Nat /\ DOMAIN scopes = Numbers /\ scopes \in [Numbers -> Scope]
  BY DEF Numbers
<1>2. scopes'[s] = y /\ \A x \in Numbers \ {s} : scopes'[x] = scopes[x]
  BY <1>1
<1>3. scopes' \in Seq(Scope) /\ Len(scopes') = Len(scopes) /\ Numbers' = Numbers
  <2>1. scopes' \in Seq(Scope) /\ Len(scopes') = Len(scopes)
    <3>1. s \in 1 .. Len(scopes)
      BY DEF Numbers
    <3>2. [scopes EXCEPT ![s] = y] \in Seq(Scope) /\ Len([scopes EXCEPT ![s] = y]) = Len(scopes)
      BY <3>1, ExceptSeq
    <3> QED
      BY <3>2, Zenon
  <2> QED
    BY <2>1 DEF Numbers
<1>4. Kept
  <2>1. Len(scopes) <= Len(scopes')
    BY <1>1, <1>3
  <2>2. ASSUME NEW x \in Numbers
        PROVE  /\ scopes'[x].kind = scopes[x].kind /\ scopes'[x].by = scopes[x].by
               /\ scopes'[x].of = scopes[x].of /\ scopes'[x].parent = scopes[x].parent
               /\ scopes'[x].trace = scopes[x].trace
               /\ scopes'[x].open => scopes[x].open
               /\ scopes[x].error => scopes'[x].error
    <3>1. CASE x = s
      BY <1>2, <3>1, Zenon
    <3>2. CASE x # s
      BY <1>2, <3>2, Zenon
    <3> QED
      BY <3>1, <3>2, Zenon
  <2> QED
    BY <2>1, <2>2, Zenon DEF Kept
<1> QED
  BY <1>2, <1>3, <1>4

\* A scope is closed, and may have failed while it was open.
LEMMA Closed ==
    ASSUME scopes \in Seq(Scope), NEW s \in Numbers, NEW failed \in BOOLEAN,
           scopes' = [scopes EXCEPT ![s].open = FALSE,
                                    ![s].error = @ \/ (failed /\ scopes[s].open)]
    PROVE  /\ scopes' \in Seq(Scope) /\ Len(scopes') = Len(scopes) /\ Numbers' = Numbers
           /\ Kept /\ ~scopes'[s].open
           /\ failed /\ scopes[s].open => scopes'[s].error
           /\ \A x \in Numbers \ {s} : scopes'[x] = scopes[x]
<1>1. scopes[s] \in Scope
  BY DEF Numbers
<1>2. PICK y : y = [scopes[s] EXCEPT !.open = FALSE, !.error = @ \/ (failed /\ scopes[s].open)]
  OBVIOUS
<1>3. scopes' = [scopes EXCEPT ![s] = y]
  BY <1>2
<1>4. /\ y \in Scope /\ y.kind = scopes[s].kind /\ y.by = scopes[s].by /\ y.of = scopes[s].of
      /\ y.parent = scopes[s].parent /\ y.trace = scopes[s].trace /\ ~y.open
      /\ (failed /\ scopes[s].open => y.error) /\ (scopes[s].error => y.error)
  BY <1>1, <1>2 DEF Scope
<1> QED
  BY <1>3, <1>4, Changed

\* The module closes its scope, without a word about failure.
LEMMA Ended ==
    ASSUME scopes \in Seq(Scope), NEW s \in Numbers,
           scopes' = [scopes EXCEPT ![s].open = FALSE]
    PROVE  /\ scopes' \in Seq(Scope) /\ Len(scopes') = Len(scopes) /\ Numbers' = Numbers
           /\ Kept /\ ~scopes'[s].open
           /\ \A x \in Numbers \ {s} : scopes'[x] = scopes[x]
<1>1. scopes[s] \in Scope
  BY DEF Numbers
<1>2. PICK y : y = [scopes[s] EXCEPT !.open = FALSE]
  OBVIOUS
<1>3. scopes' = [scopes EXCEPT ![s] = y]
  BY <1>2
<1>4. /\ y \in Scope /\ y.kind = scopes[s].kind /\ y.by = scopes[s].by /\ y.of = scopes[s].of
      /\ y.parent = scopes[s].parent /\ y.trace = scopes[s].trace /\ ~y.open
      /\ y.error = scopes[s].error
  BY <1>1, <1>2 DEF Scope
<1> QED
  BY <1>3, <1>4, Changed

\* An exception is recorded in a scope that is open.
LEMMA Marked ==
    ASSUME scopes \in Seq(Scope), NEW s \in Numbers, SetException(s)
    PROVE  /\ scopes' \in Seq(Scope) /\ Len(scopes') = Len(scopes) /\ Numbers' = Numbers
           /\ Kept /\ scopes'[s].open = scopes[s].open
           /\ scopes[s].open => scopes'[s].error
           /\ \A x \in Numbers \ {s} : scopes'[x] = scopes[x]
<1>1. scopes[s] \in Scope
  BY DEF Numbers
<1>2. PICK y : y = [scopes[s] EXCEPT !.error = @ \/ scopes[s].open]
  OBVIOUS
<1>3. scopes' = [scopes EXCEPT ![s] = y]
  BY <1>2 DEF SetException
<1>4. /\ y \in Scope /\ y.kind = scopes[s].kind /\ y.by = scopes[s].by /\ y.of = scopes[s].of
      /\ y.parent = scopes[s].parent /\ y.trace = scopes[s].trace /\ y.open = scopes[s].open
      /\ (scopes[s].open => y.error) /\ (scopes[s].error => y.error)
  BY <1>1, <1>2 DEF Scope
<1> QED
  BY <1>3, <1>4, Changed

\* The flows are two.
LEMMA TwoFlows == Flows = {Main, Task} /\ Main # Task
  BY DEF Flows, Main, Task

\* What is active is a scope there is, or none.
LEMMA ActiveTyped ==
    ASSUME HostTypes, NEW f \in Flows
    PROVE  /\ Active(f) \in 0 .. Len(scopes) /\ Len(scopes) \in Nat
           /\ Active(f) # 0 => Active(f) \in Numbers
<1>1. /\ local[f] \in 0 .. Len(scopes) /\ items.active \in 0 .. Len(scopes) /\ Len(scopes) \in Nat
  BY DEF HostTypes
<1>2. Active(f) \in 0 .. Len(scopes)
  BY <1>1 DEF Active
<1> QED
  BY <1>1, <1>2 DEF Numbers

\* The setter of Active writes the AsyncLocal of the flow, and the item if there
\* is an HttpContext.
LEMMA ActiveSet ==
    ASSUME HostTypes, NEW f \in Flows, Len(scopes') \in Nat, Len(scopes) <= Len(scopes'),
           NEW s \in 0 .. Len(scopes'), SetActive(f, s)
    PROVE  /\ local' \in [Flows -> 0 .. Len(scopes')]
           /\ items' \in [active : 0 .. Len(scopes'), module : 0 .. Len(scopes'),
                          action : 0 .. Len(scopes')]
           /\ items'.module = items.module /\ items'.action = items.action
           /\ local'[f] = s /\ \A g \in Flows \ {f} : local'[g] = local[g]
           /\ InContext(f) => items'.active = s
           /\ ~InContext(f) => items' = items
<1>1. /\ local \in [Flows -> 0 .. Len(scopes)] /\ Len(scopes) \in Nat
      /\ items \in [active : 0 .. Len(scopes), module : 0 .. Len(scopes), action : 0 .. Len(scopes)]
  BY DEF HostTypes
<1>2. \A n \in 0 .. Len(scopes) : n \in 0 .. Len(scopes')
  BY <1>1
<1>3. local' = [local EXCEPT ![f] = s]
      /\ items' = IF InContext(f) THEN [items EXCEPT !.active = s] ELSE items
  BY DEF SetActive
<1>4. local' \in [Flows -> 0 .. Len(scopes')] /\ local'[f] = s
      /\ \A g \in Flows \ {f} : local'[g] = local[g]
  BY <1>1, <1>2, <1>3
<1>5. /\ items' \in [active : 0 .. Len(scopes'), module : 0 .. Len(scopes'), action : 0 .. Len(scopes')]
      /\ items'.module = items.module /\ items'.action = items.action
      /\ InContext(f) => items'.active = s
  BY <1>1, <1>2, <1>3
<1> QED
  BY <1>3, <1>4, <1>5

\* A new scope lies on the active one, in the trace of the context it got or of
\* the active one.
LEMMA NewScopeTyped ==
    ASSUME HostTypes, ScopeInv, NEW f \in Flows, NEW k \in Kinds,
           NEW c \in {NoContext} \cup 0 .. Len(scopes), request'.number \in Nat,
           NEW x, x = NewScope(f, k, c)
    PROVE  /\ x \in Scope /\ x.kind = k /\ x.by = f /\ x.of = request'.number
           /\ x.parent = Active(f) /\ x.parent \in 0 .. Fresh - 1
           /\ x.trace \in 0 .. Fresh /\ x.open /\ ~x.error
           /\ x.trace = IF c # NoContext THEN c
                        ELSE IF Active(f) # 0 THEN scopes[Active(f)].trace ELSE Fresh
<1>1. /\ Active(f) \in 0 .. Len(scopes) /\ Len(scopes) \in Nat
      /\ Active(f) # 0 => Active(f) \in Numbers
  BY ActiveTyped
<1>2. Active(f) # 0 => scopes[Active(f)].trace \in 0 .. Active(f)
  BY <1>1 DEF ScopeInv
<1> DEFINE t == IF c # NoContext THEN c
                ELSE IF Active(f) # 0 THEN scopes[Active(f)].trace ELSE Fresh
<1>3. t \in 0 .. Fresh /\ t \in Nat /\ Active(f) \in Nat
  BY <1>1, <1>2 DEF Fresh, NoContext
<1>4. x = [kind |-> k, by |-> f, of |-> request'.number, parent |-> Active(f),
           trace |-> t, open |-> TRUE, error |-> FALSE]
  BY DEF NewScope
<1> HIDE DEF t
<1>5. x \in Scope
  BY <1>3, <1>4 DEF Scope
<1>6. /\ x.kind = k /\ x.by = f /\ x.of = request'.number
      /\ x.parent = Active(f) /\ x.trace = t /\ x.open /\ ~x.error
  BY <1>4
<1>7. x.parent \in 0 .. Fresh - 1
  BY <1>1, <1>6 DEF Fresh
<1> QED
  BY <1>3, <1>5, <1>6, <1>7 DEF t

-----------------------------------------------------------------------------
(***************************************************************************)
(* The parts of the invariant in steps that only touch what they are about *)
(* in one way.                                                             *)
(***************************************************************************)

\* The links of the scopes.
LEMMA ScopesStay ==
    ASSUME HostTypes, ScopeInv, Kept, request'.number \in Nat, request.number <= request'.number,
           runs'[Task] = "not" => runs[Task] = "not",
           \A s \in Numbers' \ Numbers :
              /\ scopes'[s].of \in 1 .. request'.number
              /\ scopes'[s].parent \in 0 .. s - 1 /\ scopes'[s].trace \in 0 .. s
              /\ runs'[Task] = "not" => scopes'[s].by = Main
              /\ scopes'[s].kind = "action" => scopes'[s].by = Main
    PROVE  ScopeInv'
<1>1. ASSUME NEW s \in Numbers'
      PROVE  /\ scopes'[s].of \in 1 .. request'.number
             /\ scopes'[s].parent \in 0 .. s - 1 /\ scopes'[s].trace \in 0 .. s
             /\ runs'[Task] = "not" => scopes'[s].by = Main
             /\ scopes'[s].kind = "action" => scopes'[s].by = Main
  <2>1. CASE s \in Numbers
    <3>1. /\ scopes[s].of \in 1 .. request.number
          /\ scopes[s].parent \in 0 .. s - 1 /\ scopes[s].trace \in 0 .. s
          /\ runs[Task] = "not" => scopes[s].by = Main
          /\ scopes[s].kind = "action" => scopes[s].by = Main
      BY <2>1 DEF ScopeInv
    <3>2. /\ scopes'[s].kind = scopes[s].kind /\ scopes'[s].by = scopes[s].by
          /\ scopes'[s].of = scopes[s].of /\ scopes'[s].parent = scopes[s].parent
          /\ scopes'[s].trace = scopes[s].trace
      BY <2>1 DEF Kept
    <3>3. request.number \in Nat
      BY DEF HostTypes
    <3>4. scopes[s].of \in 1 .. request'.number
      BY <3>1, <3>3
    <3> QED
      BY <3>1, <3>2, <3>4
  <2>2. CASE s \notin Numbers
    BY <2>2
  <2> QED
    BY <2>1, <2>2
<1> QED
  BY <1>1 DEF ScopeInv

\* MVC's scopes.
LEMMA ActionsStay ==
    ASSUME ActionInv, HostTypes, Kept, actions' = actions, items'.action = items.action,
           abandoned \subseteq abandoned',
           \A s \in Numbers' \ Numbers : scopes'[s].kind # "action"
    PROVE  ActionInv'
<1>1. \A s \in Numbers : scopes'[s].kind = scopes[s].kind /\ (scopes'[s].open => scopes[s].open)
  BY DEF Kept
<1>2. Numbers \subseteq Numbers'
  BY DEF Kept, Numbers, HostTypes
<1>3. ASSUME NEW i \in 1 .. Len(actions'), actions'[i].scope # 0
      PROVE  /\ actions'[i].scope \in Numbers'
             /\ scopes'[actions'[i].scope].kind = "action"
  BY <1>1, <1>2, <1>3 DEF ActionInv
<1>4. items'.action # 0 => scopes'[items'.action].kind = "action"
  <2>1. items.action # 0 => items.action \in Numbers
    BY DEF HostTypes, Numbers
  <2> QED
    BY <1>1, <2>1 DEF ActionInv
<1>5. ASSUME NEW s \in Numbers' \ abandoned', scopes'[s].kind = "action", scopes'[s].open
      PROVE  Awaited(s)'
  <2>1. s \in Numbers \ abandoned /\ scopes[s].kind = "action" /\ scopes[s].open
    BY <1>1, <1>5
  <2>2. Awaited(s)
    BY <2>1 DEF ActionInv
  <2> QED
    BY <2>2 DEF Awaited
<1> QED
  BY <1>3, <1>4, <1>5 DEF ActionInv

\* The request that is under way, or was.
LEMMA RequestStays ==
    ASSUME HostTypes, RequestInv, Kept, UNCHANGED <<host, request, strayed>>,
           \A s \in Numbers : scopes[s].kind = "request" => scopes'[s] = scopes[s],
           \A s \in Numbers' \ Numbers : scopes'[s].kind # "request",
           items'.module = items.module,
           request.stage # "handling" =>
              local'[Main] = local[Main] /\ items' = items /\ runs' = runs
    PROVE  RequestInv'
<1> SUFFICES ASSUME ~strayed PROVE RequestInv'
  BY DEF RequestInv
<1>1. \A s \in Numbers' : scopes'[s].kind = "request" =>
         s \in Numbers /\ scopes[s].kind = "request" /\ scopes'[s] = scopes[s]
  BY DEF Kept
<1>2. CASE request.stage = "idle"
  <2>1. Over
    BY <1>2 DEF RequestInv
  <2>2. local'[Main] = local[Main] /\ items' = items /\ runs' = runs
    BY <1>2
  <2>3. Over'
    BY <1>1, <2>1, <2>2 DEF Over, NoItems
  <2> QED
    BY <1>2, <2>3 DEF RequestInv
<1>3. CASE request.stage # "idle"
  <2>0. PICK q : q = OurScope
    OBVIOUS
  <2>1. Underway(q)
    BY <1>3, <2>0 DEF RequestInv
  <2>2. OurScope' = q
    BY <2>0 DEF OurScope
  <2>3. q \in 0 .. Len(scopes)
    BY <2>0, TwoFlows DEF OurScope, HostTypes
  <2>4. q # 0 => q \in Numbers
    BY <2>3 DEF Numbers
  <2>5. Underway(q)'
    BY <1>1, <2>1, <2>4 DEF Underway
  <2>6. Underway(OurScope)'
    BY <2>2, <2>5
  <2> QED
    BY <1>3, <2>6 DEF RequestInv
<1> QED
  BY <1>2, <1>3

\* The scopes of the HttpContext.
LEMMA LineStays ==
    ASSUME HostTypes, ScopeInv, LineInv, Kept, UNCHANGED <<host, integrated>>,
           request'.number = request.number, request'.headers = request.headers,
           request'.stage # "idle" => request.stage # "idle", items'.module = items.module,
           \A s \in Numbers : Inside(s)' = Inside(s),
           LineOn =>
              /\ items'.active # 0
              /\ \A s \in Numbers' : InUse(s)' => Inside(s)'
              /\ \A s \in Numbers' \ Numbers :
                    /\ Inside(s)' => /\ scopes'[s].trace = scopes[items.module].trace
                                     /\ scopes'[s].parent \in Numbers
                                     /\ \A x \in Numbers : x = scopes'[s].parent => Inside(x)
                    /\ integrated /\ scopes'[s].kind = "server"
                       => scopes'[s].trace = scopes[items.module].trace
    PROVE  LineInv'
<1> SUFFICES ASSUME LineOn' PROVE LineInv'
  BY DEF LineInv
<1>1. LineOn
  BY DEF LineOn
<1>2. PICK m : m = items.module
  OBVIOUS
<1>3. m \in Numbers /\ Inside(m) /\ Numbers \subseteq Numbers'
  BY <1>1, <1>2 DEF LineOn, HostTypes, Numbers, LineInv, InUse, Kept
<1>4. \A s \in Numbers : /\ scopes'[s].kind = scopes[s].kind /\ scopes'[s].of = scopes[s].of
                        /\ scopes'[s].parent = scopes[s].parent
                        /\ scopes'[s].trace = scopes[s].trace
  BY DEF Kept
<1>5. scopes'[m].trace = scopes[m].trace
  BY <1>3, <1>4
<1>6. ASSUME NEW s \in Numbers', Inside(s)'
      PROVE  /\ scopes'[s].trace = scopes'[m].trace
             /\ s # m => scopes'[s].parent # 0
             /\ s # m => \A x \in Numbers' : x = scopes'[s].parent => Inside(x)'
  <2>1. CASE s \in Numbers
    <3>1. Inside(s)
      BY <1>6, <2>1
    <3>2. /\ scopes[s].trace = scopes[m].trace
          /\ s # m => scopes[s].parent # 0 /\ \A x \in Numbers : x = scopes[s].parent => Inside(x)
      BY <1>1, <1>2, <2>1, <3>1 DEF LineInv
    <3>3. scopes[s].parent # 0 => scopes[s].parent \in Numbers
      <4>1. scopes[s].parent \in 0 .. s - 1 /\ Len(scopes) \in Nat
        BY <2>1 DEF ScopeInv, HostTypes
      <4> QED
        BY <2>1, <4>1 DEF Numbers
    <3>4. s # m => \A x \in Numbers' : x = scopes'[s].parent => Inside(x)'
      BY <1>4, <2>1, <3>2, <3>3
    <3> QED
      BY <1>4, <1>5, <2>1, <3>2, <3>4
  <2>2. CASE s \notin Numbers
    <3>1. /\ scopes'[s].trace = scopes[m].trace
          /\ scopes'[s].parent \in Numbers
          /\ \A x \in Numbers : x = scopes'[s].parent => Inside(x)
      BY <1>1, <1>2, <1>6, <2>2
    <3>2. \A x \in Numbers' : x = scopes'[s].parent => Inside(x)'
      BY <3>1
    <3>3. scopes'[s].parent # 0
      BY <3>1 DEF Numbers
    <3> QED
      BY <1>5, <3>1, <3>2, <3>3
  <2> QED
    BY <2>1, <2>2
<1>7. ASSUME NEW s \in Numbers', integrated', scopes'[s].of = request'.number,
             scopes'[s].kind = "server"
      PROVE  scopes'[s].trace = scopes'[m].trace
  <2>1. CASE s \in Numbers
    BY <1>1, <1>2, <1>4, <1>5, <1>7, <2>1 DEF LineInv
  <2>2. CASE s \notin Numbers
    BY <1>1, <1>2, <1>5, <1>7, <2>2
  <2> QED
    BY <2>1, <2>2
<1>8. integrated' => request'.headers = scopes'[m].trace
  BY <1>1, <1>2, <1>5 DEF LineInv
<1>9. items'.active # 0 /\ \A s \in Numbers' : InUse(s)' => Inside(s)'
  BY <1>1
<1> QED
  BY <1>2, <1>6, <1>7, <1>8, <1>9 DEF LineInv

\* In the HttpContext of the request there is an active scope, which is inside.
LEMMA ActiveInside ==
    ASSUME HostTypes, LineInv, LineOn, NEW f \in Flows, InContext(f)
    PROVE  Active(f) \in Numbers /\ Inside(Active(f))
<1>1. Active(f) # 0 /\ InUse(Active(f))
  BY TwoFlows DEF Active, LineInv, InUse, InContext
<1>2. Active(f) \in Numbers
  BY <1>1, ActiveTyped
<1> QED
  BY <1>1, <1>2 DEF LineInv

\* A scope that is opened there goes on top of the active one, in its trace.
LEMMA NewInside ==
    ASSUME HostTypes, ScopeInv, LineInv, LineOn, NEW f \in Flows, InContext(f), NEW k \in Kinds,
           NEW c \in {NoContext} \cup 0 .. Len(scopes), c = NoContext \/ Active(f) = 0,
           request'.number \in Nat, NEW x, x = NewScope(f, k, c)
    PROVE  /\ x.trace = scopes[items.module].trace /\ x.parent \in Numbers
           /\ \A y \in Numbers : y = x.parent => Inside(y)
<1>1. Active(f) \in Numbers /\ Inside(Active(f))
  BY ActiveInside
<1>2. Active(f) # 0 /\ c = NoContext
  BY <1>1 DEF Numbers
<1>3. x.parent = Active(f) /\ x.trace = scopes[Active(f)].trace
  BY <1>2, NewScopeTyped
<1>4. scopes[Active(f)].trace = scopes[items.module].trace
  BY <1>1 DEF LineInv
<1> QED
  BY <1>1, <1>3, <1>4

-----------------------------------------------------------------------------
(***************************************************************************)
(* Scopes opened and closed while a request is handled.                    *)
(***************************************************************************)

\* A scope is opened and made active, by code of the request or by a task that
\* has left it.
LEMMA ScopeOpens ==
    ASSUME RequestsInv, NEW f \in Flows, NEW k \in {"app", "server"},
           NEW c \in {NoContext} \cup 0 .. Len(scopes), StartActive(f, k, c),
           UNCHANGED <<host, integrated, request, actions, strayed, abandoned>>,
           f = Main \/ runs[Task] = "not" \/ runs[Task] = "in" => request.stage = "handling",
           runs' = IF f = Task /\ runs[Task] = "not" THEN [runs EXCEPT ![Task] = "out"] ELSE runs,
           f = Task => runs[Task] # "ended",
           InContext(f) => c = NoContext \/ Active(f) = 0,
           k = "server" /\ f = Task => Active(f) = 0 /\ c = request.headers
    PROVE  RequestsInv'
<1>1. /\ HostTypes /\ StageInv /\ ScopeInv /\ ActionInv /\ RequestInv /\ LineInv
      /\ scopes \in Seq(Scope) /\ request.number \in Nat /\ Len(scopes) \in Nat
  BY DEF RequestsInv, HostTypes
<1>2. PICK x : x = NewScope(f, k, c)
  OBVIOUS
<1>3. /\ scopes' = Append(scopes, x) /\ SetActive(f, Fresh)
      /\ UNCHANGED <<host, integrated, request, actions, strayed, abandoned>>
  BY <1>2 DEF StartActive
<1>4. /\ x \in Scope /\ x.kind = k /\ x.by = f /\ x.of = request.number
      /\ x.parent = Active(f) /\ x.parent \in 0 .. Fresh - 1
      /\ x.trace \in 0 .. Fresh /\ x.open /\ ~x.error
      /\ x.trace = IF c # NoContext THEN c
                   ELSE IF Active(f) # 0 THEN scopes[Active(f)].trace ELSE Fresh
  BY <1>1, <1>2, <1>3, NewScopeTyped DEF Kinds
<1>5. /\ scopes' \in Seq(Scope) /\ Len(scopes') = Fresh
      /\ \A s \in Numbers : scopes'[s] = scopes[s]
      /\ scopes'[Fresh] = x /\ Kept
      /\ Numbers' = Numbers \cup {Fresh} /\ Fresh \notin Numbers
  BY <1>1, <1>3, <1>4, Appended
<1>6. Fresh \in 0 .. Len(scopes') /\ Len(scopes') \in Nat /\ Len(scopes) <= Len(scopes')
  BY <1>1, <1>5 DEF Fresh
<1>7. /\ local' \in [Flows -> 0 .. Len(scopes')]
      /\ items' \in [active : 0 .. Len(scopes'), module : 0 .. Len(scopes'),
                     action : 0 .. Len(scopes')]
      /\ items'.module = items.module /\ items'.action = items.action
      /\ local'[f] = Fresh /\ \A g \in Flows \ {f} : local'[g] = local[g]
      /\ InContext(f) => items'.active = Fresh
      /\ ~InContext(f) => items' = items
  BY <1>1, <1>3, <1>6, ActiveSet
<1>8. /\ runs' \in [Flows -> {"in", "out", "not", "ended"}] /\ runs'[Main] = "in"
      /\ runs'[Task] = "in" <=> runs[Task] = "in"
      /\ runs'[Task] = "not" => runs[Task] = "not" /\ f = Main
      /\ InContext(Main) <=> host = "aspnet"
      /\ InContext(Task) <=> host = "aspnet" /\ runs[Task] = "in"
  BY <1>1, TwoFlows DEF HostTypes, InContext
<1>9. HostTypes'
  <2>1. /\ request.headers \in {NoContext} \cup 0 .. Len(scopes')
        /\ request.entered \in 0 .. Len(scopes') /\ abandoned \subseteq Numbers'
    BY <1>1, <1>5, <1>6 DEF HostTypes
  <2>2. host = "core" => items' = NoItems
    BY <1>1, <1>7 DEF HostTypes, InContext
  <2> QED
    BY <1>1, <1>3, <1>5, <1>7, <1>8, <2>1, <2>2, SMTT(30) DEF HostTypes
<1>10. request.stage # "handling" =>
          local'[Main] = local[Main] /\ items' = items /\ runs' = runs /\ f = Task
  BY <1>1, <1>7, <1>8, TwoFlows DEF HostTypes
<1>11. StageInv'
  BY <1>1, <1>3, <1>7, <1>8, TwoFlows DEF StageInv
<1>12. request.number \in Nat \ {0}
  BY <1>1, <1>10 DEF StageInv
<1>13. ScopeInv'
  BY <1>1, <1>3, <1>4, <1>5, <1>8, <1>12, ScopesStay
<1>14. ActionInv'
  BY <1>1, <1>3, <1>4, <1>5, <1>7, ActionsStay
<1>15. RequestInv'
  BY <1>1, <1>3, <1>4, <1>5, <1>7, <1>10, RequestStays
<1>16. LineInv'
  <2>0. PICK n : n = Fresh
    OBVIOUS
  <2>1. ASSUME NEW s \in Numbers
        PROVE  Inside(s)' = Inside(s)
    BY <1>3, <1>5, <1>8 DEF Inside
  <2>2. ASSUME LineOn
        PROVE  /\ items'.active # 0
               /\ \A s \in Numbers' : InUse(s)' => Inside(s)'
               /\ Inside(n)' => /\ x.trace = scopes[items.module].trace
                                     /\ x.parent \in Numbers
                                     /\ \A y \in Numbers : y = x.parent => Inside(y)
               /\ integrated /\ k = "server" => x.trace = scopes[items.module].trace
    <3>1. InContext(f) => /\ x.trace = scopes[items.module].trace
                          /\ x.parent \in Numbers
                          /\ \A y \in Numbers : y = x.parent => Inside(y)
      BY <1>1, <1>2, <1>3, <2>2, NewInside DEF Kinds
    <3>2. InContext(f) <=> f = Main \/ runs[Task] = "in"
      BY <1>8, <2>2, TwoFlows DEF LineOn
    <3>3. scopes'[n].of = request'.number /\ scopes'[n].by = f
      BY <1>3, <1>4, <1>5, <2>0
    <3>4. Inside(n)' <=> InContext(f)
      BY <1>8, <3>2, <3>3, TwoFlows DEF Inside
    <3>5. items'.active # 0
      BY <1>1, <1>6, <1>7, <2>2 DEF LineInv, Fresh
    <3>6. ASSUME NEW s \in Numbers', InUse(s)'
          PROVE  Inside(s)'
      <4>1. CASE s = n
        <5>1. ASSUME ~InContext(f)
              PROVE  FALSE
          <6>1. f = Task /\ runs'[Task] # "in" /\ items' = items /\ local'[Main] = local[Main]
            BY <1>7, <1>8, <3>2, <5>1, TwoFlows
          <6>2. /\ items.module # Fresh /\ items.active # Fresh /\ local[Main] # Fresh
                /\ request'.entered # Fresh
            BY <1>1, <1>3, TwoFlows DEF HostTypes, Fresh
          <6> QED
            BY <2>0, <3>6, <4>1, <6>1, <6>2 DEF InUse
        <5> QED
          BY <3>4, <4>1, <5>1
      <4>2. CASE s # n
        <5>1. s \in Numbers /\ InUse(s)
          BY <1>3, <1>5, <1>7, <1>8, <2>0, <3>6, <4>2, TwoFlows DEF InUse
        <5> QED
          BY <1>1, <2>1, <2>2, <5>1 DEF LineInv
      <4> QED
        BY <4>1, <4>2
    <3>7. integrated /\ k = "server" => x.trace = scopes[items.module].trace
      <4>1. ASSUME integrated, k = "server", f = Task
            PROVE  x.trace = scopes[items.module].trace
        <5>1. request.headers = scopes[items.module].trace /\ items.module \in Numbers
          BY <1>1, <2>2, <4>1 DEF LineInv, LineOn, HostTypes, Numbers
        <5>2. request.headers # NoContext
          BY <5>1, <1>1 DEF ScopeInv, NoContext
        <5> QED
          BY <1>4, <4>1, <5>1, <5>2
      <4> QED
        BY <3>1, <3>2, <4>1, TwoFlows
    <3> QED
      BY <3>1, <3>4, <3>5, <3>6, <3>7
  <2> QED
    <3>1. ASSUME LineOn
          PROVE  /\ items'.active # 0
                 /\ \A s \in Numbers' : InUse(s)' => Inside(s)'
                 /\ \A s \in Numbers' \ Numbers :
                       /\ Inside(s)' => /\ scopes'[s].trace = scopes[items.module].trace
                                        /\ scopes'[s].parent \in Numbers
                                        /\ \A y \in Numbers : y = scopes'[s].parent => Inside(y)
                       /\ integrated /\ scopes'[s].kind = "server"
                          => scopes'[s].trace = scopes[items.module].trace
      <4>1. \A s \in Numbers' \ Numbers : s = n /\ scopes'[s] = x
        BY <1>5, <2>0
      <4> QED
        BY <1>4, <2>2, <3>1, <4>1
    <3> QED
      BY <1>1, <1>3, <1>5, <1>7, <2>1, <3>1, LineStays
<1> QED
  BY <1>9, <1>11, <1>13, <1>14, <1>15, <1>16 DEF RequestsInv


\* The request under way has its scope in the items.
LEMMA ModuleScope ==
    ASSUME HostTypes, RequestInv, LineOn
    PROVE  /\ items.module \in Numbers /\ scopes[items.module].kind = "request"
           /\ scopes[items.module].open /\ scopes[items.module].of = request.number
           /\ request.stage = "reported" => scopes[items.module].error
<1>1. Underway(OurScope) /\ OurScope = items.module /\ items.module # 0
  BY DEF RequestInv, OurScope, LineOn, HostTypes
<1>2. items.module \in Numbers
  BY <1>1 DEF HostTypes, Numbers
<1> QED
  BY <1>1, <1>2 DEF Underway

\* A scope that is not a request's is closed, by the flow it is active in or by
\* another.
LEMMA ScopeCloses ==
    ASSUME RequestsInv, NEW f \in Flows, NEW s \in Numbers, scopes[s].kind # "request",
           Dispose(f, s, FALSE), UNCHANGED <<host, integrated, request, runs, strayed, abandoned>>,
           f = Main \/ runs[Task] = "in" => request.stage = "handling",
           f = Task => runs[Task] # "not",
           actions' \in Seq(Action), Len(actions') <= 2, actions = <<>> => actions' = <<>>
    PROVE  /\ HostTypes' /\ StageInv' /\ ScopeInv' /\ RequestInv' /\ LineInv'
           /\ Kept /\ Numbers' = Numbers /\ ~scopes'[s].open /\ items'.action = items.action
<1>1. /\ HostTypes /\ StageInv /\ ScopeInv /\ ActionInv /\ RequestInv /\ LineInv
      /\ scopes \in Seq(Scope) /\ request.number \in Nat /\ Len(scopes) \in Nat
  BY DEF RequestsInv, HostTypes
<1>2. scopes' = [scopes EXCEPT ![s].open = FALSE, ![s].error = @ \/ (FALSE /\ scopes[s].open)]
  BY DEF Dispose
<1>3. /\ scopes' \in Seq(Scope) /\ Len(scopes') = Len(scopes) /\ Numbers' = Numbers
      /\ Kept /\ ~scopes'[s].open
      /\ \A x \in Numbers \ {s} : scopes'[x] = scopes[x]
  BY <1>1, <1>2, Closed
<1>4. scopes[s].parent \in 0 .. Len(scopes')
  BY <1>1, <1>3 DEF ScopeInv, Numbers
<1>5. /\ local' \in [Flows -> 0 .. Len(scopes')]
      /\ items' \in [active : 0 .. Len(scopes'), module : 0 .. Len(scopes'),
                     action : 0 .. Len(scopes')]
      /\ items'.module = items.module /\ items'.action = items.action
      /\ \A g \in Flows \ {f} : local'[g] = local[g]
      /\ ~InContext(f) => items' = items
  <2>1. CASE Active(f) = s
    <3>1. SetActive(f, scopes[s].parent)
      BY <2>1 DEF Dispose
    <3> QED
      BY <1>1, <1>3, <1>4, <3>1, ActiveSet
  <2>2. CASE Active(f) # s
    BY <1>1, <1>3, <2>2 DEF Dispose, HostTypes
  <2> QED
    BY <2>1, <2>2
<1>6. /\ InContext(Main) <=> host = "aspnet"
      /\ InContext(Task) <=> host = "aspnet" /\ runs[Task] = "in"
  BY <1>1, TwoFlows DEF HostTypes, InContext
<1>7. HostTypes'
  <2>1. host = "core" => items' = NoItems
    BY <1>1, <1>5 DEF HostTypes, InContext
  <2> QED
    BY <1>1, <1>3, <1>5, <2>1 DEF HostTypes
<1>8. request.stage # "handling" =>
         local'[Main] = local[Main] /\ items' = items /\ runs' = runs /\ f = Task
  BY <1>5, <1>6, TwoFlows
<1>9. StageInv'
  BY <1>1, <1>5, TwoFlows DEF StageInv
<1>10. ScopeInv'
  BY <1>1, <1>3, ScopesStay
<1>11. RequestInv'
  BY <1>1, <1>3, <1>5, <1>8, RequestStays
<1>12. LineInv'
  <2>1. ASSUME NEW x \in Numbers
        PROVE  Inside(x)' = Inside(x)
    BY <1>3 DEF Inside, Kept
  <2>2. ASSUME LineOn
        PROVE  items'.active # 0 /\ \A x \in Numbers' : InUse(x)' => Inside(x)'
    <3>1. CASE Active(f) = s /\ InContext(f)
      <4>1. Inside(s) /\ s # items.module
        BY <1>1, <2>2, <3>1, ActiveInside, ModuleScope
      <4>2. /\ scopes[s].parent \in Numbers
            /\ \A x \in Numbers : x = scopes[s].parent => Inside(x)
        <5>1. scopes[s].parent # 0 /\ \A x \in Numbers : x = scopes[s].parent => Inside(x)
          BY <1>1, <2>2, <4>1 DEF LineInv
        <5> QED
          BY <1>3, <1>4, <5>1 DEF Numbers
      <4>3. local'[f] = scopes[s].parent /\ items'.active = scopes[s].parent
        BY <1>1, <1>3, <1>4, <3>1, ActiveSet DEF Dispose
      <4>4. items'.active # 0
        BY <4>2, <4>3 DEF Numbers
      <4>5. ASSUME NEW x \in Numbers', InUse(x)'
            PROVE  Inside(x)'
        <5>1. x = scopes[s].parent \/ InUse(x)
          BY <1>5, <4>3, <4>5, TwoFlows DEF InUse
        <5>2. Inside(x)
          BY <1>1, <1>3, <2>2, <4>2, <5>1 DEF LineInv
        <5> QED
          BY <1>3, <2>1, <5>2
      <4> QED
        BY <4>4, <4>5
    <3>2. CASE ~(Active(f) = s /\ InContext(f))
      <4>1. items' = items /\ \A g \in Flows : local'[g] = local[g] \/ ~InContext(g)
        BY <1>5, <3>2 DEF Dispose
      <4>2. local'[Main] = local[Main] /\ (runs[Task] = "in" => local'[Task] = local[Task])
        BY <1>6, <2>2, <4>1, TwoFlows DEF LineOn
      <4>3. ASSUME NEW x \in Numbers', InUse(x)'
            PROVE  Inside(x)'
        <5>1. InUse(x)
          BY <4>1, <4>2, <4>3 DEF InUse
        <5>2. Inside(x)
          BY <1>1, <1>3, <2>2, <5>1 DEF LineInv
        <5> QED
          BY <1>3, <2>1, <5>2
      <4> QED
        BY <1>1, <2>2, <4>1, <4>3 DEF LineInv
    <3> QED
      BY <3>1, <3>2
  <2> QED
    BY <1>1, <1>3, <1>5, <2>1, <2>2, LineStays
<1> QED
  BY <1>3, <1>5, <1>7, <1>9, <1>10, <1>11, <1>12

\* The application, a client wrapper, Web API or WCF opens a scope.
LEMMA OpensKeep ==
    ASSUME RequestsInv, (\E f \in Flows : OpenScope(f)) \/ OpenServerScope \/ HandleRequest
    PROVE  RequestsInv'
<1>1. /\ HostTypes /\ StageInv /\ runs[Main] = "in"
      /\ request.headers \in {NoContext} \cup 0 .. Len(scopes)
  BY DEF RequestsInv, HostTypes
<1>2. ASSUME NEW f \in Flows, OpenScope(f)
      PROVE  RequestsInv'
  <2>1. /\ StartActive(f, "app", NoContext)
        /\ UNCHANGED <<host, integrated, request, actions, strayed, abandoned>> /\ runs' = runs
    BY <1>2 DEF OpenScope
  <2>2. /\ f = Main \/ runs[Task] = "not" \/ runs[Task] = "in" => request.stage = "handling"
        /\ f = Task => runs[Task] # "ended" /\ runs[Task] # "not"
    BY <1>2, TwoFlows DEF OpenScope, Working
  <2>3. runs' = IF f = Task /\ runs[Task] = "not" THEN [runs EXCEPT ![Task] = "out"] ELSE runs
    BY <2>1, <2>2
  <2> QED
    BY <2>1, <2>2, <2>3, ScopeOpens
<1>3. CASE OpenServerScope
  <2>1. /\ StartActive(Main, "server", Extracted(Main)) /\ request.stage = "handling"
        /\ UNCHANGED <<host, integrated, request, actions, strayed, abandoned>> /\ runs' = runs
    BY <1>3 DEF OpenServerScope, Working
  <2>2. /\ Extracted(Main) \in {NoContext} \cup 0 .. Len(scopes)
        /\ Extracted(Main) = NoContext \/ Active(Main) = 0
    BY <1>1 DEF Extracted
  <2> QED
    BY <2>1, <2>2, TwoFlows, ScopeOpens
<1>4. CASE HandleRequest
  <2>1. /\ StartActive(Task, "server", Extracted(Task)) /\ request.stage = "handling"
        /\ UNCHANGED <<host, integrated, request, actions, strayed, abandoned>>
        /\ runs[Task] = "not" /\ runs' = [runs EXCEPT ![Task] = "out"]
    BY <1>4 DEF HandleRequest, Working
  <2>2. Active(Task) = 0 /\ Extracted(Task) = request.headers
    BY <1>1, <2>1 DEF Extracted, Active, InContext, StageInv
  <2> QED
    BY <1>1, <2>1, <2>2, TwoFlows, ScopeOpens
<1> QED
  BY <1>2, <1>3, <1>4

\* It closes it.
LEMMA CloseKeeps ==
    ASSUME RequestsInv, NEW f \in Flows, NEW s \in DOMAIN scopes, CloseScope(f, s)
    PROVE  RequestsInv'
<1>1. /\ HostTypes /\ ActionInv /\ s \in Numbers /\ Len(actions) <= 2 /\ actions \in Seq(Action)
  <2>1. HostTypes /\ ActionInv /\ scopes \in Seq(Scope)
    BY DEF RequestsInv, HostTypes
  <2>2. DOMAIN scopes = Numbers
    BY <2>1 DEF Numbers
  <2>3. Len(actions) <= 2 /\ actions \in Seq(Action)
    BY <2>1 DEF HostTypes
  <2> QED
    BY <2>1, <2>2, <2>3
<1>2. /\ Dispose(f, s, FALSE) /\ scopes[s].kind \in {"app", "server"}
      /\ UNCHANGED <<host, integrated, request, runs, actions, strayed, abandoned>>
      /\ f = Main \/ runs[Task] = "in" => request.stage = "handling"
      /\ f = Task => runs[Task] # "not"
  BY TwoFlows DEF CloseScope, Working
<1>3. /\ HostTypes' /\ StageInv' /\ ScopeInv' /\ RequestInv' /\ LineInv'
      /\ Kept /\ Numbers' = Numbers /\ items'.action = items.action
  BY <1>1, <1>2, ScopeCloses
<1>4. ActionInv'
  BY <1>1, <1>2, <1>3, ActionsStay
<1> QED
  BY <1>3, <1>4 DEF RequestsInv

-----------------------------------------------------------------------------
(***************************************************************************)
(* MVC's actions.                                                          *)
(***************************************************************************)

\* The innermost action is taken off.
LEMMA Popped ==
    ASSUME actions \in Seq(Action), actions # <<>>
    PROVE  /\ Front(actions) \in Seq(Action) /\ Len(Front(actions)) = Len(actions) - 1
           /\ Len(actions) \in Nat \ {0} /\ Last(actions) = actions[Len(actions)]
           /\ Last(actions) \in Action
           /\ \A i \in 1 .. Len(actions) - 1 : Front(actions)[i] = actions[i]
<1>1. Len(actions) \in Nat \ {0}
  OBVIOUS
<1>2. Front(actions) = SubSeq(actions, 1, Len(actions) - 1)
  BY DEF Front
<1>3. Last(actions) = actions[Len(actions)] /\ actions[Len(actions)] \in Action
  BY <1>1 DEF Last
<1>4. \A i \in 1 .. Len(actions) - 1 : actions[i] \in Action
  BY <1>1
<1> DEFINE n == Len(actions) - 1
<1>5. /\ SubSeq(actions, 1, n) \in Seq(Action)
      /\ Len(SubSeq(actions, 1, n)) = IF 1 <= n THEN n - 1 + 1 ELSE 0
      /\ \A i \in 1 .. n - 1 + 1 : SubSeq(actions, 1, n)[i] = actions[1 + i - 1]
  BY <1>1, <1>4, SubSeqProperties
<1>6. n \in Nat /\ \A i \in 1 .. n : 1 + i - 1 = i /\ i \in 1 .. n - 1 + 1
  BY <1>1
<1> HIDE DEF n
<1>7. Len(SubSeq(actions, 1, n)) = n
  BY <1>5, <1>6
<1>8. ASSUME NEW i \in 1 .. n
      PROVE  SubSeq(actions, 1, n)[i] = actions[i]
  <2>1. i \in 1 .. n - 1 + 1 /\ 1 + i - 1 = i
    BY <1>6
  <2>2. SubSeq(actions, 1, n)[i] = actions[1 + i - 1]
    BY <1>5, <2>1
  <2> QED
    BY <2>1, <2>2
<1> QED
  BY <1>1, <1>2, <1>3, <1>5, <1>7, <1>8 DEF n

\* The scope of an action is closed at its end.
LEMMA ActionDone ==
    ASSUME RequestsInv, EndInvokeActionDone
    PROVE  RequestsInv'
<1>1. /\ HostTypes /\ StageInv /\ ScopeInv /\ ActionInv /\ RequestInv /\ LineInv
      /\ actions \in Seq(Action) /\ Len(actions) <= 2 /\ actions # <<>> /\ Last(actions).ending
      /\ request.stage = "handling"
      /\ actions' = Front(actions)
      /\ UNCHANGED <<host, integrated, request, runs, strayed, abandoned>>
  BY DEF RequestsInv, HostTypes, EndInvokeActionDone, Ending, Working
<1>2. /\ actions' \in Seq(Action) /\ Len(actions') = Len(actions) - 1
      /\ Len(actions) \in Nat \ {0} /\ Last(actions) = actions[Len(actions)]
      /\ Last(actions) \in Action
      /\ \A i \in 1 .. Len(actions) - 1 : actions'[i] = actions[i]
  BY <1>1, Popped
<1>3. PICK s : s = Last(actions).scope
  OBVIOUS
<1>4. /\ s # 0 => s \in Numbers /\ scopes[s].kind = "action"
      /\ s \in Nat
  BY <1>1, <1>2, <1>3 DEF ActionInv, Action
<1>5. /\ HostTypes' /\ StageInv' /\ ScopeInv' /\ RequestInv' /\ LineInv'
      /\ Kept /\ Numbers' = Numbers /\ items'.action = items.action
      /\ s # 0 => ~scopes'[s].open
  <2>1. Len(actions') <= 2 /\ (actions = <<>> => actions' = <<>>)
    BY <1>1, <1>2
  <2>2. CASE s # 0
    <3>1. Dispose(Main, s, FALSE)
      BY <1>3, <2>2 DEF EndInvokeActionDone
    <3> QED
      BY <1>1, <1>2, <1>4, <2>1, <2>2, <3>1, TwoFlows, ScopeCloses
  <2>3. CASE s = 0
    <3>1. UNCHANGED <<scopes, local, items>>
      BY <1>3, <2>3 DEF EndInvokeActionDone
    <3>2. HostTypes'
      BY <1>1, <1>2, <2>1, <3>1 DEF HostTypes, Numbers
    <3>3. StageInv' /\ ScopeInv'
      BY <1>1, <3>1 DEF StageInv, ScopeInv, Numbers
    <3>4. Kept /\ Numbers' = Numbers
      BY <1>1, <3>1 DEF Kept, Numbers, HostTypes
    <3>5. RequestInv'
      BY <1>1, <3>1, <3>4, RequestStays
    <3>6. LineInv'
      BY <1>1, <3>1 DEF LineInv, LineOn, InUse, Inside, Numbers
    <3> QED
      BY <2>3, <3>1, <3>2, <3>3, <3>4, <3>5, <3>6
  <2> QED
    BY <2>2, <2>3
<1>6. ActionInv'
  <2>1. ASSUME NEW i \in 1 .. Len(actions'), actions'[i].scope # 0
        PROVE  /\ actions'[i].scope \in Numbers'
               /\ scopes'[actions'[i].scope].kind = "action"
    <3>1. i \in 1 .. Len(actions) /\ actions'[i] = actions[i]
      BY <1>2
    <3> QED
      BY <1>1, <1>5, <2>1, <3>1 DEF ActionInv, Kept
  <2>2. items'.action # 0 => scopes'[items'.action].kind = "action"
    <3>1. items.action # 0 => items.action \in Numbers
      BY <1>1 DEF HostTypes, Numbers
    <3> QED
      BY <1>1, <1>5, <3>1 DEF ActionInv, Kept
  <2>3. ASSUME NEW x \in Numbers' \ abandoned', scopes'[x].kind = "action", scopes'[x].open
        PROVE  Awaited(x)'
    <3>1. /\ x \in Numbers \ abandoned /\ scopes[x].kind = "action" /\ scopes[x].open
          /\ x # s
      BY <1>1, <1>4, <1>5, <2>3 DEF Kept, Numbers
    <3>2. PICK i \in 1 .. Len(actions) :
             actions[i].scope = x /\ (actions[i].ending \/ items.action = x)
      BY <1>1, <3>1 DEF ActionInv, Awaited
    <3>3. i # Len(actions)
      BY <1>2, <1>3, <3>1, <3>2
    <3>4. i \in 1 .. Len(actions') /\ actions'[i] = actions[i]
      BY <1>2, <3>3
    <3> QED
      BY <1>5, <3>2, <3>4 DEF Awaited
  <2> QED
    BY <2>1, <2>2, <2>3 DEF ActionInv
<1> QED
  BY <1>5, <1>6 DEF RequestsInv

\* A scope is opened for an action, or one that is closed at once, and the item
\* is overwritten if it is there.  When the original throws there is no action to
\* wait for.
LEMMA ActionBegins ==
    ASSUME RequestsInv, \/ \E threw \in BOOLEAN : BeginInvokeAction(threw)
                        \/ \E here \in BOOLEAN : BeginInvokeActionNoScope(here)
    PROVE  RequestsInv'
<1>1. /\ HostTypes /\ StageInv /\ ScopeInv /\ ActionInv /\ RequestInv /\ LineInv
      /\ scopes \in Seq(Scope) /\ request.number \in Nat /\ Len(scopes) \in Nat
      /\ actions \in Seq(Action) /\ runs[Main] = "in"
      /\ local \in [Flows -> 0 .. Len(scopes)]
      /\ items \in [active : 0 .. Len(scopes), module : 0 .. Len(scopes),
                    action : 0 .. Len(scopes)]
      /\ request.headers \in {NoContext} \cup 0 .. Len(scopes)
  BY DEF RequestsInv, HostTypes
<1>2. /\ UNCHANGED <<host, integrated, request, runs, strayed>>
      /\ host = "aspnet" /\ request.stage = "handling" /\ Len(actions) < 2
  BY DEF BeginInvokeAction, BeginInvokeActionNoScope, Working
<1>3. PICK made \in BOOLEAN, here \in BOOLEAN, threw \in BOOLEAN,
           c \in {NoContext} \cup 0 .. Len(scopes) :
         /\ made \/ ~threw
         /\ made => here
         /\ c = NoContext \/ Active(Main) = 0
         /\ scopes' = Append(scopes, IF made THEN NewScope(Main, "action", c)
                                     ELSE [NewScope(Main, "dropped", c) EXCEPT !.open = FALSE])
         /\ local' = IF made THEN [local EXCEPT ![Main] = Fresh] ELSE local
         /\ items' = IF made THEN [items EXCEPT !.active = Fresh, !.action = Fresh]
                     ELSE IF here THEN [items EXCEPT !.action = 0] ELSE items
         /\ actions' = IF threw THEN actions
                       ELSE Append(actions, [ending |-> FALSE, scope |-> IF made THEN Fresh ELSE 0])
         /\ abandoned' = abandoned \cup (IF here THEN Overwritten ELSE {})
                                  \cup (IF threw THEN {Fresh} ELSE {})
  <2>1. ASSUME NEW threw \in BOOLEAN, BeginInvokeAction(threw)
        PROVE  /\ scopes' = Append(scopes, NewScope(Main, "action", Extracted(Main)))
               /\ local' = [local EXCEPT ![Main] = Fresh]
               /\ items' = [items EXCEPT !.active = Fresh, !.action = Fresh]
               /\ actions' = IF threw THEN actions
                             ELSE Append(actions, [ending |-> FALSE, scope |-> Fresh])
               /\ abandoned' = abandoned \cup Overwritten \cup (IF threw THEN {Fresh} ELSE {})
               /\ Extracted(Main) \in {NoContext} \cup 0 .. Len(scopes)
               /\ Extracted(Main) = NoContext \/ Active(Main) = 0
    BY <1>1, <2>1 DEF BeginInvokeAction, Extracted
  <2>2. ASSUME NEW here \in BOOLEAN, BeginInvokeActionNoScope(here)
        PROVE  /\ scopes' = Append(scopes, [NewScope(Main, "dropped", NoContext) EXCEPT !.open = FALSE])
               /\ local' = local
               /\ items' = IF here THEN [items EXCEPT !.action = 0] ELSE items
               /\ actions' = Append(actions, [ending |-> FALSE, scope |-> 0])
               /\ abandoned' = abandoned \cup (IF here THEN Overwritten ELSE {}) \cup {}
    BY <2>2 DEF BeginInvokeActionNoScope, DropScope
  <2>3. CASE \E threw \in BOOLEAN : BeginInvokeAction(threw)
    <3>1. PICK threw \in BOOLEAN : BeginInvokeAction(threw)
      BY <2>3
    <3>2. Extracted(Main) \in {NoContext} \cup 0 .. Len(scopes)
      BY <2>1, <3>1
    <3> USE <3>2
    <3>3. WITNESS TRUE \in BOOLEAN, TRUE \in BOOLEAN, threw \in BOOLEAN,
                  Extracted(Main) \in {NoContext} \cup 0 .. Len(scopes)
    <3> QED
      BY <2>1, <3>1
  <2>4. CASE \E here \in BOOLEAN : BeginInvokeActionNoScope(here)
    <3>1. PICK here \in BOOLEAN : BeginInvokeActionNoScope(here)
      BY <2>4
    <3>2. WITNESS FALSE \in BOOLEAN, here \in BOOLEAN, FALSE \in BOOLEAN,
                  NoContext \in {NoContext} \cup 0 .. Len(scopes)
    <3> QED
      BY <2>2, <3>1
  <2> QED
    BY <2>3, <2>4
<1>4. PICK k : k = IF made THEN "action" ELSE "dropped"
  OBVIOUS
<1>5. PICK y : y = NewScope(Main, k, c)
  OBVIOUS
<1>6. PICK x : x = IF made THEN y ELSE [y EXCEPT !.open = FALSE]
  OBVIOUS
<1>7. scopes' = Append(scopes, x)
  BY <1>3, <1>4, <1>5, <1>6
<1>8. /\ y \in Scope /\ y.kind = k /\ y.by = Main /\ y.of = request.number
      /\ y.parent = Active(Main) /\ y.parent \in 0 .. Fresh - 1
      /\ y.trace \in 0 .. Fresh
  <2>1. k \in Kinds /\ Main \in Flows /\ request'.number = request.number
    BY <1>2, <1>4, TwoFlows DEF Kinds
  <2> QED
    BY <1>1, <1>5, <2>1, NewScopeTyped
<1>9. /\ x \in Scope /\ x.kind = k /\ x.by = Main /\ x.of = request.number
      /\ x.parent = y.parent /\ x.trace = y.trace /\ (x.open => made)
  <2>1. CASE made
    BY <1>4, <1>6, <1>8, <2>1
  <2>2. CASE ~made
    <3>1. x = [y EXCEPT !.open = FALSE]
      BY <1>6, <2>2
    <3> QED
      BY <1>8, <2>2, <3>1 DEF Scope
  <2> QED
    BY <2>1, <2>2
<1>10. /\ scopes' \in Seq(Scope) /\ Len(scopes') = Fresh
       /\ \A s \in Numbers : scopes'[s] = scopes[s]
       /\ scopes'[Fresh] = x /\ Kept
       /\ Numbers' = Numbers \cup {Fresh} /\ Fresh \notin Numbers
  BY <1>1, <1>7, <1>9, Appended
<1>11. PICK n : n = Fresh
  OBVIOUS
<1>12. n \in Nat \ {0} /\ n \notin Numbers /\ n \in 0 .. Len(scopes') /\ Len(scopes) <= Len(scopes')
  BY <1>1, <1>10, <1>11 DEF Fresh
<1>13. /\ local' \in [Flows -> 0 .. Len(scopes')]
       /\ items' \in [active : 0 .. Len(scopes'), module : 0 .. Len(scopes'),
                      action : 0 .. Len(scopes')]
       /\ items'.module = items.module /\ local'[Task] = local[Task]
       /\ made => items'.active = n /\ items'.action = n /\ local'[Main] = n
       /\ ~made => /\ items'.active = items.active /\ local'[Main] = local[Main]
                   /\ items'.action \in {0, items.action}
       /\ ~here => items'.action = items.action
  <2>1. \A m \in 0 .. Len(scopes) : m \in 0 .. Len(scopes')
    BY <1>1, <1>12
  <2>2. CASE made
    BY <1>1, <1>3, <1>11, <1>12, <2>1, <2>2, TwoFlows
  <2>3. CASE ~made
    <3>1. /\ local' = local /\ 0 \in 0 .. Len(scopes')
          /\ items' = IF here THEN [items EXCEPT !.action = 0] ELSE items
      BY <1>3, <1>10, <1>11, <1>12, <2>3
    <3>2. local' \in [Flows -> 0 .. Len(scopes')]
      BY <1>1, <2>1, <3>1
    <3>3. items' \in [active : 0 .. Len(scopes'), module : 0 .. Len(scopes'),
                     action : 0 .. Len(scopes')]
          /\ items'.active = items.active /\ items'.module = items.module
          /\ items'.action \in {0, items.action} /\ (~here => items'.action = items.action)
      <4>1. CASE here
        BY <1>1, <2>1, <3>1, <4>1
      <4>2. CASE ~here
        BY <1>1, <2>1, <3>1, <4>2
      <4> QED
        BY <4>1, <4>2
    <3> QED
      BY <2>3, <3>1, <3>2, <3>3
  <2> QED
    BY <2>2, <2>3
<1>14. /\ actions' \in Seq(Action) /\ Len(actions') <= 2
       /\ threw => actions' = actions
       /\ ~threw => /\ Len(actions') = Len(actions) + 1
                    /\ actions'[Len(actions')] = [ending |-> FALSE, scope |-> IF made THEN n ELSE 0]
                    /\ \A i \in 1 .. Len(actions) : actions'[i] = actions[i]
  <2>1. [ending |-> FALSE, scope |-> IF made THEN n ELSE 0] \in Action
    BY <1>12 DEF Action
  <2>2. actions' = IF threw THEN actions
                   ELSE Append(actions, [ending |-> FALSE, scope |-> IF made THEN n ELSE 0])
    BY <1>3, <1>11
  <2> QED
    BY <1>1, <1>2, <2>1, <2>2
<1>15. HostTypes'
  <2>1. abandoned' \subseteq Numbers'
    <3>1. Overwritten \subseteq Numbers
      BY <1>1 DEF ActionInv, Overwritten
    <3>2. abandoned \subseteq Numbers
      BY <1>1 DEF HostTypes
    <3> QED
      BY <1>3, <1>10, <3>1, <3>2
  <2>2. /\ request'.headers \in {NoContext} \cup 0 .. Len(scopes')
        /\ request'.entered \in 0 .. Len(scopes')
    BY <1>1, <1>2, <1>12 DEF HostTypes
  <2> QED
    BY <1>1, <1>2, <1>10, <1>13, <1>14, <2>1, <2>2 DEF HostTypes
<1>16. StageInv'
  BY <1>1, <1>2, <1>13 DEF StageInv
<1>17. request.number \in Nat \ {0}
  BY <1>1, <1>2 DEF StageInv
<1>18. ScopeInv'
  BY <1>1, <1>2, <1>4, <1>8, <1>9, <1>10, <1>17, ScopesStay
<1>19. RequestInv'
  BY <1>1, <1>2, <1>4, <1>9, <1>10, <1>13, RequestStays
<1>20. LineInv'
  <2>1. ASSUME NEW s \in Numbers
        PROVE  Inside(s)' = Inside(s)
    BY <1>2, <1>10 DEF Inside
  <2>2. ASSUME LineOn
        PROVE  /\ items'.active # 0
               /\ \A s \in Numbers' : InUse(s)' => Inside(s)'
               /\ \A s \in Numbers' \ Numbers :
                     /\ Inside(s)' => /\ scopes'[s].trace = scopes[items.module].trace
                                      /\ scopes'[s].parent \in Numbers
                                      /\ \A z \in Numbers : z = scopes'[s].parent => Inside(z)
                     /\ integrated /\ scopes'[s].kind = "server"
                        => scopes'[s].trace = scopes[items.module].trace
    <3>1. items'.active # 0
      BY <1>1, <1>12, <1>13, <2>2 DEF LineInv
    <3>2. ASSUME NEW s \in Numbers', InUse(s)'
          PROVE  Inside(s)'
      <4>1. CASE s = n
        BY <1>2, <1>9, <1>10, <1>11, <4>1 DEF Inside
      <4>2. CASE s # n
        <5>1. s \in Numbers /\ InUse(s)
          BY <1>2, <1>10, <1>11, <1>13, <3>2, <4>2 DEF InUse
        <5> QED
          BY <1>1, <2>1, <2>2, <5>1 DEF LineInv
      <4> QED
        BY <4>1, <4>2
    <3>3. /\ y.trace = scopes[items.module].trace /\ y.parent \in Numbers
          /\ \A z \in Numbers : z = y.parent => Inside(z)
      <4>1. /\ k \in Kinds /\ Main \in Flows /\ request'.number = request.number
            /\ InContext(Main)
        BY <1>1, <1>2, <1>4, TwoFlows DEF Kinds, InContext
      <4> QED
        BY <1>1, <1>3, <1>5, <2>2, <4>1, NewInside
    <3>4. \A s \in Numbers' \ Numbers : scopes'[s] = x
      BY <1>10
    <3> QED
      BY <1>9, <3>1, <3>2, <3>3, <3>4
  <2> QED
    BY <1>1, <1>2, <1>10, <1>13, <2>1, <2>2, LineStays
<1>21. ActionInv'
  <2>1. ASSUME NEW i \in 1 .. Len(actions'), actions'[i].scope # 0
        PROVE  /\ actions'[i].scope \in Numbers'
               /\ scopes'[actions'[i].scope].kind = "action"
    <3>1. CASE i \in 1 .. Len(actions)
      <4>1. actions'[i] = actions[i]
        BY <1>1, <1>14, <3>1
      <4> QED
        BY <1>1, <1>10, <2>1, <3>1, <4>1 DEF ActionInv
    <3>2. CASE i \notin 1 .. Len(actions)
      <4>1. ~threw /\ i = Len(actions')
        BY <1>1, <1>14, <3>2
      <4>2. made /\ actions'[i].scope = n
        BY <1>14, <2>1, <4>1
      <4> QED
        BY <1>4, <1>9, <1>10, <1>11, <4>2
    <3> QED
      BY <3>1, <3>2
  <2>2. items'.action # 0 => scopes'[items'.action].kind = "action"
    <3>1. CASE made
      BY <1>4, <1>9, <1>10, <1>11, <1>13, <3>1
    <3>2. CASE ~made
      <4>1. items.action # 0 => items.action \in Numbers
        BY <1>1 DEF Numbers
      <4> QED
        BY <1>1, <1>10, <1>13, <3>2, <4>1 DEF ActionInv
    <3> QED
      BY <3>1, <3>2
  <2>3. ASSUME NEW s \in Numbers' \ abandoned', scopes'[s].kind = "action", scopes'[s].open
        PROVE  Awaited(s)'
    <3>1. CASE s = n
      <4>1. made /\ ~threw
        BY <1>3, <1>4, <1>9, <1>10, <1>11, <2>3, <3>1
      <4>2. Len(actions') \in 1 .. Len(actions') /\ actions'[Len(actions')].scope = s
        BY <1>1, <1>14, <3>1, <4>1
      <4>3. items'.action = s
        BY <1>13, <3>1, <4>1
      <4> QED
        BY <4>2, <4>3 DEF Awaited
    <3>2. CASE s # n
      <4>1. s \in Numbers \ abandoned /\ scopes[s].kind = "action" /\ scopes[s].open
        BY <1>3, <1>10, <1>11, <2>3, <3>2
      <4>2. Awaited(s) /\ s # 0 /\ (here => s \notin Overwritten)
        BY <1>1, <1>3, <2>3, <4>1 DEF ActionInv, Numbers
      <4>3. PICK i \in 1 .. Len(actions) :
               actions[i].scope = s /\ (actions[i].ending \/ items.action = s)
        BY <4>2 DEF Awaited
      <4>4. i \in 1 .. Len(actions') /\ actions'[i] = actions[i]
        BY <1>1, <1>14
      <4>5. CASE actions[i].ending
        BY <4>3, <4>4, <4>5 DEF Awaited
      <4>6. CASE ~actions[i].ending
        <5>1. i \in {j \in DOMAIN actions : ~actions[j].ending}
          BY <1>1, <4>6
        <5>2. ~here
          BY <4>2, <4>3, <5>1 DEF Overwritten
        <5> QED
          BY <1>13, <4>3, <4>4, <4>6, <5>2 DEF Awaited
      <4> QED
        BY <4>5, <4>6
    <3> QED
      BY <3>1, <3>2
  <2> QED
    BY <2>1, <2>2, <2>3 DEF ActionInv
<1> QED
  BY <1>15, <1>16, <1>18, <1>19, <1>20, <1>21 DEF RequestsInv

\* The end of an action begins: it has the scope of the item, if there is one, or
\* does not see it, or cannot be built.
LEMMA ActionEnds ==
    ASSUME RequestsInv, NEW built \in BOOLEAN, NEW here \in BOOLEAN,
           EndInvokeAction(built, here)
    PROVE  RequestsInv'
<1>0. PICK found \in Nat : found = IF here THEN items.action ELSE 0
  BY DEF RequestsInv, HostTypes
<1>1. /\ HostTypes /\ StageInv /\ ScopeInv /\ ActionInv /\ RequestInv /\ LineInv
      /\ actions \in Seq(Action) /\ Len(actions) <= 2 /\ Len(scopes) \in Nat
      /\ items.action \in 0 .. Len(scopes)
  BY DEF RequestsInv, HostTypes
<1>2. /\ actions # <<>> /\ ~Last(actions).ending /\ request.stage = "handling"
      /\ actions' = IF built THEN Append(Front(actions), [ending |-> TRUE, scope |-> found])
                    ELSE Front(actions)
      /\ abandoned' = IF built /\ here THEN abandoned
                      ELSE abandoned \cup ({Last(actions).scope} \ {0})
      /\ UNCHANGED <<host, integrated, request, scopes, local, runs, items, strayed>>
      /\ host = "aspnet"
  BY <1>0 DEF EndInvokeAction, Ending, Working
<1>3. PICK n \in Nat : n = Len(actions) - 1
  BY <1>1, <1>2, Popped
<1>4. /\ Front(actions) \in Seq(Action) /\ Len(Front(actions)) = n /\ Len(actions) = n + 1
      /\ Last(actions) = actions[n + 1]
      /\ \A i \in 1 .. n : Front(actions)[i] = actions[i]
  BY <1>1, <1>2, <1>3, Popped
<1>5. /\ actions' \in Seq(Action) /\ Len(actions') = IF built THEN n + 1 ELSE n
      /\ \A i \in 1 .. n : actions'[i] = actions[i]
      /\ built => actions'[n + 1] = [ending |-> TRUE, scope |-> found]
  <2>1. [ending |-> TRUE, scope |-> found] \in Action
    BY DEF Action
  <2>2. CASE built
    BY <1>2, <1>4, <2>1, <2>2
  <2>3. CASE ~built
    BY <1>2, <1>4, <2>3
  <2> QED
    BY <2>2, <2>3
<1>6. HostTypes'
  <2>1. abandoned' \subseteq Numbers' /\ Numbers' = Numbers
    <3>1. ({Last(actions).scope} \ {0}) \subseteq Numbers /\ abandoned \subseteq Numbers
      BY <1>1, <1>3, <1>4 DEF HostTypes, ActionInv
    <3>2. Numbers' = Numbers
      BY <1>2 DEF Numbers
    <3> QED
      BY <1>2, <3>1, <3>2
  <2>2. Len(actions') <= 2
    BY <1>1, <1>3, <1>5
  <2> QED
    BY <1>1, <1>2, <1>5, <2>1, <2>2 DEF HostTypes
<1>7. StageInv' /\ ScopeInv'
  BY <1>1, <1>2 DEF StageInv, ScopeInv, Numbers
<1>8. RequestInv'
  <2>1. Kept /\ Numbers' = Numbers
    BY <1>1, <1>2 DEF Kept, Numbers
  <2> QED
    BY <1>1, <1>2, <2>1, RequestStays
<1>9. LineInv'
  BY <1>1, <1>2 DEF LineInv, LineOn, InUse, Inside, Numbers
<1>10. ActionInv'
  <2>0. Numbers' = Numbers /\ scopes' = scopes /\ items' = items
    BY <1>2 DEF Numbers
  <2>1. ASSUME NEW i \in 1 .. Len(actions'), actions'[i].scope # 0
        PROVE  /\ actions'[i].scope \in Numbers'
               /\ scopes'[actions'[i].scope].kind = "action"
    <3>1. CASE i \in 1 .. n
      BY <1>1, <1>4, <1>5, <2>0, <2>1, <3>1 DEF ActionInv
    <3>2. CASE i \notin 1 .. n
      <4>1. built /\ i = n + 1
        BY <1>5, <3>2
      <4>2. actions'[i] = [ending |-> TRUE, scope |-> found]
        BY <1>5, <4>1
      <4>3. found = items.action /\ found # 0 /\ actions'[i].scope = found
        BY <1>0, <2>1, <4>2
      <4>4. found \in Numbers
        BY <1>1, <4>3 DEF Numbers
      <4> QED
        BY <1>1, <2>0, <4>3, <4>4 DEF ActionInv
    <3> QED
      BY <3>1, <3>2
  <2>2. ASSUME NEW s \in Numbers' \ abandoned', scopes'[s].kind = "action", scopes'[s].open
        PROVE  Awaited(s)'
    <3>1. s \in Numbers \ abandoned /\ s # 0 /\ Awaited(s)
      BY <1>1, <1>2, <2>0, <2>2 DEF ActionInv, Numbers
    <3>2. PICK i \in 1 .. Len(actions) :
             actions[i].scope = s /\ (actions[i].ending \/ items.action = s)
      BY <3>1 DEF Awaited
    <3>3. CASE i \in 1 .. n
      <4>1. i \in 1 .. Len(actions') /\ actions'[i] = actions[i]
        BY <1>5, <3>3
      <4> QED
        BY <2>0, <3>2, <4>1 DEF Awaited
    <3>4. CASE i \notin 1 .. n
      <4>1. i = n + 1 /\ actions[i] = Last(actions)
        BY <1>4, <3>4
      <4>2. items.action = s /\ Last(actions).scope = s
        BY <1>2, <3>2, <4>1
      <4>3. built /\ here
        BY <1>2, <2>2, <3>1, <4>2
      <4>4. n + 1 \in 1 .. Len(actions') /\ actions'[n + 1] = [ending |-> TRUE, scope |-> s]
        BY <1>0, <1>5, <4>2, <4>3
      <4> QED
        BY <4>4 DEF Awaited
    <3> QED
      BY <3>3, <3>4
  <2> QED
    BY <1>1, <2>0, <2>1, <2>2 DEF ActionInv
<1> QED
  BY <1>6, <1>7, <1>8, <1>9, <1>10 DEF RequestsInv

-----------------------------------------------------------------------------
(***************************************************************************)
(* The host's handler.                                                     *)
(***************************************************************************)

\* Nothing happens to the scopes and the items.
LEMMA ScopesUntouched ==
    ASSUME HostTypes, ScopeInv, ActionInv, UNCHANGED <<scopes, actions, items, abandoned>>,
           request'.number = request.number, runs'[Task] = "not" => runs[Task] = "not"
    PROVE  ScopeInv' /\ ActionInv' /\ Kept /\ Numbers' = Numbers
<1>1. Kept /\ Numbers' = Numbers /\ request.number \in Nat
  BY DEF Kept, Numbers, HostTypes
<1> QED
  BY <1>1, ScopesStay, ActionsStay

\* The handler is called.
LEMMA Enters ==
    ASSUME RequestsInv, EnterHandler
    PROVE  RequestsInv'
<1>1. /\ HostTypes /\ StageInv /\ ScopeInv /\ ActionInv /\ RequestInv /\ LineInv
      /\ request.stage = "begun" /\ local[Main] \in 0 .. Len(scopes)
      /\ request' = [request EXCEPT !.stage = "handling", !.entered = local[Main]]
      /\ UNCHANGED <<host, integrated, scopes, local, runs, items, actions, strayed, abandoned>>
  BY TwoFlows DEF RequestsInv, HostTypes, EnterHandler
<1>2. /\ request'.number = request.number /\ request'.stage = "handling"
      /\ request'.headers = request.headers /\ request'.failed = request.failed
      /\ request'.entered = local[Main]
  BY <1>1 DEF HostTypes
<1>3. HostTypes'
  <2>1. request' \in [number : Nat, stage : {"idle", "begun", "handling", "handled", "reported"},
                    headers : Int, entered : Nat, failed : {"no", "status", "exception"}]
    <3>1. local[Main] \in Nat
      BY <1>1 DEF HostTypes
    <3> QED
      BY <1>1, <3>1 DEF HostTypes
  <2> QED
    BY <1>1, <1>2, <2>1 DEF HostTypes, Numbers
<1>4. StageInv'
  BY <1>1, <1>2 DEF StageInv
<1>5. ScopeInv' /\ ActionInv' /\ Kept /\ Numbers' = Numbers
  BY <1>1, <1>2, ScopesUntouched
<1>6. RequestInv'
  <2>1. PICK q : q = OurScope
    OBVIOUS
  <2>2. OurScope' = q
    BY <1>1, <1>2, <2>1 DEF OurScope
  <2>3. ASSUME ~strayed
        PROVE  Underway(q)'
    BY <1>1, <1>2, <1>5, <2>1, <2>3 DEF RequestInv, Underway
  <2> QED
    BY <1>1, <1>2, <2>2, <2>3 DEF RequestInv
<1>7. LineInv'
  <2>1. ASSUME NEW s \in Numbers
        PROVE  Inside(s)' = Inside(s)
    BY <1>1, <1>2 DEF Inside
  <2>2. ASSUME LineOn
        PROVE  items'.active # 0 /\ \A s \in Numbers' : InUse(s)' => Inside(s)'
    <3>1. ASSUME NEW s \in Numbers', InUse(s)'
          PROVE  Inside(s)'
      <4>1. InUse(s) /\ s \in Numbers
        BY <1>1, <1>2, <1>5, <3>1 DEF InUse
      <4> QED
        BY <1>1, <2>1, <2>2, <4>1 DEF LineInv
    <3> QED
      BY <1>1, <2>2, <3>1 DEF LineInv
  <2> QED
    BY <1>1, <1>2, <1>5, <2>1, <2>2, LineStays
<1> QED
  BY <1>3, <1>4, <1>5, <1>6, <1>7 DEF RequestsInv

\* The handler is done.  In ASP.NET Core the flow is where it was called, or
\* has strayed.
LEMMA Leaves ==
    ASSUME RequestsInv, NEW failed \in {"no", "status", "exception"}, NEW after,
           LeaveHandler(failed, after)
    PROVE  RequestsInv'
<1>1. /\ HostTypes /\ StageInv /\ ScopeInv /\ ActionInv /\ RequestInv /\ LineInv
      /\ request.stage = "handling" /\ local[Main] \in 0 .. Len(scopes)
      /\ request.entered \in 0 .. Len(scopes) /\ Len(scopes) \in Nat /\ strayed \in BOOLEAN
      /\ local \in [Flows -> 0 .. Len(scopes)] /\ host \in {"core", "aspnet"}
  BY TwoFlows DEF RequestsInv, HostTypes, LeaveHandler
<1>2. /\ actions = <<>> /\ (failed = "status" => host = "core")
      /\ request' = [request EXCEPT !.stage = "handled", !.failed = failed]
      /\ after \in {request.entered, local[Main]} \cup (IF host = "aspnet" THEN {0} ELSE {})
      /\ local' = [local EXCEPT ![Main] = after]
      /\ strayed' = (strayed \/ (after # request.entered /\ host = "core"))
      /\ UNCHANGED <<host, integrated, scopes, runs, items, actions, abandoned>>
  BY DEF LeaveHandler
<1>3. /\ request'.number = request.number /\ request'.stage = "handled"
      /\ request'.headers = request.headers /\ request'.failed = failed
      /\ request'.entered = request.entered
  BY <1>1, <1>2 DEF HostTypes
<1>4. /\ after \in 0 .. Len(scopes) /\ local' \in [Flows -> 0 .. Len(scopes)]
      /\ local'[Main] = after /\ local'[Task] = local[Task]
  BY <1>1, <1>2, TwoFlows
<1>5. HostTypes'
  BY <1>1, <1>2, <1>4 DEF HostTypes, Numbers
<1>6. StageInv'
  BY <1>1, <1>2, <1>3, <1>4 DEF StageInv
<1>7. ScopeInv' /\ ActionInv' /\ Kept /\ Numbers' = Numbers
  BY <1>1, <1>2, <1>3, ScopesUntouched
<1>8. RequestInv'
  <2>1. PICK q : q = OurScope
    OBVIOUS
  <2>2. ASSUME ~strayed'
        PROVE  OurScope' = q /\ Underway(q)'
    <3>1. ~strayed /\ OurScope' = q
      BY <1>1, <1>2, <1>3, <1>4, <2>1, <2>2 DEF OurScope
    <3>2. Underway(q)
      BY <1>1, <2>1, <3>1 DEF RequestInv
    <3> QED
      BY <1>2, <1>3, <1>7, <3>1, <3>2 DEF Underway
  <2> QED
    BY <1>3, <2>2 DEF RequestInv
<1>9. LineInv'
  <2>1. ASSUME NEW s \in Numbers
        PROVE  Inside(s)' = Inside(s)
    BY <1>2, <1>3 DEF Inside
  <2>2. ASSUME LineOn
        PROVE  items'.active # 0 /\ \A s \in Numbers' : InUse(s)' => Inside(s)'
    <3>1. ASSUME NEW s \in Numbers', InUse(s)'
          PROVE  Inside(s)'
      <4>1. s \in Numbers /\ s # 0
        BY <1>1, <1>7 DEF Numbers
      <4>2. InUse(s)
        BY <1>2, <1>3, <1>4, <3>1, <4>1 DEF InUse
      <4> QED
        BY <1>1, <2>1, <2>2, <4>1, <4>2 DEF LineInv
    <3> QED
      BY <1>1, <1>2, <2>2, <3>1 DEF LineInv
  <2> QED
    BY <1>1, <1>2, <1>3, <1>7, <2>1, <2>2, LineStays
<1> QED
  BY <1>5, <1>6, <1>7, <1>8, <1>9 DEF RequestsInv

\* The handler starts a task, which takes its AsyncLocal along, or goes on
\* without one.
LEMMA FlowsKeep ==
    ASSUME RequestsInv, (\E where \in {"in", "out"} : ForkTask(where)) \/ ContextLost
    PROVE  RequestsInv'
<1>1. /\ HostTypes /\ StageInv /\ ScopeInv /\ ActionInv /\ RequestInv /\ LineInv
      /\ local \in [Flows -> 0 .. Len(scopes)] /\ local[Main] \in 0 .. Len(scopes)
      /\ Len(scopes) \in Nat /\ runs \in [Flows -> {"in", "out", "not", "ended"}]
      /\ runs[Main] = "in"
  BY TwoFlows DEF RequestsInv, HostTypes
<1>2. /\ request.stage = "handling"
      /\ UNCHANGED <<host, integrated, request, scopes, items, actions, strayed, abandoned>>
  BY DEF ForkTask, ContextLost, Working
<1>3. /\ local' \in [Flows -> 0 .. Len(scopes)] /\ local'[Main] \in {local[Main], 0}
      /\ runs' \in [Flows -> {"in", "out", "not", "ended"}] /\ runs'[Main] = "in"
      /\ \/ runs[Task] = "not" /\ runs'[Task] # "not" /\ local'[Task] = local[Main]
         \/ runs' = runs /\ local'[Task] = local[Task]
  <2>1. CASE \E where \in {"in", "out"} : ForkTask(where)
    <3>1. PICK where \in {"in", "out"} : ForkTask(where)
      BY <2>1
    <3>2. /\ runs[Task] = "not" /\ runs' = [runs EXCEPT ![Task] = where]
          /\ local' = [local EXCEPT ![Task] = local[Main]]
      BY <3>1 DEF ForkTask
    <3> QED
      BY <1>1, <3>1, <3>2, TwoFlows
  <2>2. CASE ContextLost
    <3>1. runs' = runs /\ local' = [local EXCEPT ![Main] = 0]
      BY <2>2 DEF ContextLost
    <3> QED
      BY <1>1, <3>1, TwoFlows
  <2> QED
    BY <2>1, <2>2
<1>4. HostTypes'
  BY <1>1, <1>2, <1>3 DEF HostTypes, Numbers
<1>5. StageInv'
  BY <1>1, <1>2, <1>3 DEF StageInv
<1>6. ScopeInv' /\ ActionInv' /\ Kept /\ Numbers' = Numbers
  BY <1>1, <1>2, <1>3, ScopesUntouched
<1>7. RequestInv'
  BY <1>1, <1>2, <1>6, RequestStays
<1>8. LineInv'
  <2>1. ASSUME NEW s \in Numbers
        PROVE  Inside(s)' = Inside(s)
    BY <1>1, <1>2, <1>3 DEF Inside, ScopeInv
  <2>2. ASSUME LineOn
        PROVE  items'.active # 0 /\ \A s \in Numbers' : InUse(s)' => Inside(s)'
    <3>1. ASSUME NEW s \in Numbers', InUse(s)'
          PROVE  Inside(s)'
      <4>1. s \in Numbers /\ s # 0
        BY <1>1, <1>6 DEF Numbers
      <4>2. InUse(s)
        BY <1>2, <1>3, <3>1, <4>1 DEF InUse
      <4> QED
        BY <1>1, <2>1, <2>2, <4>1, <4>2 DEF LineInv
    <3> QED
      BY <1>1, <1>2, <2>2, <3>1 DEF LineInv
  <2> QED
    BY <1>1, <1>2, <1>6, <2>1, <2>2, LineStays
<1> QED
  BY <1>4, <1>5, <1>6, <1>7, <1>8 DEF RequestsInv

-----------------------------------------------------------------------------
(***************************************************************************)
(* The request begins, fails and ends.                                     *)
(***************************************************************************)

\* The exception is recorded in the scope of the request, found active in one
\* host and in the items in the other.
LEMMA Fails ==
    ASSUME RequestsInv, OnHostingUnhandledException \/ OnError
    PROVE  RequestsInv'
<1>1. /\ HostTypes /\ StageInv /\ ScopeInv /\ ActionInv /\ RequestInv /\ LineInv
      /\ scopes \in Seq(Scope) /\ Len(scopes) \in Nat
      /\ request.stage = "handled" /\ request.failed = "exception"
      /\ request' = [request EXCEPT !.stage = "reported"]
      /\ UNCHANGED <<host, integrated, local, runs, items, actions, strayed, abandoned>>
  BY DEF RequestsInv, HostTypes, OnHostingUnhandledException, OnError
<1>2. PICK q : q = OurScope
  OBVIOUS
<1>3. /\ IF q # 0 THEN SetException(q) ELSE UNCHANGED scopes
      /\ q \in 0 .. Len(scopes)
  <2>1. CASE OnHostingUnhandledException
    <3>1. host = "core" /\ Active(Main) = local[Main] /\ OurScope = local[Main]
      BY <1>1, <2>1 DEF OnHostingUnhandledException, Active, InContext, OurScope
    <3> QED
      BY <1>1, <1>2, <2>1, <3>1, TwoFlows DEF OnHostingUnhandledException, HostTypes
  <2>2. CASE OnError
    <3>1. OurScope = items.module
      BY <2>2 DEF OnError, OurScope
    <3> QED
      BY <1>1, <1>2, <2>2, <3>1 DEF OnError, HostTypes
  <2> QED
    BY <2>1, <2>2
<1>4. /\ scopes' \in Seq(Scope) /\ Len(scopes') = Len(scopes) /\ Numbers' = Numbers /\ Kept
      /\ q # 0 => q \in Numbers /\ scopes'[q].open = scopes[q].open
                  /\ (scopes[q].open => scopes'[q].error)
      /\ \A s \in Numbers \ {q} : scopes'[s] = scopes[s]
  <2>1. CASE q # 0
    <3>1. q \in Numbers /\ SetException(q)
      BY <1>3, <2>1 DEF Numbers
    <3> QED
      BY <1>1, <3>1, Marked
  <2>2. CASE q = 0
    <3>1. scopes' = scopes
      BY <1>3, <2>2
    <3> QED
      BY <1>1, <2>2, <3>1 DEF Kept, Numbers
  <2> QED
    BY <2>1, <2>2
<1>5. /\ request'.number = request.number /\ request'.stage = "reported"
      /\ request'.headers = request.headers /\ request'.failed = "exception"
      /\ request'.entered = request.entered
  BY <1>1 DEF HostTypes
<1>6. HostTypes'
  BY <1>1, <1>4, <1>5 DEF HostTypes
<1>7. StageInv'
  BY <1>1, <1>5 DEF StageInv
<1>8. ScopeInv' /\ ActionInv'
  BY <1>1, <1>4, <1>5, ScopesStay, ActionsStay DEF HostTypes
<1>9. RequestInv'
  <2>1. OurScope' = q
    BY <1>1, <1>2, <1>5 DEF OurScope
  <2>2. ASSUME ~strayed
        PROVE  Underway(q)'
    <3>1. Underway(q)
      BY <1>1, <1>2, <2>2 DEF RequestInv
    <3>2. ASSUME NEW s \in Numbers', scopes'[s].kind = "request"
          PROVE  s = q \/ (~scopes'[s].open /\ scopes'[s].of # request'.number)
      BY <1>4, <1>5, <3>1, <3>2 DEF Underway
    <3>3. ASSUME q # 0
          PROVE  /\ scopes'[q].kind = "request" /\ scopes'[q].open
                 /\ scopes'[q].of = request'.number /\ scopes'[q].parent = 0
                 /\ scopes'[q].error
      BY <1>4, <1>5, <3>1, <3>3 DEF Underway, Kept
    <3> QED
      BY <3>2, <3>3 DEF Underway
  <2> QED
    BY <1>1, <1>5, <2>1, <2>2 DEF RequestInv
<1>10. LineInv'
  <2>1. ASSUME NEW s \in Numbers
        PROVE  Inside(s)' = Inside(s)
    BY <1>1, <1>4, <1>5 DEF Inside, Kept
  <2>2. ASSUME LineOn
        PROVE  items'.active # 0 /\ \A s \in Numbers' : InUse(s)' => Inside(s)'
    <3>1. ASSUME NEW s \in Numbers', InUse(s)'
          PROVE  Inside(s)'
      <4>1. InUse(s) /\ s \in Numbers
        BY <1>1, <1>4, <1>5, <3>1 DEF InUse
      <4> QED
        BY <1>1, <2>1, <2>2, <4>1 DEF LineInv
    <3> QED
      BY <1>1, <2>2, <3>1 DEF LineInv
  <2> QED
    BY <1>1, <1>4, <1>5, <2>1, <2>2, LineStays
<1> QED
  BY <1>6, <1>7, <1>8, <1>9, <1>10 DEF RequestsInv

\* ASP.NET Core ends the request: what is active is its scope, which lies on
\* nothing.
LEMMA CoreEnds ==
    ASSUME RequestsInv, OnHostingHttpRequestInStop
    PROVE  RequestsInv'
<1>1. /\ HostTypes /\ StageInv /\ ScopeInv /\ ActionInv /\ RequestInv
      /\ scopes \in Seq(Scope) /\ Len(scopes) \in Nat
      /\ host = "core" /\ items = NoItems /\ request.stage \in {"handled", "reported"}
      /\ request.failed = "exception" => request.stage = "reported"
      /\ request' = [request EXCEPT !.stage = "idle"]
      /\ UNCHANGED <<host, integrated, runs, actions, strayed, abandoned>>
  BY DEF RequestsInv, HostTypes, OnHostingHttpRequestInStop
<1>2. PICK q \in 0 .. Len(scopes) : q = local[Main]
  BY <1>1, TwoFlows DEF HostTypes
<1>3. Active(Main) = q /\ ~InContext(Main)
  BY <1>1, <1>2 DEF Active, InContext
<1>4. IF q # 0 THEN Dispose(Main, q, request.failed = "status")
      ELSE UNCHANGED <<scopes, local, items>>
  BY <1>3 DEF OnHostingHttpRequestInStop
<1>5. /\ scopes' \in Seq(Scope) /\ Len(scopes') = Len(scopes) /\ Numbers' = Numbers /\ Kept
      /\ q # 0 => q \in Numbers /\ ~scopes'[q].open
                  /\ (request.failed = "status" /\ scopes[q].open => scopes'[q].error)
      /\ \A s \in Numbers \ {q} : scopes'[s] = scopes[s]
      /\ items' = items /\ local' \in [Flows -> 0 .. Len(scopes)]
      /\ local'[Task] = local[Task]
      /\ local'[Main] = IF q # 0 THEN scopes[q].parent ELSE 0
  <2>1. CASE q # 0
    <3>1. PICK failed \in BOOLEAN : failed = (request.failed = "status")
      OBVIOUS
    <3>2. q \in Numbers /\ scopes[q].parent \in 0 .. Len(scopes)
      BY <1>1, <2>1 DEF ScopeInv, Numbers
    <3>3. /\ SetActive(Main, scopes[q].parent)
          /\ scopes' = [scopes EXCEPT ![q].open = FALSE,
                                      ![q].error = @ \/ (failed /\ scopes[q].open)]
      BY <1>3, <1>4, <2>1, <3>1 DEF Dispose
    <3>4. /\ scopes' \in Seq(Scope) /\ Len(scopes') = Len(scopes) /\ Numbers' = Numbers
          /\ Kept /\ ~scopes'[q].open
          /\ failed /\ scopes[q].open => scopes'[q].error
          /\ \A s \in Numbers \ {q} : scopes'[s] = scopes[s]
      BY <1>1, <3>2, <3>3, Closed
    <3>5. /\ local' \in [Flows -> 0 .. Len(scopes)] /\ local'[Main] = scopes[q].parent
          /\ local'[Task] = local[Task] /\ items' = items
      <4>1. /\ Len(scopes') \in Nat /\ Len(scopes) <= Len(scopes')
            /\ scopes[q].parent \in 0 .. Len(scopes') /\ Main \in Flows
        BY <1>1, <3>2, <3>4, TwoFlows
      <4>2. /\ local' \in [Flows -> 0 .. Len(scopes')] /\ local'[Main] = scopes[q].parent
            /\ \A g \in Flows \ {Main} : local'[g] = local[g]
            /\ items' = items
        BY <1>1, <1>3, <3>3, <4>1, ActiveSet
      <4> QED
        BY <3>4, <4>2, TwoFlows
    <3> QED
      BY <2>1, <3>1, <3>2, <3>4, <3>5
  <2>2. CASE q = 0
    <3>1. scopes' = scopes /\ local' = local /\ items' = items
      BY <1>4, <2>2
    <3> QED
      <4>1. local \in [Flows -> 0 .. Len(scopes)]
        BY <1>1 DEF HostTypes
      <4>2. Kept /\ Numbers' = Numbers
        BY <1>1, <3>1 DEF Kept, Numbers
      <4> QED
        BY <1>1, <1>2, <2>2, <3>1, <4>1, <4>2
  <2> QED
    BY <2>1, <2>2
<1>6. /\ request'.number = request.number /\ request'.stage = "idle"
      /\ request'.headers = request.headers /\ request'.failed = request.failed
      /\ request'.entered = request.entered
  BY <1>1 DEF HostTypes
<1>7. HostTypes'
  BY <1>1, <1>5, <1>6 DEF HostTypes
<1>8. StageInv'
  BY <1>1, <1>5, <1>6 DEF StageInv
<1>9. ScopeInv' /\ ActionInv'
  BY <1>1, <1>5, <1>6, ScopesStay, ActionsStay DEF HostTypes
<1>10. RequestInv'
  <2>1. ASSUME ~strayed
        PROVE  Over'
    <3>1. Underway(q)
      BY <1>1, <1>2, <2>1 DEF RequestInv, OurScope
    <3>2. local'[Main] = 0
      BY <1>5, <3>1 DEF Underway
    <3>3. ASSUME NEW s \in Numbers', scopes'[s].kind = "request"
          PROVE  /\ ~scopes'[s].open
                 /\ request'.failed # "no" /\ scopes'[s].of = request'.number => scopes'[s].error
      <4>1. scopes[s].kind = "request" /\ scopes'[s].of = scopes[s].of /\ s \in Numbers
        BY <1>5, <3>3 DEF Kept
      <4>2. CASE s = q
        <5>1. q # 0
          BY <4>1, <4>2 DEF Numbers
        <5>2. scopes[q].open /\ (request.stage = "reported" => scopes[q].error)
          BY <3>1, <5>1 DEF Underway
        <5>3. request.failed \in {"no", "status", "exception"}
          BY <1>1 DEF HostTypes
        <5> QED
          BY <1>1, <1>5, <1>6, <4>1, <4>2, <5>1, <5>2, <5>3 DEF Kept
      <4>3. CASE s # q
        BY <1>5, <1>6, <3>1, <4>1, <4>3 DEF Underway
      <4> QED
        BY <4>2, <4>3
    <3> QED
      BY <1>1, <1>5, <3>2, <3>3 DEF Over, NoItems
  <2> QED
    BY <1>1, <1>6, <2>1 DEF RequestInv
<1>11. LineInv'
  BY <1>1 DEF LineInv, LineOn
<1> QED
  BY <1>7, <1>8, <1>9, <1>10, <1>11 DEF RequestsInv

\* ASP.NET ends the request: its scope is found in the items, and they and the
\* flow start afresh.
LEMMA AspNetEnds ==
    ASSUME RequestsInv, OnEndRequest
    PROVE  RequestsInv'
<1>1. /\ HostTypes /\ StageInv /\ ScopeInv /\ ActionInv /\ RequestInv
      /\ scopes \in Seq(Scope) /\ Len(scopes) \in Nat /\ host = "aspnet" /\ ~strayed
      /\ request.stage \in {"handled", "reported"}
      /\ request.failed = "exception" => request.stage = "reported"
      /\ request.failed \in {"no", "exception"}
      /\ request' = [request EXCEPT !.stage = "idle"]
      /\ local' = [local EXCEPT ![Main] = 0] /\ items' = NoItems
      /\ runs' = [runs EXCEPT ![Task] = IF @ = "in" THEN "ended" ELSE @]
      /\ UNCHANGED <<host, integrated, actions, strayed, abandoned>>
      /\ local \in [Flows -> 0 .. Len(scopes)]
      /\ runs \in [Flows -> {"in", "out", "not", "ended"}] /\ runs[Main] = "in"
  BY DEF RequestsInv, HostTypes, OnEndRequest
<1>2. PICK q \in 0 .. Len(scopes) : q = items.module
  BY <1>1 DEF HostTypes
<1>3. /\ scopes' \in Seq(Scope) /\ Len(scopes') = Len(scopes) /\ Numbers' = Numbers /\ Kept
      /\ q # 0 => q \in Numbers /\ ~scopes'[q].open
      /\ \A s \in Numbers \ {q} : scopes'[s] = scopes[s]
  <2>1. CASE q # 0
    <3>1. q \in Numbers /\ scopes' = [scopes EXCEPT ![q].open = FALSE]
      BY <1>1, <1>2, <2>1 DEF OnEndRequest, Numbers
    <3> QED
      BY <1>1, <3>1, Ended
  <2>2. CASE q = 0
    <3>1. scopes' = scopes
      BY <1>2, <2>2 DEF OnEndRequest
    <3> QED
      BY <1>1, <2>2, <3>1 DEF Kept, Numbers
  <2> QED
    BY <2>1, <2>2
<1>4. /\ request'.number = request.number /\ request'.stage = "idle"
      /\ request'.headers = request.headers /\ request'.failed = request.failed
      /\ request'.entered = request.entered
  BY <1>1 DEF HostTypes
<1>5. /\ runs' \in [Flows -> {"in", "out", "not", "ended"}] /\ runs'[Main] = "in"
      /\ runs'[Task] # "in" /\ (runs'[Task] = "not" <=> runs[Task] = "not")
      /\ local' \in [Flows -> 0 .. Len(scopes)] /\ local'[Main] = 0
      /\ local'[Task] = local[Task]
  BY <1>1, TwoFlows
<1>6. HostTypes'
  <2>1. items' \in [active : 0 .. Len(scopes'), module : 0 .. Len(scopes'),
                  action : 0 .. Len(scopes')]
    BY <1>1, <1>3 DEF NoItems
  <2>2. request' \in [number : Nat, stage : {"idle", "begun", "handling", "handled", "reported"},
                    headers : Int, entered : Nat, failed : {"no", "status", "exception"}]
    BY <1>1 DEF HostTypes
  <2> QED
    BY <1>1, <1>3, <1>4, <1>5, <2>1, <2>2 DEF HostTypes
<1>7. StageInv'
  BY <1>1, <1>4, <1>5 DEF StageInv
<1>8. ScopeInv'
  BY <1>1, <1>3, <1>4, <1>5, ScopesStay DEF HostTypes
<1>9. ActionInv'
  <2>1. actions = <<>> /\ actions' = <<>> /\ items'.action = 0
    BY <1>1 DEF StageInv, NoItems
  <2>2. ASSUME NEW s \in Numbers' \ abandoned', scopes'[s].kind = "action"
        PROVE  ~scopes'[s].open
    <3>1. /\ s \in Numbers \ abandoned /\ scopes[s].kind = "action"
          /\ scopes'[s].open => scopes[s].open
      BY <1>1, <1>3, <2>2 DEF Kept
    <3>2. ~Awaited(s)
      BY <1>1, <2>1 DEF Awaited
    <3> QED
      BY <1>1, <3>1, <3>2 DEF ActionInv
  <2> QED
    BY <2>1, <2>2 DEF ActionInv
<1>10. RequestInv'
  <2>1. Underway(q)
    BY <1>1, <1>2 DEF RequestInv, OurScope
  <2>2. ASSUME NEW s \in Numbers', scopes'[s].kind = "request"
        PROVE  /\ ~scopes'[s].open
               /\ request'.failed # "no" /\ scopes'[s].of = request'.number => scopes'[s].error
    <3>1. scopes[s].kind = "request" /\ scopes'[s].of = scopes[s].of /\ s \in Numbers
      BY <1>3, <2>2 DEF Kept
    <3>2. CASE s = q
      <4>1. q # 0
        BY <3>1, <3>2 DEF Numbers
      <4>2. request.stage = "reported" => scopes[q].error
        BY <2>1, <4>1 DEF Underway
      <4> QED
        BY <1>1, <1>3, <1>4, <3>1, <3>2, <4>1, <4>2 DEF Kept
    <3>3. CASE s # q
      BY <1>3, <1>4, <2>1, <3>1, <3>3 DEF Underway
    <3> QED
      BY <3>2, <3>3
  <2>3. Over'
    BY <1>1, <1>5, <2>2 DEF Over, NoItems
  <2> QED
    BY <1>4, <2>3 DEF RequestInv
<1>11. LineInv'
  BY <1>4 DEF LineInv, LineOn
<1> QED
  BY <1>6, <1>7, <1>8, <1>9, <1>10, <1>11 DEF RequestsInv

\* A request begins with a scope, on nothing: in ASP.NET Core the flow is in
\* none, and in ASP.NET it is fresh, as are the items that get the scope.
LEMMA Begins ==
    ASSUME RequestsInv, NEW c \in {NoContext, 0}, OnHostingHttpRequestInStart(c) \/ OnBeginRequest(c)
    PROVE  RequestsInv'
<1>1. /\ HostTypes /\ StageInv /\ ScopeInv /\ ActionInv /\ RequestInv
      /\ scopes \in Seq(Scope) /\ Len(scopes) \in Nat /\ host \in {"core", "aspnet"}
      /\ integrated \in BOOLEAN /\ request.number \in Nat /\ request.stage = "idle"
      /\ local \in [Flows -> 0 .. Len(scopes)] /\ runs[Main] = "in"
      /\ UNCHANGED <<host, integrated, runs, actions, strayed, abandoned>>
      /\ c \in {NoContext} \cup 0 .. Len(scopes)
  BY DEF RequestsInv, HostTypes, OnHostingHttpRequestInStart, OnBeginRequest, NextRequest
<1>2. PICK n : n = Fresh
  OBVIOUS
<1>3. /\ request' = [number |-> request.number + 1, stage |-> "begun", entered |-> 0,
                     failed |-> "no",
                     headers |-> IF host = "core" \/ ~integrated THEN c ELSE IF c = 0 THEN 0 ELSE n]
      /\ scopes' = Append(scopes, NewScope(Main, "request", c))
      /\ local' = [local EXCEPT ![Main] = n]
      /\ items' = IF host = "core" THEN items ELSE [active |-> n, module |-> n, action |-> 0]
  <2>1. CASE OnHostingHttpRequestInStart(c)
    BY <1>2, <2>1 DEF OnHostingHttpRequestInStart, NextRequest, StartActive, SetActive, InContext
  <2>2. CASE OnBeginRequest(c)
    BY <1>2, <2>2 DEF OnBeginRequest
  <2> QED
    BY <2>1, <2>2
<1>4. /\ request'.number = request.number + 1 /\ request'.stage = "begun"
      /\ request'.failed = "no" /\ request'.entered = 0
      /\ request'.headers = IF host = "core" \/ ~integrated THEN c ELSE IF c = 0 THEN 0 ELSE n
  BY <1>3
<1>5. PICK x : x = NewScope(Main, "request", c)
  OBVIOUS
<1>6. /\ x \in Scope /\ x.kind = "request" /\ x.by = Main /\ x.of = request'.number
      /\ x.parent = Active(Main) /\ x.parent \in 0 .. Fresh - 1 /\ x.trace \in 0 .. Fresh
      /\ x.open
      /\ x.trace = IF c # NoContext THEN c
                   ELSE IF Active(Main) # 0 THEN scopes[Active(Main)].trace ELSE Fresh
  BY <1>1, <1>4, <1>5, TwoFlows, NewScopeTyped DEF Kinds
<1>7. /\ scopes' \in Seq(Scope) /\ Len(scopes') = n
      /\ \A s \in Numbers : scopes'[s] = scopes[s]
      /\ scopes'[n] = x /\ Kept
      /\ Numbers' = Numbers \cup {n} /\ n \notin Numbers
  BY <1>1, <1>2, <1>3, <1>5, <1>6, Appended
<1>8. n \in Nat \ {0} /\ n \in 0 .. Len(scopes') /\ Len(scopes) <= Len(scopes') /\ n \in Numbers'
  BY <1>1, <1>2, <1>7 DEF Fresh
<1>9. /\ local' \in [Flows -> 0 .. Len(scopes')] /\ local'[Main] = n
      /\ local'[Task] = local[Task]
  <2>1. \A m \in 0 .. Len(scopes) : m \in 0 .. Len(scopes')
    BY <1>1, <1>7, <1>8
  <2> QED
    BY <1>1, <1>3, <1>8, <2>1, TwoFlows
<1>10. HostTypes'
  <2>1. items' \in [active : 0 .. Len(scopes'), module : 0 .. Len(scopes'),
                  action : 0 .. Len(scopes')]
        /\ (host = "core" => items' = NoItems)
    <3>1. CASE host = "core"
      BY <1>1, <1>3, <1>7, <1>8, <3>1 DEF HostTypes, NoItems
    <3>2. CASE host # "core"
      BY <1>3, <1>7, <1>8, <3>2
    <3> QED
      BY <3>1, <3>2
  <2>2. request' \in [number : Nat, stage : {"idle", "begun", "handling", "handled", "reported"},
                    headers : Int, entered : Nat, failed : {"no", "status", "exception"}]
        /\ request'.headers \in {NoContext} \cup 0 .. Len(scopes')
        /\ request'.entered \in 0 .. Len(scopes')
    BY <1>1, <1>3, <1>7, <1>8 DEF NoContext
  <2>3. abandoned' \subseteq Numbers'
    BY <1>1, <1>7 DEF HostTypes
  <2> QED
    BY <1>1, <1>4, <1>7, <1>9, <2>1, <2>2, <2>3 DEF HostTypes
<1>11. StageInv'
  BY <1>1, <1>4, <1>9 DEF StageInv
<1>12. ScopeInv'
  <2>1. request'.number \in Nat /\ request.number <= request'.number
        /\ x.of \in 1 .. request'.number
    BY <1>1, <1>4, <1>6
  <2> QED
    BY <1>1, <1>2, <1>6, <1>7, <2>1, ScopesStay
<1>13. ActionInv'
  <2>1. items'.action = items.action \/ (host = "aspnet" /\ items'.action = 0)
    BY <1>1, <1>3
  <2>2. items'.action = items.action
    BY <1>1, <2>1 DEF RequestInv, Over, NoItems, HostTypes
  <2> QED
    BY <1>1, <1>6, <1>7, <2>2, ActionsStay
<1>14. ASSUME ~strayed
       PROVE  x.parent = 0 /\ OurScope' = n /\ Underway(n)'
  <2>1. Over
    BY <1>1, <1>14 DEF RequestInv
  <2>2. x.parent = 0
    BY <1>6, <2>1 DEF Active, Over, NoItems
  <2>3. OurScope' = n
    BY <1>1, <1>3, <1>4, <1>9 DEF OurScope
  <2>4. ASSUME NEW s \in Numbers', scopes'[s].kind = "request"
        PROVE  s = n \/ (~scopes'[s].open /\ scopes'[s].of # request'.number)
    <3>1. ASSUME s \in Numbers
          PROVE  ~scopes'[s].open /\ scopes'[s].of # request'.number
      BY <1>1, <1>4, <1>7, <2>1, <2>4, <3>1 DEF Over, ScopeInv
    <3> QED
      BY <1>7, <3>1
  <2> QED
    BY <1>4, <1>6, <1>7, <2>2, <2>3, <2>4 DEF Underway
<1>15. RequestInv'
  BY <1>1, <1>4, <1>14 DEF RequestInv
<1>16. LineInv'
  <2> SUFFICES ASSUME host = "aspnet" PROVE LineInv'
    BY <1>1 DEF LineInv, LineOn
  <2>1. Over /\ ~strayed /\ runs[Task] # "in" /\ items' = [active |-> n, module |-> n, action |-> 0]
    BY <1>1, <1>3 DEF RequestInv, HostTypes, Over
  <2>2. x.parent = 0 /\ x.trace = IF c # NoContext THEN c ELSE n
    BY <1>2, <1>6, <1>14, <2>1
  <2>3. ASSUME NEW s \in Numbers', scopes'[s].of = request'.number
        PROVE  s = n
    <3>1. ASSUME s \in Numbers
          PROVE  FALSE
      BY <1>1, <1>4, <1>7, <2>3, <3>1 DEF ScopeInv
    <3> QED
      BY <1>7, <3>1
  <2>4. ASSUME NEW s \in Numbers', InUse(s)'
        PROVE  s = n
    BY <1>1, <1>4, <1>7, <1>9, <2>1, <2>4 DEF InUse, Numbers
  <2>5. ASSUME NEW s \in Numbers'
        PROVE  Inside(s)' <=> s = n
    BY <1>6, <1>7, <2>3 DEF Inside
  <2>6. integrated' => request'.headers = scopes'[n].trace
    BY <1>1, <1>4, <1>7, <2>2 DEF NoContext
  <2> QED
    BY <1>8, <2>1, <2>3, <2>4, <2>5, <2>6 DEF LineInv
<1> QED
  BY <1>10, <1>11, <1>12, <1>13, <1>15, <1>16 DEF RequestsInv

\* It begins without one.
LEMMA BeginsWithout ==
    ASSUME RequestsInv, NEW c \in {NoContext, 0},
           OnHostingHttpRequestInStartNoSpan(c) \/ OnBeginRequestNoScope(c)
    PROVE  RequestsInv'
<1>1. /\ HostTypes /\ StageInv /\ ScopeInv /\ ActionInv /\ RequestInv
      /\ scopes \in Seq(Scope) /\ Len(scopes) \in Nat /\ host \in {"core", "aspnet"}
      /\ request.number \in Nat /\ request.stage = "idle"
      /\ request' = [number |-> request.number + 1, stage |-> "begun",
                     headers |-> c, entered |-> 0, failed |-> "no"]
      /\ UNCHANGED <<host, integrated, runs, actions, strayed, abandoned, local, items>>
      /\ c \in {NoContext} \cup 0 .. Len(scopes)
  BY DEF RequestsInv, HostTypes, OnHostingHttpRequestInStartNoSpan, OnBeginRequestNoScope,
         NextRequest
<1>2. /\ request'.number = request.number + 1 /\ request'.stage = "begun"
      /\ request'.failed = "no" /\ request'.entered = 0 /\ request'.headers = c
  BY <1>1
<1>3. /\ scopes' \in Seq(Scope) /\ Len(scopes) <= Len(scopes') /\ Kept /\ Len(scopes') \in Nat
      /\ Numbers \subseteq Numbers' /\ \A s \in Numbers : scopes'[s] = scopes[s]
      /\ \A s \in Numbers' \ Numbers :
            /\ scopes'[s].kind = "dropped" /\ scopes'[s].of = request'.number
            /\ scopes'[s].by = Main
            /\ scopes'[s].parent \in 0 .. s - 1 /\ scopes'[s].trace \in 0 .. s
  <2>1. CASE OnHostingHttpRequestInStartNoSpan(c)
    <3>1. scopes' = scopes
      BY <2>1 DEF OnHostingHttpRequestInStartNoSpan
    <3> QED
      BY <1>1, <3>1 DEF Kept, Numbers
  <2>2. CASE OnBeginRequestNoScope(c)
    <3>1. PICK y : y = NewScope(Main, "dropped", c)
      OBVIOUS
    <3>2. PICK x : x = [y EXCEPT !.open = FALSE]
      OBVIOUS
    <3>3. scopes' = Append(scopes, x)
      BY <2>2, <3>1, <3>2 DEF OnBeginRequestNoScope, DropScope
    <3>4. /\ y \in Scope /\ y.kind = "dropped" /\ y.by = Main /\ y.of = request'.number
          /\ y.parent \in 0 .. Fresh - 1 /\ y.trace \in 0 .. Fresh
      BY <1>1, <1>2, <3>1, TwoFlows, NewScopeTyped DEF Kinds
    <3>5. /\ x \in Scope /\ x.kind = "dropped" /\ x.by = Main /\ x.of = request'.number
          /\ x.parent \in 0 .. Fresh - 1 /\ x.trace \in 0 .. Fresh
      BY <3>2, <3>4 DEF Scope
    <3>6. /\ scopes' \in Seq(Scope) /\ Len(scopes') = Fresh
          /\ \A s \in Numbers : scopes'[s] = scopes[s]
          /\ scopes'[Fresh] = x /\ Kept
          /\ Numbers' = Numbers \cup {Fresh}
      BY <1>1, <3>3, <3>5, Appended
    <3> QED
      BY <1>1, <3>5, <3>6 DEF Fresh
  <2> QED
    BY <2>1, <2>2
<1>4. HostTypes'
  <2>1. \A m \in 0 .. Len(scopes) : m \in 0 .. Len(scopes')
    BY <1>1, <1>3
  <2>2. local' \in [Flows -> 0 .. Len(scopes')]
    BY <1>1, <2>1 DEF HostTypes
  <2>3. items' \in [active : 0 .. Len(scopes'), module : 0 .. Len(scopes'),
                  action : 0 .. Len(scopes')]
    BY <1>1, <2>1 DEF HostTypes
  <2>4. request' \in [number : Nat, stage : {"idle", "begun", "handling", "handled", "reported"},
                    headers : Int, entered : Nat, failed : {"no", "status", "exception"}]
        /\ request'.headers \in {NoContext} \cup 0 .. Len(scopes')
        /\ request'.entered \in 0 .. Len(scopes')
    BY <1>1, <1>3 DEF NoContext
  <2>5. abandoned' \subseteq Numbers'
    BY <1>1, <1>3 DEF HostTypes
  <2> QED
    BY <1>1, <1>2, <1>3, <2>2, <2>3, <2>4, <2>5 DEF HostTypes
<1>5. StageInv'
  BY <1>1, <1>2 DEF StageInv
<1>6. ScopeInv'
  <2>1. /\ request'.number \in Nat /\ request.number <= request'.number
        /\ request'.number \in 1 .. request'.number
    BY <1>1, <1>2
  <2> QED
    BY <1>1, <1>3, <2>1, ScopesStay
<1>7. ActionInv'
  BY <1>1, <1>3, ActionsStay
<1>8. ASSUME ~strayed
      PROVE  OurScope' = 0 /\ Underway(0)' /\ items = NoItems
  <2>1. Over
    BY <1>1, <1>8 DEF RequestInv
  <2>2. OurScope' = 0
    BY <1>1, <1>2, <2>1 DEF OurScope, Over, NoItems
  <2>3. ASSUME NEW s \in Numbers', scopes'[s].kind = "request"
        PROVE  ~scopes'[s].open /\ scopes'[s].of # request'.number
    <3>1. s \in Numbers
      BY <1>3, <2>3
    <3> QED
      BY <1>1, <1>2, <1>3, <2>1, <2>3, <3>1 DEF Over, ScopeInv
  <2> QED
    BY <2>1, <2>2, <2>3 DEF Underway, Over
<1>9. RequestInv'
  BY <1>1, <1>2, <1>8 DEF RequestInv
<1>10. LineInv'
  BY <1>1, <1>8 DEF LineInv, LineOn, HostTypes, NoItems
<1> QED
  BY <1>4, <1>5, <1>6, <1>7, <1>9, <1>10 DEF RequestsInv

-----------------------------------------------------------------------------
(***************************************************************************)
(* The whole.                                                              *)
(***************************************************************************)

\* The host starts with no request and no scope.
LEMMA Starts == Init => RequestsInv
<1> SUFFICES ASSUME Init PROVE RequestsInv
  OBVIOUS
<1>1. /\ scopes = <<>> /\ actions = <<>> /\ Len(scopes) = 0 /\ Len(actions) = 0
      /\ Numbers = {} /\ items = NoItems /\ strayed = FALSE /\ abandoned = {}
      /\ request = [number |-> 0, stage |-> "idle", headers |-> NoContext,
                    entered |-> 0, failed |-> "no"]
      /\ local = [f \in Flows |-> 0]
      /\ runs = [f \in Flows |-> IF f = Main THEN "in" ELSE "not"]
      /\ host \in {"core", "aspnet"}
  BY DEF Init, Numbers
<1>2. HostTypes
  <2>1. integrated \in BOOLEAN
    BY Zenon DEF Init
  <2>2. scopes \in Seq(Scope) /\ actions \in Seq(Action)
    BY <1>1
  <2>3. request \in [number : Nat, stage : {"idle", "begun", "handling", "handled", "reported"},
                    headers : Int, entered : Nat, failed : {"no", "status", "exception"}]
        /\ request.headers = NoContext /\ request.entered = 0 /\ request.failed = "no"
    BY <1>1 DEF NoContext
  <2>4. items \in [active : 0 .. Len(scopes), module : 0 .. Len(scopes),
                  action : 0 .. Len(scopes)]
    BY <1>1 DEF NoItems
  <2>5. /\ local \in [Flows -> 0 .. Len(scopes)]
        /\ runs \in [Flows -> {"in", "out", "not", "ended"}] /\ runs[Main] = "in"
    BY <1>1, TwoFlows
  <2>6. /\ request.headers \in {NoContext} \cup 0 .. Len(scopes)
        /\ request.entered \in 0 .. Len(scopes) /\ Len(actions) <= 2
        /\ strayed \in BOOLEAN /\ ~strayed /\ abandoned \subseteq Numbers
        /\ request.failed # "status"
    <3>1. request.entered \in 0 .. Len(scopes)
      BY <1>1, <2>3
    <3>2. Len(actions) <= 2
      BY <1>1
    <3>3. /\ request.headers \in {NoContext} \cup 0 .. Len(scopes)
          /\ request.failed # "status"
      BY <2>3
    <3>4. strayed \in BOOLEAN /\ ~strayed /\ abandoned \subseteq Numbers
      BY <1>1
    <3> QED
      BY <3>1, <3>2, <3>3, <3>4
  <2> QED
    BY <1>1, <2>1, <2>2, <2>3, <2>4, <2>5, <2>6 DEF HostTypes
<1>3. StageInv /\ ScopeInv
  BY <1>1, TwoFlows DEF StageInv, ScopeInv
<1>4. ActionInv
  BY <1>1 DEF ActionInv, NoItems
<1>5. RequestInv /\ LineInv
  BY <1>1, TwoFlows DEF RequestInv, Over, LineInv, LineOn, NoItems
<1> QED
  BY <1>2, <1>3, <1>4, <1>5 DEF RequestsInv

\* Every step keeps the invariant.
LEMMA Steps == RequestsInv /\ [Next]_vars => RequestsInv'
<1> SUFFICES ASSUME RequestsInv, [Next]_vars PROVE RequestsInv'
  OBVIOUS
<1>1. CASE HostStep
  BY <1>1, Enters, Leaves, FlowsKeep, OpensKeep, CloseKeeps DEF HostStep
<1>2. CASE CoreStep
  BY <1>2, Begins, BeginsWithout, Fails, CoreEnds DEF CoreStep
<1>3. CASE AspNetStep
  BY <1>3, Begins, BeginsWithout, Fails, AspNetEnds, ActionBegins, ActionEnds, ActionDone,
     FlowsKeep, OpensKeep DEF AspNetStep
<1>4. CASE UNCHANGED vars
  <2>1. HostTypes' = HostTypes /\ StageInv' = StageInv /\ ScopeInv' = ScopeInv
    BY <1>4 DEF vars, HostTypes, StageInv, ScopeInv, Numbers
  <2>2. ActionInv' = ActionInv
    BY <1>4 DEF vars, ActionInv, Awaited, Numbers
  <2>3. RequestInv' = RequestInv
    BY <1>4 DEF vars, RequestInv, OurScope, Underway, Over, Numbers
  <2>4. LineInv' = LineInv
    BY <1>4 DEF vars, LineInv, LineOn, Inside, InUse, Numbers
  <2> QED
    BY <2>1, <2>2, <2>3, <2>4 DEF RequestsInv
<1> QED
  BY <1>1, <1>2, <1>3, <1>4 DEF Next

\* The invariant holds, whatever the number of requests and of scopes.
THEOREM RequestsHold == Spec => []RequestsInv
<1> QED
  BY Starts, Steps, PTL DEF Spec

\* A request that is over has its span ended, and in ASP.NET Core nothing is
\* left active, unless a handler has left its flow in another scope than it
\* found (OnHostingHttpRequestInStop, OnEndRequest).
THEOREM EndsClean == Spec => []RequestsEndClean
<1>1. RequestsInv => RequestsEndClean
  <2> SUFFICES ASSUME RequestsInv PROVE RequestsEndClean
    OBVIOUS
  <2>1. /\ HostTypes /\ ScopeInv /\ RequestInv /\ DOMAIN scopes = Numbers
        /\ \A s \in Numbers : scopes[s] \in Scope
    BY DEF RequestsInv, HostTypes, Numbers
  <2>2. TypeOK
    BY <2>1 DEF HostTypes, ScopeInv, TypeOK, Scope, Kinds
  <2>3. RequestsEnd
    BY <2>1 DEF RequestsEnd, HostTypes, RequestInv, Over
  <2> QED
    BY <2>2, <2>3 DEF RequestsEndClean
<1> QED
  BY <1>1, RequestsHold, PTL

\* The failure of a request is on its span, though one host looks for the active
\* span and the other in the items (OnHostingUnhandledException, OnError).
THEOREM FailureFound == Spec => []FailureOnItsRequest
<1>1. RequestsInv => FailureOnItsRequest
  <2> SUFFICES ASSUME RequestsInv PROVE FailureOnItsRequest
    OBVIOUS
  <2>1. RequestInv /\ DOMAIN scopes = Numbers
    BY DEF RequestsInv, HostTypes, Numbers
  <2> QED
    BY <2>1 DEF FailureOnItsRequest, RequestScope, RequestInv, Over
<1> QED
  BY <1>1, RequestsHold, PTL

\* The scope of an action of MVC is closed when the request is over, unless one of
\* its two calls failed, the second ran where HttpContext.Current is null, or the
\* item was overwritten before that (AspNetMvcIntegration.cs:243, 288 and 340).
THEOREM ActionsClosed == Spec => []ActionsEnd
<1>1. RequestsInv => ActionsEnd
  BY DEF RequestsInv, ActionsEnd, ActionInv, Awaited, StageInv, HostTypes, Numbers
<1> QED
  BY <1>1, RequestsHold, PTL

\* The spans of MVC, Web API and WCF are in the trace of their request, in
\* whatever flow or context they are made.
THEOREM OneTrace == Spec => []OneTracePerRequest
<1>1. RequestsInv => OneTracePerRequest
  <2> SUFFICES ASSUME RequestsInv, NEW r \in Numbers, NEW s \in Numbers, host = "aspnet",
                      scopes[r].kind = "request", scopes[r].open,
                      scopes[s].kind \in {"action", "server"}, scopes[s].of = scopes[r].of,
                      integrated \/ scopes[s].by = Main
               PROVE  scopes[s].trace = scopes[r].trace
    <3>1. DOMAIN scopes = Numbers \/ ~RequestsInv
      BY DEF RequestsInv, HostTypes, Numbers
    <3> QED
      BY <3>1 DEF OneTracePerRequest
  <2>1. HostTypes /\ ScopeInv /\ RequestInv /\ LineInv /\ ~strayed /\ request.stage # "idle"
    BY DEF RequestsInv, HostTypes, RequestInv, Over
  <2>2. Underway(items.module)
    BY <2>1 DEF RequestInv, OurScope
  <2>3. r = items.module
    BY <2>2 DEF Underway
  <2>4. LineOn /\ scopes[r].of = request.number
    BY <2>1, <2>2, <2>3 DEF Underway, LineOn, Numbers
  <2>5. CASE scopes[s].by = Main
    BY <2>1, <2>3, <2>4, <2>5 DEF LineInv, Inside
  <2>6. CASE scopes[s].by # Main
    BY <2>1, <2>3, <2>4, <2>6 DEF LineInv, ScopeInv
  <2> QED
    BY <2>5, <2>6
<1> QED
  BY <1>1, RequestsHold, PTL
=============================================================================
