-------------------------- MODULE ScopeUsersProofs --------------------------
(***************************************************************************)
(* Proofs about ScopeManager and the two that work with its scopes:        *)
(* LogCorrelation, which follows its events, and InstrumentedCalls, which  *)
(* opens and closes them around calls.  For any flows, scopes and          *)
(* operations.                                                             *)
(***************************************************************************)
EXTENDS LogCorrelation, InstrumentedCalls, SequenceTheorems, FiniteSetTheorems, TLAPS

-----------------------------------------------------------------------------
(***************************************************************************)
(*                   ScopeManager and LogCorrelation                       *)
(***************************************************************************)

\* The open scopes of flow f form the stack q of its using blocks: the first
\* lies on the scope that f started with, each other on the one before, and
\* the last is active.
UsingBlocks(f, q) ==
    /\ q \in Seq(Scopes)
    /\ active[f] = IF q = <<>> THEN inherited[f] ELSE q[Len(q)]
    /\ \A i, j \in 1 .. Len(q) : q[i] = q[j] => i = j
    /\ \A i \in 1 .. Len(q) : parent[q[i]] = IF i = 1 THEN inherited[f] ELSE q[i - 1]
    /\ \A s \in Scopes : s \in OwnOpen(f) <=> \E i \in 1 .. Len(q) : q[i] = s

\* Scopes are opened by flows that exist and closed when they were opened; a
\* flow inherits a scope of another flow.
HistoryInv ==
    /\ FirstFlow \in started /\ inherited[FirstFlow] = NoScope
    /\ \A s \in Scopes : opener[s] \in started \cup {NoScope}
    /\ \A s \in Scopes : opener[s] = NoScope => closes[s] = 0
    /\ \A f \in started : inherited[f] # NoScope =>
          inherited[f] \in Opened /\ opener[inherited[f]] # f

\* As long as every close came from nested using blocks, each flow has a stack
\* of them.
NestedInv == nested => \A f \in started : \E q : UsingBlocks(f, q)

ScopeInv == ScopeTypeOK /\ HistoryInv /\ NestedInv

-----------------------------------------------------------------------------
(***************************************************************************)
(* The stack of using blocks.                                              *)
(***************************************************************************)

\* Activate puts the new scope on the flow's stack.
LEMMA ActivateBlocks ==
    ASSUME ScopeTypeOK, HistoryInv, NEW f \in Flows, NEW s \in Scopes, Activate(f, s),
           NEW q, UsingBlocks(f, q)
    PROVE  UsingBlocks(f, Append(q, s))'
<1> DEFINE r == Append(q, s)
<1>1. q \in Seq(Scopes) /\ f # NoScope /\ s \notin OwnOpen(f) /\ opener[s] = NoScope
  BY ScopeAssumption DEF UsingBlocks, Activate, OwnOpen, Opened
<1>2. /\ r \in Seq(Scopes) /\ Len(r) = Len(q) + 1 /\ r[Len(r)] = s /\ r # <<>>
      /\ \A i \in 1 .. Len(q) : r[i] = q[i] /\ q[i] \in Scopes /\ q[i] # s
      /\ Len(q) \in Nat
  <2>1. Len(q) \in Nat /\ Len(r) = Len(q) + 1 /\ r \in Seq(Scopes)
    BY <1>1
  <2>2. r[Len(q) + 1] = s /\ \A i \in 1 .. Len(q) : r[i] = q[i] /\ q[i] \in Scopes
    BY <1>1
  <2>3. \A i \in 1 .. Len(q) : q[i] # s
    BY <1>1, <2>2 DEF UsingBlocks
  <2>4. r # <<>>
    BY <2>1
  <2> HIDE DEF r
  <2> QED
    BY <2>1, <2>2, <2>3, <2>4
<1>3. /\ active'[f] = s /\ parent'[s] = active[f] /\ inherited' = inherited
      /\ \A x \in Scopes : x # s => parent'[x] = parent[x]
  BY DEF Activate, ScopeTypeOK
<1>4. \A x \in Scopes : x \in OwnOpen(f)' <=> x = s \/ x \in OwnOpen(f)
  BY <1>1 DEF Activate, ScopeTypeOK, OwnOpen, HistoryInv
<1> HIDE DEF r
<1>5. \A i, j \in 1 .. Len(r) : r[i] = r[j] => i = j
  BY <1>2 DEF UsingBlocks
<1>6. \A i \in 1 .. Len(r) : parent'[r[i]] = IF i = 1 THEN inherited'[f] ELSE r[i - 1]
  <2>1. ASSUME NEW i \in 1 .. Len(q)
        PROVE  parent'[r[i]] = IF i = 1 THEN inherited'[f] ELSE r[i - 1]
    BY <1>2, <1>3 DEF UsingBlocks
  <2>2. parent'[r[Len(r)]] = IF Len(r) = 1 THEN inherited'[f] ELSE r[Len(r) - 1]
    BY <1>1, <1>2, <1>3 DEF UsingBlocks
  <2> QED
    BY <1>2, <2>1, <2>2
<1>7. \A x \in Scopes : x \in OwnOpen(f)' <=> \E i \in 1 .. Len(r) : r[i] = x
  <2>1. ASSUME NEW x \in Scopes, x \in OwnOpen(f)'
        PROVE  \E i \in 1 .. Len(r) : r[i] = x
    <3>1. CASE x = s
      BY <1>2, <3>1
    <3>2. CASE x \in OwnOpen(f)
      <4>1. PICK i \in 1 .. Len(q) : q[i] = x
        BY <3>2 DEF UsingBlocks
      <4> QED
        BY <1>2, <4>1
    <3> QED
      BY <1>4, <2>1, <3>1, <3>2
  <2>2. ASSUME NEW x \in Scopes, NEW i \in 1 .. Len(r), r[i] = x
        PROVE  x \in OwnOpen(f)'
    <3>1. CASE i = Len(r)
      BY <1>2, <1>4, <2>2, <3>1
    <3>2. CASE i \in 1 .. Len(q)
      BY <1>2, <1>4, <2>2, <3>2 DEF UsingBlocks
    <3> QED
      BY <1>2, <3>1, <3>2
  <2> QED
    BY <2>1, <2>2
<1> QED
  BY <1>2, <1>3, <1>5, <1>6, <1>7 DEF UsingBlocks, r

\* Front drops the last element.
LEMMA FrontProperties ==
    ASSUME NEW S, NEW q \in Seq(S), q # <<>>
    PROVE  /\ Front(q) \in Seq(S) /\ Len(q) \in Nat \ {0} /\ Len(Front(q)) = Len(q) - 1
           /\ \A i \in 1 .. Len(Front(q)) : Front(q)[i] = q[i]
           /\ Front(q) = <<>> <=> Len(q) = 1
<1> DEFINE r == Front(q)
<1>1. Len(q) \in Nat \ {0}
  OBVIOUS
<1>2. PICK n \in Nat \ {0} : n = Len(q)
  BY <1>1
<1>3. \A i \in 1 .. n - 1 : i \in 1 .. n /\ q[i] \in S
  BY <1>2
<1>4. /\ r \in Seq(S) /\ Len(r) = IF 1 <= n - 1 THEN n - 1 - 1 + 1 ELSE 0
      /\ \A i \in 1 .. n - 1 - 1 + 1 : r[i] = q[1 + i - 1]
  BY <1>2, <1>3, SubSeqProperties DEF Front
<1>5. (IF 1 <= n - 1 THEN n - 1 - 1 + 1 ELSE 0) = n - 1
  OBVIOUS
<1> HIDE DEF r
<1>6. Len(r) = n - 1
  BY <1>4, <1>5
<1>7. ASSUME NEW i \in 1 .. n - 1
      PROVE  r[i] = q[i]
  <2>1. i \in 1 .. n - 1 - 1 + 1 /\ 1 + i - 1 = i
    OBVIOUS
  <2> QED
    BY <1>4, <2>1
<1>8. r = <<>> <=> n = 1
  BY <1>4, <1>6
<1> QED
  BY <1>2, <1>4, <1>6, <1>7, <1>8 DEF r

\* A flow whose active scope is its own has that scope on top of its stack.
LEMMA ActiveOnTop ==
    ASSUME HistoryInv, NEW f \in started, NEW q, UsingBlocks(f, q),
           active[f] # NoScope, opener[active[f]] = f
    PROVE  q # <<>> /\ active[f] = q[Len(q)] /\ closes[active[f]] = 0
<1>1. q # <<>>
  BY DEF UsingBlocks, HistoryInv
<1>2. Len(q) \in 1 .. Len(q) /\ q[Len(q)] \in Scopes
  BY <1>1 DEF UsingBlocks
<1> QED
  BY <1>1, <1>2 DEF UsingBlocks, OwnOpen

\* Close takes the innermost scope off the stack of the flow that opened it.
LEMMA CloseBlocks ==
    ASSUME ScopeTypeOK, HistoryInv, NEW f \in Flows, NEW s \in Scopes, CloseCurrent(f, s),
           opener[s] = f, NEW q, UsingBlocks(f, q)
    PROVE  UsingBlocks(f, Front(q))'
<1> DEFINE r == Front(q)
<1>1. f \in started /\ active[f] = s /\ s # NoScope
  BY ScopeAssumption DEF CloseCurrent, MayClose
<1>2. q \in Seq(Scopes) /\ q # <<>> /\ s = q[Len(q)] /\ closes[s] = 0
  <2>1. q # <<>> /\ active[f] = q[Len(q)] /\ closes[active[f]] = 0
    BY <1>1, ActiveOnTop
  <2> QED
    BY <1>1, <2>1 DEF UsingBlocks
<1>3. /\ r \in Seq(Scopes) /\ Len(r) = Len(q) - 1 /\ Len(q) \in Nat \ {0}
      /\ \A i \in 1 .. Len(r) : r[i] = q[i]
      /\ r = <<>> <=> Len(q) = 1
  BY <1>2, FrontProperties
<1>4. /\ active'[f] = parent[s] /\ UNCHANGED <<parent, inherited, opener>>
      /\ \A x \in Scopes : closes'[x] = IF x = s THEN closes[s] + 1 ELSE closes[x]
  BY DEF CloseCurrent, ScopeTypeOK
<1>5. \A x \in Scopes : x \in OwnOpen(f)' <=> x # s /\ x \in OwnOpen(f)
  BY <1>2, <1>4 DEF OwnOpen
<1> HIDE DEF r
<1>6. active'[f] = IF r = <<>> THEN inherited'[f] ELSE r[Len(r)]
  BY <1>2, <1>3, <1>4 DEF UsingBlocks
<1>7. \A x \in Scopes : x \in OwnOpen(f)' <=> \E i \in 1 .. Len(r) : r[i] = x
  <2>1. ASSUME NEW x \in Scopes, x \in OwnOpen(f)'
        PROVE  \E i \in 1 .. Len(r) : r[i] = x
    <3>1. PICK i \in 1 .. Len(q) : q[i] = x
      BY <1>5, <2>1 DEF UsingBlocks
    <3>2. i # Len(q)
      BY <1>2, <1>5, <2>1, <3>1
    <3> QED
      BY <1>3, <3>1, <3>2
  <2>2. ASSUME NEW x \in Scopes, NEW i \in 1 .. Len(r), r[i] = x
        PROVE  x \in OwnOpen(f)'
    <3>1. i \in 1 .. Len(q) /\ i # Len(q) /\ Len(q) \in 1 .. Len(q) /\ q[i] = x
      BY <1>3, <2>2
    <3>2. x # s
      BY <1>2, <3>1 DEF UsingBlocks
    <3> QED
      BY <1>5, <3>1, <3>2 DEF UsingBlocks
  <2> QED
    BY <2>1, <2>2
<1>8. \A i, j \in 1 .. Len(r) : r[i] = r[j] => i = j
  BY <1>3 DEF UsingBlocks
<1>9. \A i \in 1 .. Len(r) : parent'[r[i]] = IF i = 1 THEN inherited'[f] ELSE r[i - 1]
  BY <1>3, <1>4 DEF UsingBlocks
<1> QED
  BY <1>3, <1>6, <1>7, <1>8, <1>9 DEF UsingBlocks, r

\* A step that leaves a flow's active scope, its open scopes and their parents
\* alone keeps its stack.
LEMMA BlocksKept ==
    ASSUME NEW f \in Flows, NEW q, UsingBlocks(f, q),
           active'[f] = active[f], inherited'[f] = inherited[f],
           \A s \in Scopes : s \in OwnOpen(f)' <=> s \in OwnOpen(f),
           \A s \in OwnOpen(f) : parent'[s] = parent[s]
    PROVE  UsingBlocks(f, q)'
<1>1. \A i \in 1 .. Len(q) : q[i] \in OwnOpen(f)
  BY DEF UsingBlocks
<1> QED
  BY <1>1 DEF UsingBlocks
-----------------------------------------------------------------------------
(***************************************************************************)
(* The scope manager.                                                      *)
(***************************************************************************)

\* At the start no scope is open.
LEMMA ScopeInitHolds == ScopeInit => ScopeInv
<1> SUFFICES ASSUME ScopeInit
             PROVE  ScopeInv
  OBVIOUS
<1> USE ScopeAssumption
<1>1. ScopeTypeOK
  BY DEF ScopeInit, ScopeTypeOK, Opened
<1>2. HistoryInv
  BY DEF ScopeInit, HistoryInv
<1>3. ASSUME NEW f \in started
      PROVE  UsingBlocks(f, <<>>)
  <2>1. OwnOpen(f) = {}
    BY <1>3 DEF ScopeInit, OwnOpen
  <2> QED
    BY <1>3, <2>1 DEF ScopeInit, UsingBlocks
<1> QED
  BY <1>1, <1>2, <1>3 DEF ScopeInv, NestedInv

\* Every step of the scope manager keeps its types.
LEMMA ScopeTypeStep ==
    ASSUME ScopeTypeOK, HistoryInv, [ScopeNext]_scopeVars
    PROVE  ScopeTypeOK' /\ HistoryInv'
<1> USE ScopeAssumption
<1>1. ASSUME NEW f \in Flows, NEW s \in Scopes, Activate(f, s)
      PROVE  ScopeTypeOK' /\ HistoryInv'
  <2>1. /\ active' \in [Flows -> Scopes \cup {NoScope}]
        /\ parent' \in [Scopes -> Scopes \cup {NoScope}]
        /\ opener' \in [Scopes -> Flows \cup {NoScope}]
    BY <1>1 DEF ScopeTypeOK, Activate
  <2>2. /\ Opened' = Opened \cup {s} /\ s \notin Opened
        /\ \A x \in Scopes : opener'[x] = IF x = s THEN f ELSE opener[x]
    BY <1>1 DEF ScopeTypeOK, Activate, Opened
  <2>3. /\ \A g \in Flows : active'[g] \in Opened' \cup {NoScope}
        /\ \A x \in Scopes : parent'[x] \in (Opened' \ {x}) \cup {NoScope}
    BY <1>1, <2>2 DEF ScopeTypeOK, Activate
  <2>4. ScopeTypeOK'
    BY <1>1, <2>1, <2>3 DEF ScopeTypeOK, Activate
  <2>5. HistoryInv'
    BY <1>1, <2>2 DEF HistoryInv, Activate, Opened
  <2> QED
    BY <2>4, <2>5
<1>2. ASSUME NEW f \in Flows, NEW s \in Scopes, CloseCurrent(f, s) \/ CloseOther(f, s)
      PROVE  ScopeTypeOK' /\ HistoryInv'
  <2>1. /\ closes[s] < MaxCloses /\ opener[s] # NoScope /\ nested' \in BOOLEAN
        /\ closes' = [closes EXCEPT ![s] = @ + 1] /\ finished' \in SUBSET Scopes
        /\ active' = active \/ active' = [active EXCEPT ![f] = parent[s]]
        /\ UNCHANGED <<parent, opener, started, inherited>>
    BY <1>2 DEF CloseCurrent, CloseOther, MayClose, FinishOnClose, Opened, ScopeTypeOK
  <2>2. Opened' = Opened
    BY <2>1 DEF Opened
  <2>3. closes' \in [Scopes -> 0 .. MaxCloses]
    BY <2>1 DEF ScopeTypeOK
  <2>4. /\ active' \in [Flows -> Scopes \cup {NoScope}]
        /\ \A g \in Flows : active'[g] \in Opened \cup {NoScope}
    BY <2>1 DEF ScopeTypeOK
  <2>5. ScopeTypeOK'
    BY <2>1, <2>2, <2>3, <2>4 DEF ScopeTypeOK
  <2>6. HistoryInv'
    BY <2>1, <2>2 DEF HistoryInv, ScopeTypeOK
  <2> QED
    BY <2>5, <2>6
<1>3. ASSUME NEW f \in Flows, NEW g \in Flows, Fork(f, g)
      PROVE  ScopeTypeOK' /\ HistoryInv'
  <2>1. Opened' = Opened
    BY <1>3 DEF Fork, Opened
  <2>2. ScopeTypeOK'
    BY <1>3, <2>1 DEF Fork, ScopeTypeOK
  <2>3. active[f] # NoScope => active[f] \in Opened /\ opener[active[f]] # g
    BY <1>3 DEF Fork, ScopeTypeOK, HistoryInv, Opened
  <2>4. HistoryInv'
    BY <1>3, <2>1, <2>3 DEF Fork, HistoryInv, ScopeTypeOK
  <2> QED
    BY <2>2, <2>4
<1>4. CASE UNCHANGED scopeVars
  <2>1. Opened' = Opened
    BY <1>4 DEF scopeVars, Opened
  <2> QED
    BY <1>4, <2>1 DEF scopeVars, ScopeTypeOK, HistoryInv
<1> QED
  BY <1>1, <1>2, <1>3, <1>4 DEF ScopeNext

\* Each flow keeps its stack: its own operations push and pop, those of other
\* flows do not touch it.
LEMMA NestedStep ==
    ASSUME ScopeTypeOK, HistoryInv, NestedInv, [ScopeNext]_scopeVars
    PROVE  NestedInv'
<1> USE ScopeAssumption
<1>1. ASSUME NEW f \in Flows, NEW s \in Scopes, Activate(f, s)
      PROVE  NestedInv'
  <2> SUFFICES ASSUME nested', NEW g \in started'
               PROVE  \E q : UsingBlocks(g, q)'
    BY DEF NestedInv
  <2>1. nested /\ g \in started /\ g \in Flows /\ opener[s] = NoScope
    BY <1>1 DEF Activate, ScopeTypeOK, Opened
  <2>2. PICK q : UsingBlocks(g, q)
    BY <2>1 DEF NestedInv
  <2>3. CASE g = f
    BY <1>1, <2>2, <2>3, ActivateBlocks
  <2>4. CASE g # f
    <3>1. active'[g] = active[g] /\ inherited'[g] = inherited[g]
      BY <1>1, <2>1, <2>4 DEF Activate, ScopeTypeOK
    <3>2. \A x \in Scopes : x \in OwnOpen(g)' <=> x \in OwnOpen(g)
      BY <1>1, <2>1, <2>4 DEF Activate, ScopeTypeOK, OwnOpen
    <3>3. \A x \in OwnOpen(g) : parent'[x] = parent[x]
      BY <1>1, <2>1 DEF Activate, ScopeTypeOK, OwnOpen
    <3> QED
      BY <2>1, <2>2, <3>1, <3>2, <3>3, BlocksKept
  <2> QED
    BY <2>3, <2>4
<1>2. ASSUME NEW f \in Flows, NEW s \in Scopes, CloseCurrent(f, s)
      PROVE  NestedInv'
  <2> SUFFICES ASSUME nested', NEW g \in started'
               PROVE  \E q : UsingBlocks(g, q)'
    BY DEF NestedInv
  <2>1. nested /\ opener[s] = f /\ g \in started /\ g \in Flows
    BY <1>2 DEF CloseCurrent, MayClose, ScopeTypeOK
  <2>2. PICK q : UsingBlocks(g, q)
    BY <2>1 DEF NestedInv
  <2>3. CASE g = f
    BY <1>2, <2>1, <2>2, <2>3, CloseBlocks
  <2>4. CASE g # f
    <3>1. active'[g] = active[g] /\ inherited'[g] = inherited[g] /\ parent' = parent
      BY <1>2, <2>1, <2>4 DEF CloseCurrent, ScopeTypeOK
    <3>2. \A x \in Scopes : x \in OwnOpen(g)' <=> x \in OwnOpen(g)
      BY <1>2, <2>1, <2>4 DEF CloseCurrent, ScopeTypeOK, OwnOpen
    <3> QED
      BY <2>1, <2>2, <3>1, <3>2, BlocksKept
  <2> QED
    BY <2>3, <2>4
<1>3. ASSUME NEW f \in Flows, NEW s \in Scopes, CloseOther(f, s)
      PROVE  NestedInv'
  <2> SUFFICES ASSUME nested', NEW g \in started'
               PROVE  \E q : UsingBlocks(g, q)'
    BY DEF NestedInv
  <2>1. nested /\ closes[s] > 0 /\ g \in started /\ g \in Flows /\ closes[s] \in Nat
    <3>1. nested /\ (active[f] = s \/ closes[s] > 0) /\ active[f] # s
      BY <1>3 DEF CloseOther, MayClose
    <3>2. g \in started /\ g \in Flows /\ closes[s] \in Nat
      BY <1>3 DEF CloseOther, ScopeTypeOK
    <3> QED
      BY <3>1, <3>2
  <2>2. PICK q : UsingBlocks(g, q)
    BY <2>1 DEF NestedInv
  <2>3. UNCHANGED <<active, inherited, parent, opener>>
    BY <1>3 DEF CloseOther
  <2>4. \A x \in Scopes : closes'[x] = 0 <=> closes[x] = 0
    BY <1>3, <2>1 DEF CloseOther, ScopeTypeOK
  <2>5. \A x \in Scopes : x \in OwnOpen(g)' <=> x \in OwnOpen(g)
    BY <2>3, <2>4 DEF OwnOpen
  <2> QED
    BY <2>1, <2>2, <2>3, <2>5, BlocksKept
<1>4. ASSUME NEW f \in Flows, NEW g \in Flows, Fork(f, g)
      PROVE  NestedInv'
  <2> SUFFICES ASSUME nested', NEW h \in started'
               PROVE  \E q : UsingBlocks(h, q)'
    BY DEF NestedInv
  <2>1. /\ nested /\ g \notin started /\ h \in Flows /\ (h = g \/ h \in started)
        /\ UNCHANGED <<parent, opener, closes>>
    BY <1>4 DEF Fork, ScopeTypeOK
  <2>2. CASE h = g
    <3>1. active'[g] = inherited'[g]
      BY <1>4 DEF Fork, ScopeTypeOK
    <3>2. OwnOpen(g)' = {}
      BY <2>1 DEF OwnOpen, HistoryInv
    <3>3. UsingBlocks(g, <<>>)'
      BY <3>1, <3>2 DEF UsingBlocks
    <3> QED
      BY <2>2, <3>3
  <2>3. CASE h # g
    <3>1. PICK q : UsingBlocks(h, q)
      BY <2>1, <2>3 DEF NestedInv
    <3>2. active'[h] = active[h] /\ inherited'[h] = inherited[h]
      BY <1>4, <2>1, <2>3 DEF Fork, ScopeTypeOK
    <3>3. \A x \in Scopes : x \in OwnOpen(h)' <=> x \in OwnOpen(h)
      BY <2>1 DEF OwnOpen
    <3> QED
      BY <2>1, <3>1, <3>2, <3>3, BlocksKept
  <2> QED
    BY <2>2, <2>3
<1>5. CASE UNCHANGED scopeVars
  <2> SUFFICES ASSUME nested', NEW g \in started'
               PROVE  \E q : UsingBlocks(g, q)'
    BY DEF NestedInv
  <2>1. PICK q : UsingBlocks(g, q)
    BY <1>5 DEF NestedInv, scopeVars
  <2> QED
    BY <1>5, <2>1 DEF UsingBlocks, OwnOpen, scopeVars
<1> QED
  BY <1>1, <1>2, <1>3, <1>4, <1>5 DEF ScopeNext

\* The stacks of using blocks give the two properties of the scope manager.
LEMMA Balanced == ScopeInv => BalancedFlow /\ NoResurrection
<1> SUFFICES ASSUME ScopeInv, nested, NEW f \in started
             PROVE  /\ OwnOpen(f) = {} => active[f] = inherited[f]
                    /\ active[f] # NoScope /\ opener[active[f]] = f => closes[active[f]] = 0
  BY DEF BalancedFlow, NoResurrection
<1>1. PICK q : UsingBlocks(f, q)
  BY DEF ScopeInv, NestedInv
<1>2. OwnOpen(f) = {} => active[f] = inherited[f]
  <2> SUFFICES ASSUME OwnOpen(f) = {}
               PROVE  q = <<>>
    BY <1>1 DEF UsingBlocks
  <2>1. \A i \in 1 .. Len(q) : FALSE
    BY <1>1 DEF UsingBlocks
  <2> QED
    BY <1>1, <2>1 DEF UsingBlocks
<1> QED
  BY <1>1, <1>2, ActiveOnTop DEF ScopeInv
-----------------------------------------------------------------------------
(***************************************************************************)
(* The subscriber to the scope events.                                     *)
(***************************************************************************)

LogContexts == Seq(Scopes \cup {NoScope})
Disposables == [restores : LogContexts, by : Flows, late : BOOLEAN]
Handlers == [pc : {"none", "removeLast", "removeAll", "test", "push", "catch", "clear"},
             scope : Scopes \cup {NoScope}]

SubscriberTypeOK ==
    /\ provider \in {"stack", "map"}
    /\ ctx \in [Flows -> LogContexts]
    /\ stack \in Seq(Disposables)
    /\ safe \in BOOLEAN
    /\ handler \in [Flows -> Handlers]

\* What a flow's handler in progress is about.
HandlersInv ==
    \A f \in Flows :
        /\ handler[f].pc = "none" => handler[f] = NoHandler
        /\ f \notin started => handler[f] = NoHandler
        /\ handler[f].pc = "clear" => ~safe
        /\ provider = "map" => handler[f].pc # "removeLast"
        /\ provider = "map" /\ handler[f].pc \in {"removeAll", "test", "push"} =>
              handler[f].scope = active[f]
        /\ provider = "stack" => handler[f].pc # "removeAll"

\* A flow pushes at most once after correlation was given up; what was pushed
\* before is gone when the first flow has cleared the stack.
LateInv ==
    /\ ~safe => \/ \E f \in Flows : handler[f].pc = "clear"
                \/ \A i \in 1 .. Len(stack) : stack[i].late
    /\ \A i \in 1 .. Len(stack) :
          stack[i].late => ~safe /\ handler[stack[i].by].pc # "push"
    /\ \A i, j \in 1 .. Len(stack) :
          i # j /\ stack[i].late /\ stack[j].late => stack[i].by # stack[j].by

\* The disposable at place i of the stack restores the first i - 1 contexts.
Prefix(p, q, n) == p \in Seq(Scopes) /\ Len(p) = n /\ \A j \in 1 .. n : p[j] = q[j]

Mirrors(st, q) ==
    /\ Len(st) = Len(q)
    /\ \A i \in 1 .. Len(q) : Prefix(st[i].restores, q, i - 1)

\* One flow of nested scopes closed once, with Serilog.
Orderly ==
    /\ provider = "stack" /\ safe /\ started = {FirstFlow} /\ nested
    /\ \A s \in Scopes : closes[s] <= 1

\* The enricher stack is the stack of the flow's using blocks once the handler
\* in progress is through, and the disposal stack mirrors it.
SerilogInv ==
    LET h == handler[FirstFlow]
        q == ctx[FirstFlow]
    IN  Orderly =>
            /\ h.pc = "none" => UsingBlocks(FirstFlow, q)
            /\ h.pc \in {"test", "push"} => h.scope \in Scopes /\ UsingBlocks(FirstFlow, Append(q, h.scope))
            /\ h.pc = "removeLast" => q # <<>> /\ UsingBlocks(FirstFlow, Front(q))
            /\ h.pc # "catch" => q \in Seq(Scopes) /\ Mirrors(stack, q)

LogInv ==
    ScopeInv /\ SubscriberTypeOK /\ HandlersInv /\ LateInv /\ MapLogMatchesActive /\ SerilogInv

\* What a flow disposes of.
LEMMA TopDisposed ==
    ASSUME SubscriberTypeOK, NEW f \in Flows, DisposeTop(f)
    PROVE  /\ stack' \in Seq(Disposables) /\ ctx' \in [Flows -> LogContexts]
           /\ Len(stack) \in Nat \ {0} /\ Len(stack') = Len(stack) - 1
           /\ \A i \in 1 .. Len(stack') : stack'[i] = stack[i]
           /\ \A g \in Flows : ctx'[g] = IF g = f THEN Last(stack).restores ELSE ctx[g]
<1>1. /\ stack \in Seq(Disposables) /\ stack # <<>> /\ stack' = Front(stack)
      /\ ctx' = [ctx EXCEPT ![f] = Last(stack).restores]
  BY DEF DisposeTop, SubscriberTypeOK
<1>2. /\ stack' \in Seq(Disposables) /\ Len(stack) \in Nat \ {0} /\ Len(stack') = Len(stack) - 1
      /\ \A i \in 1 .. Len(stack') : stack'[i] = stack[i]
  BY <1>1, FrontProperties
<1>3. Last(stack).restores \in LogContexts
  <2>1. Len(stack) \in 1 .. Len(stack)
    BY <1>2
  <2>2. Last(stack) \in Disposables
    BY <1>1, <2>1 DEF Last
  <2> QED
    BY <2>2 DEF Disposables
<1> QED
  BY <1>1, <1>2, <1>3 DEF SubscriberTypeOK

\* What a flow pushes.
LEMMA ContextsPushed ==
    ASSUME SubscriberTypeOK, NEW f \in Flows, PushContexts(f)
    PROVE  \E c \in LogContexts, n \in Nat :
              /\ c = IF provider = "stack" THEN ctx[f] ELSE <<>>
              /\ n = Len(stack)
              /\ stack' \in Seq(Disposables) /\ ctx' \in [Flows -> LogContexts]
              /\ stack' = Append(stack, [restores |-> c, by |-> f, late |-> ~safe])
              /\ Len(stack') = n + 1 /\ \A i \in 1 .. n : stack'[i] = stack[i]
              /\ stack'[n + 1] = [restores |-> c, by |-> f, late |-> ~safe]
              /\ \A g \in Flows : ctx'[g] = IF g = f THEN Append(c, handler[f].scope) ELSE ctx[g]
<1> DEFINE c == IF provider = "stack" THEN ctx[f] ELSE <<>>
           d == [restores |-> c, by |-> f, late |-> ~safe]
<1>1. c \in LogContexts /\ handler[f].scope \in Scopes \cup {NoScope}
  BY DEF SubscriberTypeOK, LogContexts, Handlers
<1>2. d \in Disposables
  BY <1>1 DEF SubscriberTypeOK, Disposables
<1>3. Append(c, handler[f].scope) \in LogContexts
  BY <1>1 DEF LogContexts
<1>4. ctx' = [ctx EXCEPT ![f] = Append(c, handler[f].scope)] /\ stack' = Append(stack, d)
  BY DEF PushContexts
<1> HIDE DEF c, d
<1>5. /\ stack' \in Seq(Disposables) /\ Len(stack) \in Nat /\ Len(stack') = Len(stack) + 1
      /\ \A i \in 1 .. Len(stack) : stack'[i] = stack[i]
      /\ stack'[Len(stack) + 1] = d
  BY <1>2, <1>4 DEF SubscriberTypeOK
<1>6. /\ ctx' \in [Flows -> LogContexts]
      /\ \A g \in Flows : ctx'[g] = IF g = f THEN Append(c, handler[f].scope) ELSE ctx[g]
  BY <1>3, <1>4 DEF SubscriberTypeOK
<1> QED
  BY <1>1, <1>4, <1>5, <1>6 DEF c, d

\* Where a flow's handler goes; the others stay where they are.
LEMMA HandlerMoves ==
    ASSUME SubscriberTypeOK, NEW f \in Flows
    PROVE  /\ HandlerReturns(f) =>
                 /\ handler' \in [Flows -> Handlers]
                 /\ \A g \in Flows : handler'[g] = IF g = f THEN NoHandler ELSE handler[g]
           /\ \A pc \in {"test", "push", "catch", "clear"} : MoveTo(f, pc) =>
                 /\ handler' \in [Flows -> Handlers]
                 /\ \A g \in Flows : g # f => handler'[g] = handler[g]
                 /\ handler'[f].pc = pc /\ handler'[f].scope = handler[f].scope
<1>1. NoHandler \in Handlers
  BY DEF NoHandler, Handlers
<1>2. handler[f] \in Handlers /\ handler \in [Flows -> Handlers]
  BY DEF SubscriberTypeOK
<1>3. ASSUME NEW pc \in {"test", "push", "catch", "clear"}
      PROVE  /\ [handler[f] EXCEPT !.pc = pc] \in Handlers
             /\ [handler[f] EXCEPT !.pc = pc].pc = pc
             /\ [handler[f] EXCEPT !.pc = pc].scope = handler[f].scope
  BY <1>2 DEF Handlers
<1>4. ASSUME HandlerReturns(f)
      PROVE  /\ handler' \in [Flows -> Handlers]
             /\ \A g \in Flows : handler'[g] = IF g = f THEN NoHandler ELSE handler[g]
  BY <1>1, <1>2, <1>4 DEF HandlerReturns
<1>5. ASSUME NEW pc \in {"test", "push", "catch", "clear"}, MoveTo(f, pc)
      PROVE  /\ handler' \in [Flows -> Handlers]
             /\ \A g \in Flows : g # f => handler'[g] = handler[g]
             /\ handler'[f].pc = pc /\ handler'[f].scope = handler[f].scope
  <2>1. handler' = [handler EXCEPT ![f] = [handler[f] EXCEPT !.pc = pc]]
    BY <1>5 DEF MoveTo
  <2> QED
    BY <1>2, <1>3, <2>1
<1> QED
  BY <1>4, <1>5
\* The disposal stack when a scope is opened.
LEMMA MirrorsAppend ==
    ASSUME NEW q \in Seq(Scopes), NEW s \in Scopes, NEW st \in Seq(Disposables), Mirrors(st, q),
           NEW d \in Disposables, d.restores = q
    PROVE  Mirrors(Append(st, d), Append(q, s))
<1> DEFINE r == Append(q, s)
           t == Append(st, d)
<1>1. PICK n \in Nat : n = Len(q)
  OBVIOUS
<1>2. /\ r \in Seq(Scopes) /\ Len(r) = n + 1 /\ \A i \in 1 .. n : r[i] = q[i]
  BY <1>1
<1>3. /\ Len(st) = n /\ Len(t) = n + 1 /\ t[n + 1] = d
      /\ \A i \in 1 .. n : t[i] = st[i]
  BY <1>1 DEF Mirrors
<1> HIDE DEF r, t
<1>4. ASSUME NEW i \in 1 .. n
      PROVE  Prefix(t[i].restores, r, i - 1)
  <2>1. Prefix(t[i].restores, q, i - 1)
    BY <1>1, <1>3 DEF Mirrors
  <2>2. \A j \in 1 .. i - 1 : r[j] = q[j]
    BY <1>2
  <2> QED
    BY <2>1, <2>2 DEF Prefix
<1>5. Prefix(t[n + 1].restores, r, n + 1 - 1)
  BY <1>1, <1>2, <1>3 DEF Prefix
<1> QED
  BY <1>2, <1>3, <1>4, <1>5 DEF Mirrors, r, t

\* The disposal stack when the innermost scope is closed.
LEMMA MirrorsFront ==
    ASSUME NEW q \in Seq(Scopes), q # <<>>, NEW st \in Seq(Disposables), Mirrors(st, q)
    PROVE  st # <<>> /\ Last(st).restores = Front(q) /\ Mirrors(Front(st), Front(q))
<1>1. PICK n \in Nat \ {0} : n = Len(q)
  BY FrontProperties
<1>2. Len(st) = n /\ st # <<>>
  BY <1>1 DEF Mirrors
<1>3. /\ Front(q) \in Seq(Scopes) /\ Len(Front(q)) = n - 1
      /\ \A i \in 1 .. n - 1 : Front(q)[i] = q[i]
  BY <1>1, FrontProperties
<1>4. Len(Front(st)) = n - 1 /\ \A i \in 1 .. n - 1 : Front(st)[i] = st[i]
  BY <1>2, FrontProperties
<1>5. PICK p : p = st[n].restores
  OBVIOUS
<1>6. Last(st).restores = Front(q)
  <2>1. Prefix(p, q, n - 1)
    BY <1>1, <1>5 DEF Mirrors
  <2>2. p = Front(q)
    BY <1>3, <2>1, SeqEqual DEF Prefix
  <2> QED
    BY <1>2, <1>5, <2>2 DEF Last
<1>7. ASSUME NEW i \in 1 .. n - 1
      PROVE  Prefix(Front(st)[i].restores, Front(q), i - 1)
  <2>1. Prefix(Front(st)[i].restores, q, i - 1)
    <3>1. i \in 1 .. Len(q) /\ Front(st)[i] = st[i]
      BY <1>1, <1>4
    <3> QED
      BY <3>1 DEF Mirrors
  <2>2. \A j \in 1 .. i - 1 : Front(q)[j] = q[j]
    BY <1>3
  <2> QED
    BY <2>1, <2>2 DEF Prefix
<1> QED
  BY <1>2, <1>3, <1>4, <1>6, <1>7 DEF Mirrors

-----------------------------------------------------------------------------
(***************************************************************************)
(* The steps of a handler.                                                 *)
(***************************************************************************)

\* The steps by their effect.
LEMMA HandlerSteps ==
    ASSUME SubscriberTypeOK, NEW f \in Flows, HandlerStep(f)
    PROVE  /\ UNCHANGED <<scopeVars, provider>>
           /\ \/ /\ handler[f].pc = "removeLast" /\ HandlerReturns(f) /\ UNCHANGED safe
                 /\ DisposeTop(f) \/ (stack = <<>> /\ UNCHANGED <<ctx, stack>>)
              \/ /\ handler[f].pc \in {"removeAll", "clear"} /\ DisposeTop(f)
                 /\ UNCHANGED <<safe, handler>>
              \/ /\ handler[f].pc = "removeAll" /\ MoveTo(f, "test")
                 /\ stack = <<>> /\ UNCHANGED <<ctx, stack, safe>>
              \/ /\ handler[f].pc = "clear" /\ HandlerReturns(f)
                 /\ stack = <<>> /\ UNCHANGED <<ctx, stack, safe>>
              \/ /\ handler[f].pc = "test" /\ safe /\ MoveTo(f, "push")
                 /\ UNCHANGED <<ctx, stack, safe>>
              \/ /\ handler[f].pc = "test" /\ ~safe /\ HandlerReturns(f)
                 /\ UNCHANGED <<ctx, stack, safe>>
              \/ /\ handler[f].pc = "push" /\ PushContexts(f) /\ HandlerReturns(f)
                 /\ UNCHANGED safe
              \/ /\ handler[f].pc = "push" /\ MoveTo(f, "catch") /\ UNCHANGED safe
                 /\ PushContexts(f) \/ UNCHANGED <<ctx, stack>>
              \/ /\ handler[f].pc = "catch" /\ MoveTo(f, "clear") /\ safe' = FALSE
                 /\ UNCHANGED <<ctx, stack>>
<1> QED
  BY DEF HandlerStep, Handling, RemoveLastCorrelationIdentifierContext, RemoveOne, RemovedAll,
         TestSafe, SetContexts, SetContextsThrows, GiveUp

\* Only the flow's own handler and contexts change.
LEMMA HandlerTyped ==
    ASSUME SubscriberTypeOK, NEW f \in Flows, HandlerStep(f)
    PROVE  /\ SubscriberTypeOK' /\ UNCHANGED <<scopeVars, provider>>
           /\ \A g \in Flows : g # f => handler'[g] = handler[g] /\ ctx'[g] = ctx[g]
<1>1. UNCHANGED <<scopeVars, provider>>
  BY HandlerSteps
<1>2. /\ stack' \in Seq(Disposables) /\ ctx' \in [Flows -> LogContexts]
      /\ \A g \in Flows : g # f => ctx'[g] = ctx[g]
  <2>1. CASE UNCHANGED <<ctx, stack>>
    BY <2>1 DEF SubscriberTypeOK
  <2>2. CASE DisposeTop(f)
    BY <2>2, TopDisposed
  <2>3. CASE PushContexts(f)
    BY <2>3, ContextsPushed
  <2> QED
    BY <2>1, <2>2, <2>3, HandlerSteps
<1>3. /\ handler' \in [Flows -> Handlers]
      /\ \A g \in Flows : g # f => handler'[g] = handler[g]
  <2>1. CASE UNCHANGED handler
    BY <2>1 DEF SubscriberTypeOK
  <2>2. CASE HandlerReturns(f)
    BY <2>2, HandlerMoves
  <2>3. ASSUME NEW pc \in {"test", "push", "catch", "clear"}, MoveTo(f, pc)
        PROVE  /\ handler' \in [Flows -> Handlers]
               /\ \A g \in Flows : g # f => handler'[g] = handler[g]
    BY <2>3, HandlerMoves
  <2> QED
    BY <2>1, <2>2, <2>3, HandlerSteps
<1>4. safe' \in BOOLEAN
  BY HandlerSteps DEF SubscriberTypeOK
<1> QED
  BY <1>1, <1>2, <1>3, <1>4 DEF SubscriberTypeOK

\* A handler stays about what its event said.
LEMMA HandlersStep ==
    ASSUME SubscriberTypeOK, HandlersInv, ScopeInv, NEW f \in Flows, HandlerStep(f)
    PROVE  HandlersInv'
<1>1. /\ UNCHANGED <<scopeVars, provider>> /\ (~safe => ~safe')
      /\ \A g \in Flows : g # f => handler'[g] = handler[g]
  BY HandlerTyped, HandlerSteps DEF SubscriberTypeOK
<1>2. NoHandler.pc = "none"
  BY DEF NoHandler
<1>3. handler[f].pc # "none" /\ f \in started
  BY <1>2, HandlerSteps DEF HandlersInv
<1>4. \/ handler'[f] = NoHandler
      \/ handler'[f] = handler[f]
      \/ /\ handler'[f].scope = handler[f].scope
         /\ \/ handler'[f].pc = "test" /\ handler[f].pc = "removeAll"
            \/ handler'[f].pc = "push" /\ handler[f].pc = "test"
            \/ handler'[f].pc = "catch"
            \/ handler'[f].pc = "clear" /\ ~safe'
  <2>1. CASE HandlerReturns(f)
    BY <2>1, HandlerMoves
  <2>2. CASE UNCHANGED handler
    BY <2>2
  <2>3. ASSUME NEW pc \in {"test", "push", "catch", "clear"}, MoveTo(f, pc)
        PROVE  handler'[f].pc = pc /\ handler'[f].scope = handler[f].scope
    BY <2>3, HandlerMoves
  <2> QED
    BY <2>1, <2>2, <2>3, HandlerSteps
<1> QED
  BY <1>1, <1>2, <1>3, <1>4 DEF HandlersInv, scopeVars

\* A step that leaves the flag and the stack alone, or takes from the stack.
LEMMA LateShrinks ==
    ASSUME SubscriberTypeOK, LateInv, UNCHANGED safe,
           stack' \in Seq(Disposables), Len(stack') <= Len(stack),
           \A i \in 1 .. Len(stack') : stack'[i] = stack[i],
           \A g \in Flows : handler'[g].pc = "push" => handler[g].pc = "push" \/ safe,
           ~safe => (\A g \in Flows : handler[g].pc = "clear" => handler'[g].pc = "clear")
                    \/ stack' = <<>>
    PROVE  LateInv'
<1>1. /\ Len(stack) \in Nat /\ Len(stack') \in Nat
      /\ \A i \in 1 .. Len(stack') : i \in 1 .. Len(stack)
      /\ \A i \in 1 .. Len(stack) : stack[i].by \in Flows
  <2>1. \A i \in 1 .. Len(stack) : stack[i] \in Disposables
    BY DEF SubscriberTypeOK
  <2>2. Len(stack) \in Nat /\ Len(stack') \in Nat
    BY DEF SubscriberTypeOK
  <2> QED
    BY <2>1, <2>2 DEF Disposables
<1>2. ~safe' => \/ \E g \in Flows : handler'[g].pc = "clear"
                \/ \A i \in 1 .. Len(stack') : stack'[i].late
  <2>1. CASE stack' = <<>>
    BY <2>1
  <2>2. CASE stack' # <<>>
    BY <1>1, <2>2 DEF LateInv
  <2> QED
    BY <2>1, <2>2
<1>3. \A i \in 1 .. Len(stack') :
          stack'[i].late => ~safe' /\ handler'[stack'[i].by].pc # "push"
  BY <1>1 DEF LateInv
<1>4. \A i, j \in 1 .. Len(stack') :
          i # j /\ stack'[i].late /\ stack'[j].late => stack'[i].by # stack'[j].by
  BY <1>1 DEF LateInv
<1> QED
  BY <1>2, <1>3, <1>4 DEF LateInv

\* A flow that pushes leaves the push behind.
LEMMA LateGrows ==
    ASSUME SubscriberTypeOK, LateInv, NEW f \in Flows, PushContexts(f), UNCHANGED safe,
           handler[f].pc = "push", handler'[f].pc \notin {"push", "clear"},
           \A g \in Flows : g # f => handler'[g] = handler[g]
    PROVE  LateInv'
<1>1. PICK c \in LogContexts, n \in Nat :
          /\ n = Len(stack) /\ Len(stack') = n + 1
          /\ \A i \in 1 .. n : stack'[i] = stack[i]
          /\ stack'[n + 1] = [restores |-> c, by |-> f, late |-> ~safe]
  BY ContextsPushed
<1>2. \A i \in 1 .. n : stack[i].by \in Flows
  <2>1. \A i \in 1 .. Len(stack) : stack[i] \in Disposables
    BY DEF SubscriberTypeOK
  <2> QED
    BY <1>1, <2>1 DEF Disposables
<1>3. PICK d : d = stack'[n + 1]
  OBVIOUS
<1>4. d.by = f /\ d.late = ~safe
  BY <1>1, <1>3
<1>5. \A i \in 1 .. n + 1 : i \in 1 .. n \/ i = n + 1
  OBVIOUS
<1>6. \A i \in 1 .. n : stack[i].late => stack[i].by # f
  BY <1>1 DEF LateInv
<1>7. ~safe' => \/ \E g \in Flows : handler'[g].pc = "clear"
                \/ \A i \in 1 .. n + 1 : stack'[i].late
  BY <1>1, <1>3, <1>4, <1>5 DEF LateInv
<1>8. ASSUME NEW i \in 1 .. n + 1, stack'[i].late
      PROVE  ~safe' /\ handler'[stack'[i].by].pc # "push"
  <2>1. CASE i = n + 1
    BY <1>3, <1>4, <1>8, <2>1
  <2>2. CASE i \in 1 .. n
    <3>1. stack[i].late /\ stack[i].by \in Flows \ {f}
      BY <1>1, <1>2, <1>6, <1>8, <2>2
    <3>2. ~safe /\ handler[stack[i].by].pc # "push"
      BY <1>1, <2>2, <3>1 DEF LateInv
    <3> QED
      BY <1>1, <2>2, <3>1, <3>2
  <2> QED
    BY <1>5, <2>1, <2>2
<1>9. \A i, j \in 1 .. n + 1 :
          i # j /\ stack'[i].late /\ stack'[j].late => stack'[i].by # stack'[j].by
  BY <1>1, <1>3, <1>4, <1>5, <1>6 DEF LateInv
<1> QED
  BY <1>1, <1>7, <1>8, <1>9 DEF LateInv
\* After correlation was given up a flow pushes once more at most.
LEMMA LateStep ==
    ASSUME SubscriberTypeOK, HandlersInv, LateInv, NEW f \in Flows, HandlerStep(f)
    PROVE  LateInv'
<1>1. \A g \in Flows : g # f => handler'[g] = handler[g]
  BY HandlerTyped
<1>2. NoHandler.pc = "none"
  BY DEF NoHandler
<1>3. stack \in Seq(Disposables) /\ Len(stack) \in Nat
  BY DEF SubscriberTypeOK
<1>4. CASE handler[f].pc = "removeLast" /\ HandlerReturns(f) /\ UNCHANGED safe
  <2>1. handler'[f].pc = "none"
    BY <1>2, <1>4, HandlerMoves
  <2>2. CASE DisposeTop(f)
    <3>1. /\ stack' \in Seq(Disposables) /\ Len(stack') <= Len(stack)
          /\ \A i \in 1 .. Len(stack') : stack'[i] = stack[i]
      BY <2>2, TopDisposed
    <3> QED
      BY <1>1, <1>4, <2>1, <3>1, LateShrinks
  <2>3. CASE UNCHANGED stack
    BY <1>1, <1>3, <1>4, <2>1, <2>3, LateShrinks
  <2> QED
    BY <1>4, <2>2, <2>3, HandlerSteps
<1>5. CASE handler[f].pc \in {"removeAll", "clear"} /\ DisposeTop(f) /\ UNCHANGED <<safe, handler>>
  <2>1. /\ stack' \in Seq(Disposables) /\ Len(stack') <= Len(stack)
        /\ \A i \in 1 .. Len(stack') : stack'[i] = stack[i]
    BY <1>5, TopDisposed
  <2> QED
    BY <1>5, <2>1, LateShrinks
<1>6. CASE /\ handler[f].pc = "removeAll" /\ MoveTo(f, "test") /\ stack = <<>>
           /\ UNCHANGED <<stack, safe>>
  BY <1>1, <1>3, <1>6, HandlerMoves, LateShrinks
<1>7. CASE /\ handler[f].pc = "clear" /\ HandlerReturns(f) /\ stack = <<>>
           /\ UNCHANGED <<stack, safe>>
  BY <1>1, <1>2, <1>3, <1>7, HandlerMoves, LateShrinks
<1>8. CASE handler[f].pc = "test" /\ safe /\ MoveTo(f, "push") /\ UNCHANGED <<stack, safe>>
  BY <1>1, <1>3, <1>8, HandlerMoves, LateShrinks
<1>9. CASE handler[f].pc = "test" /\ ~safe /\ HandlerReturns(f) /\ UNCHANGED <<stack, safe>>
  BY <1>1, <1>2, <1>3, <1>9, HandlerMoves, LateShrinks
<1>10. CASE /\ handler[f].pc = "push" /\ UNCHANGED safe
            /\ HandlerReturns(f) \/ MoveTo(f, "catch")
  <2>1. handler'[f].pc \notin {"push", "clear"}
    BY <1>2, <1>10, HandlerMoves
  <2>2. CASE PushContexts(f)
    BY <1>1, <1>10, <2>1, <2>2, LateGrows
  <2>3. CASE UNCHANGED stack
    BY <1>1, <1>3, <1>10, <2>1, <2>3, LateShrinks
  <2> QED
    BY <1>10, <2>2, <2>3, HandlerSteps
<1>11. CASE handler[f].pc = "catch" /\ MoveTo(f, "clear") /\ safe' = FALSE /\ UNCHANGED stack
  <2>1. handler'[f].pc = "clear"
    BY <1>11, HandlerMoves
  <2>2. \A i \in 1 .. Len(stack) : stack[i].by \in Flows
    <3>1. \A i \in 1 .. Len(stack) : stack[i] \in Disposables
      BY DEF SubscriberTypeOK
    <3> QED
      BY <3>1 DEF Disposables
  <2> QED
    BY <1>1, <1>11, <2>1, <2>2 DEF LateInv
<1> QED
  BY <1>4, <1>5, <1>6, <1>7, <1>8, <1>9, <1>10, <1>11, HandlerSteps

\* A flow with one context logs that one.
LEMMA LoggedOne == ASSUME NEW x PROVE Append(<<>>, x) # <<>> /\ Last(Append(<<>>, x)) = x
  BY DEF Last

\* With a map-based library the handler leaves the ids of the active scope.
LEMMA MapStep ==
    ASSUME SubscriberTypeOK, HandlersInv, ScopeInv, MapLogMatchesActive,
           NEW f \in Flows, HandlerStep(f)
    PROVE  MapLogMatchesActive'
<1> SUFFICES ASSUME provider = "map", safe', NEW g \in started, handler'[g] = NoHandler
             PROVE  Logged(g)' = active'[g]
  BY HandlerTyped DEF MapLogMatchesActive, LogMatchesActive, scopeVars
<1>1. /\ safe /\ UNCHANGED active /\ g \in Flows /\ NoHandler.pc = "none"
      /\ g # f => handler'[g] = handler[g] /\ ctx'[g] = ctx[g]
  BY HandlerTyped, HandlerSteps DEF SubscriberTypeOK, ScopeInv, ScopeTypeOK, scopeVars, NoHandler
<1>2. CASE g # f
  BY <1>1, <1>2 DEF MapLogMatchesActive, LogMatchesActive, Logged
<1>3. CASE g = f
  <2>1. handler[f].pc # "removeLast" /\ handler[f].pc # "clear"
    BY <1>1 DEF HandlersInv
  <2>2. handler'[f].pc = "none"
    BY <1>1, <1>3
  <2>3. handler[f].pc # "none"
    BY HandlerSteps
  <2>4. handler[f].pc = "push" /\ PushContexts(f)
    BY <1>1, <2>1, <2>2, <2>3, HandlerSteps, HandlerMoves
  <2>5. ctx'[f] = Append(<<>>, handler[f].scope)
    BY <2>4, ContextsPushed
  <2>6. handler[f].scope = active[f]
    BY <2>4 DEF HandlersInv
  <2> QED
    BY <1>1, <1>3, <2>5, <2>6, LoggedOne DEF Logged
<1> QED
  BY <1>2, <1>3

\* With Serilog and one flow, the handler brings enricher and disposal stack to
\* where the scopes are.
LEMMA SerilogStep ==
    ASSUME SubscriberTypeOK, HandlersInv, ScopeInv, SerilogInv,
           NEW f \in Flows, HandlerStep(f)
    PROVE  SerilogInv'
<1> SUFFICES ASSUME Orderly'
             PROVE  LET h == handler'[FirstFlow]
                        q == ctx'[FirstFlow]
                    IN  /\ h.pc = "none" => UsingBlocks(FirstFlow, q)
                        /\ h.pc \in {"test", "push"} =>
                              h.scope \in Scopes /\ UsingBlocks(FirstFlow, Append(q, h.scope))
                        /\ h.pc = "removeLast" => q # <<>> /\ UsingBlocks(FirstFlow, Front(q))
                        /\ h.pc # "catch" => q \in Seq(Scopes) /\ Mirrors(stack', q)
  <2>1. UNCHANGED scopeVars
    BY HandlerTyped
  <2>2. \A q : UsingBlocks(FirstFlow, q) => UsingBlocks(FirstFlow, q)'
    BY <2>1 DEF UsingBlocks, OwnOpen, scopeVars
  <2> QED
    BY <2>1, <2>2 DEF SerilogInv, UsingBlocks, OwnOpen, scopeVars, Mirrors
<1>1. PICK q : q = ctx[FirstFlow]
  OBVIOUS
<1>2. PICK h : h = handler[FirstFlow]
  OBVIOUS
<1>3. /\ Orderly /\ safe /\ provider = "stack"
  <2>1. UNCHANGED <<scopeVars, provider>>
    BY HandlerTyped
  <2>2. safe' => safe
    BY HandlerSteps
  <2> QED
    BY <2>1, <2>2 DEF Orderly, scopeVars
<1>4. f = FirstFlow /\ h.pc \notin {"none", "removeAll", "clear"}
  <2>1. NoHandler.pc = "none" /\ handler[f].pc # "none"
    BY HandlerSteps DEF NoHandler
  <2> QED
    BY <1>2, <1>3, <2>1 DEF HandlersInv, Orderly
<1>5. /\ h.pc \in {"test", "push"} => h.scope \in Scopes /\ UsingBlocks(FirstFlow, Append(q, h.scope))
      /\ h.pc = "removeLast" => q # <<>> /\ UsingBlocks(FirstFlow, Front(q))
      /\ h.pc # "catch" => q \in Seq(Scopes) /\ Mirrors(stack, q)
  BY <1>1, <1>2, <1>3 DEF SerilogInv
<1>6. NoHandler.pc = "none" /\ stack \in Seq(Disposables)
  BY DEF NoHandler, SubscriberTypeOK
<1>7. CASE h.pc = "removeLast"
  <2>1. handler'[f].pc = "none"
    BY <1>2, <1>4, <1>6, <1>7, HandlerSteps, HandlerMoves
  <2>2. /\ q \in Seq(Scopes) /\ stack # <<>> /\ Last(stack).restores = Front(q)
        /\ Mirrors(Front(stack), Front(q)) /\ Front(q) \in Seq(Scopes)
    BY <1>5, <1>6, <1>7, MirrorsFront, FrontProperties
  <2>3. DisposeTop(f)
    BY <1>2, <1>4, <1>7, <2>2, HandlerSteps
  <2>4. ctx'[FirstFlow] = Front(q) /\ stack' = Front(stack)
    BY <1>4, <2>2, <2>3, TopDisposed DEF DisposeTop
  <2> QED
    BY <1>4, <1>5, <1>7, <2>1, <2>2, <2>4
<1>8. CASE h.pc = "test"
  <2>1. MoveTo(f, "push") /\ UNCHANGED <<ctx, stack>>
    BY <1>2, <1>3, <1>4, <1>8, HandlerSteps
  <2>2. handler'[f].pc = "push" /\ handler'[f].scope = h.scope
    BY <1>2, <1>4, <2>1, HandlerMoves
  <2> QED
    BY <1>1, <1>4, <1>5, <1>8, <2>1, <2>2
<1>9. CASE h.pc = "push"
  <2>1. CASE MoveTo(f, "catch")
    <3>1. handler'[f].pc = "catch"
      BY <2>1, HandlerMoves
    <3> QED
      BY <1>4, <3>1
  <2>2. CASE PushContexts(f) /\ HandlerReturns(f)
    <3>1. handler'[f].pc = "none"
      BY <1>6, <2>2, HandlerMoves
    <3> DEFINE d == [restores |-> q, by |-> f, late |-> ~safe]
    <3>2. q \in LogContexts /\ safe \in BOOLEAN
      BY <1>1, ScopeAssumption DEF SubscriberTypeOK
    <3>3. ctx'[FirstFlow] = Append(q, h.scope) /\ stack' = Append(stack, d)
      BY <1>1, <1>2, <1>3, <1>4, <2>2, ContextsPushed
    <3>4. d \in Disposables /\ d.restores = q
      BY <3>2 DEF Disposables
    <3> HIDE DEF d
    <3>5. Mirrors(Append(stack, d), Append(q, h.scope)) /\ Append(q, h.scope) \in Seq(Scopes)
      BY <1>5, <1>6, <1>9, <3>4, MirrorsAppend
    <3> QED
      BY <1>4, <1>5, <1>9, <3>1, <3>3, <3>5
  <2> QED
    BY <1>2, <1>4, <1>9, <2>1, <2>2, HandlerSteps
<1>10. CASE h.pc = "catch"
  BY <1>2, <1>3, <1>4, <1>10, HandlerSteps DEF Orderly
<1> QED
  BY <1>2, <1>4, <1>7, <1>8, <1>9, <1>10, HandlerSteps
-----------------------------------------------------------------------------
(***************************************************************************)
(* The scope manager with the subscriber.                                  *)
(***************************************************************************)

\* Log correlation only follows: it adds no behaviour to the scope manager.
LEMMA FollowsScopes == [LogNext]_logVars => [ScopeNext]_scopeVars
<1> SUFFICES ASSUME [LogNext]_logVars
             PROVE  [ScopeNext]_scopeVars
  OBVIOUS
<1>1. ASSUME NEW f \in Flows, HandlerStep(f)
      PROVE  UNCHANGED scopeVars
  BY <1>1 DEF HandlerStep, Handling, RemoveLastCorrelationIdentifierContext, RemoveOne, RemovedAll,
         TestSafe, SetContexts, SetContextsThrows, GiveUp
<1>2. CASE LogNext
  BY <1>1, <1>2 DEF LogNext, ScopeNext, ActivateLogged, CloseCurrentLogged, CloseOtherLogged, ForkLogged
<1>3. CASE UNCHANGED logVars
  BY <1>3 DEF logVars, scopeVars
<1> QED
  BY <1>2, <1>3

\* The events only begin a handler.
LEMMA Begun ==
    ASSUME SubscriberTypeOK, NEW f \in Flows, NEW x \in Scopes \cup {NoScope},
           NEW pc \in {"removeLast", "removeAll", "test"}, Begin(f, pc, x)
    PROVE  /\ SubscriberTypeOK' /\ UNCHANGED <<provider, ctx, stack, safe>>
           /\ \A g \in Flows : g # f => handler'[g] = handler[g]
           /\ handler'[f].pc = pc /\ handler'[f].scope = x
<1> DEFINE r == [pc |-> pc, scope |-> x]
<1>1. r \in Handlers /\ r.pc = pc /\ r.scope = x
  BY DEF Handlers
<1>2. handler' = [handler EXCEPT ![f] = r] /\ UNCHANGED <<provider, ctx, stack, safe>>
  BY DEF Begin
<1> HIDE DEF r
<1> QED
  BY <1>1, <1>2 DEF SubscriberTypeOK

\* The stack is as it was, and no handler is added that pushes or clears.
LEMMA LateStays ==
    ASSUME SubscriberTypeOK, LateInv, UNCHANGED <<stack, safe>>, NEW f \in Flows,
           handler[f] = NoHandler, handler'[f].pc # "push",
           \A g \in Flows : g # f => handler'[g] = handler[g]
    PROVE  LateInv'
<1>1. \A g \in Flows : /\ handler'[g].pc = "push" => handler[g].pc = "push"
                       /\ handler[g].pc = "clear" => handler'[g].pc = "clear"
  BY DEF NoHandler
<1>2. stack' \in Seq(Disposables) /\ Len(stack') <= Len(stack)
  BY DEF SubscriberTypeOK
<1> QED
  BY <1>1, <1>2, LateShrinks

\* Activate begins a handler for the new scope.
LEMMA ActivateStep ==
    ASSUME LogInv, NEW f \in Flows, NEW s \in Scopes, ActivateLogged(f, s)
    PROVE  SubscriberTypeOK' /\ HandlersInv' /\ LateInv' /\ MapLogMatchesActive' /\ SerilogInv'
<1> USE ScopeAssumption
<1>1. /\ f \in started /\ UNCHANGED started /\ handler[f] = NoHandler
      /\ \A g \in Flows : active'[g] = IF g = f THEN s ELSE active[g]
  BY DEF ActivateLogged, Activate, LogInv, ScopeInv, ScopeTypeOK
<1>2. PICK pc \in {"removeAll", "test"} :
          Begin(f, pc, s) /\ pc = IF provider = "stack" THEN "test" ELSE "removeAll"
  BY DEF ActivateLogged, StackOnSpanOpened, MapOnSpanActivated
<1>3. /\ SubscriberTypeOK' /\ UNCHANGED <<provider, ctx, stack, safe>>
      /\ \A g \in Flows : g # f => handler'[g] = handler[g]
      /\ handler'[f].pc = pc /\ handler'[f].scope = s
  BY <1>2, Begun DEF LogInv
<1>4. HandlersInv'
  BY <1>1, <1>2, <1>3 DEF HandlersInv, LogInv, SubscriberTypeOK
<1>5. LateInv'
  BY <1>1, <1>3, LateStays DEF LogInv
<1>6. MapLogMatchesActive'
  <2> SUFFICES ASSUME provider = "map", safe, NEW g \in started, handler'[g] = NoHandler
               PROVE  Logged(g)' = active'[g]
    BY <1>1, <1>3 DEF MapLogMatchesActive, LogMatchesActive
  <2>1. g # f /\ g \in Flows
    BY <1>3 DEF NoHandler, LogInv, ScopeInv, ScopeTypeOK
  <2> QED
    BY <1>1, <1>3, <2>1 DEF LogInv, MapLogMatchesActive, LogMatchesActive, Logged
<1>7. SerilogInv'
  <2> SUFFICES ASSUME Orderly'
               PROVE  /\ handler'[FirstFlow].pc = "test" /\ handler'[FirstFlow].scope \in Scopes
                      /\ UsingBlocks(FirstFlow, Append(ctx[FirstFlow], handler[FirstFlow].scope))'
                      /\ ctx'[FirstFlow] \in Seq(Scopes) /\ Mirrors(stack, ctx[FirstFlow])'
    BY DEF SerilogInv
  <2>1. PICK q : q = ctx[FirstFlow]
    OBVIOUS
  <2>2. f = FirstFlow /\ Orderly /\ Activate(f, s) /\ handler[FirstFlow].pc = "none"
    BY <1>1, <1>3 DEF Orderly, ActivateLogged, Activate, NoHandler
  <2>3. UsingBlocks(f, q) /\ Mirrors(stack, q) /\ q \in Seq(Scopes)
    BY <2>1, <2>2 DEF LogInv, SerilogInv
  <2>4. UsingBlocks(f, Append(q, s))'
    BY <2>2, <2>3, ActivateBlocks DEF LogInv, ScopeInv
  <2>5. handler'[FirstFlow].pc = "test" /\ handler'[FirstFlow].scope = s /\ ctx'[FirstFlow] = q
    BY <1>2, <1>3, <2>1, <2>2 DEF Orderly
  <2>6. UsingBlocks(FirstFlow, Append(ctx[FirstFlow], handler[FirstFlow].scope))'
    BY <2>2, <2>4, <2>5 DEF UsingBlocks, OwnOpen
  <2>7. Mirrors(stack, ctx[FirstFlow])'
    BY <1>3, <2>3, <2>5 DEF Mirrors
  <2> QED
    BY <2>3, <2>5, <2>6, <2>7
<1> QED
  BY <1>3, <1>4, <1>5, <1>6, <1>7

\* Closing the active scope begins one for the scope before.
LEMMA CloseCurrentStep ==
    ASSUME LogInv, NEW f \in Flows, NEW s \in Scopes, CloseCurrentLogged(f, s)
    PROVE  SubscriberTypeOK' /\ HandlersInv' /\ LateInv' /\ MapLogMatchesActive' /\ SerilogInv'
<1> USE ScopeAssumption
<1>1. /\ f \in started /\ UNCHANGED started /\ active[f] = s /\ handler[f] = NoHandler
      /\ parent[s] \in Scopes \cup {NoScope}
      /\ \A g \in Flows : active'[g] = IF g = f THEN parent[s] ELSE active[g]
  BY DEF CloseCurrentLogged, CloseCurrent, MayClose, LogInv, ScopeInv, ScopeTypeOK
<1>2. PICK pc \in {"removeAll", "removeLast"}, x \in Scopes \cup {NoScope} :
          /\ Begin(f, pc, x) /\ pc = IF provider = "stack" THEN "removeLast" ELSE "removeAll"
          /\ provider = "map" => x = parent[s]
  BY <1>1 DEF CloseCurrentLogged, StackOnSpanClosed, MapOnSpanActivated
<1>3. /\ SubscriberTypeOK' /\ UNCHANGED <<provider, ctx, stack, safe>>
      /\ \A g \in Flows : g # f => handler'[g] = handler[g]
      /\ handler'[f].pc = pc /\ handler'[f].scope = x
  BY <1>2, Begun DEF LogInv
<1>4. HandlersInv'
  BY <1>1, <1>2, <1>3 DEF HandlersInv, LogInv, SubscriberTypeOK
<1>5. LateInv'
  BY <1>1, <1>3, LateStays DEF LogInv
<1>6. MapLogMatchesActive'
  <2> SUFFICES ASSUME provider = "map", safe, NEW g \in started, handler'[g] = NoHandler
               PROVE  Logged(g)' = active'[g]
    BY <1>1, <1>3 DEF MapLogMatchesActive, LogMatchesActive
  <2>1. g # f /\ g \in Flows
    BY <1>3 DEF NoHandler, LogInv, ScopeInv, ScopeTypeOK
  <2> QED
    BY <1>1, <1>3, <2>1 DEF LogInv, MapLogMatchesActive, LogMatchesActive, Logged
<1>7. SerilogInv'
  <2> SUFFICES ASSUME Orderly'
               PROVE  /\ handler'[FirstFlow].pc = "removeLast" /\ ctx'[FirstFlow] # <<>>
                      /\ UsingBlocks(FirstFlow, Front(ctx[FirstFlow]))'
                      /\ ctx'[FirstFlow] \in Seq(Scopes) /\ Mirrors(stack, ctx[FirstFlow])'
    BY DEF SerilogInv
  <2>1. PICK q : q = ctx[FirstFlow]
    OBVIOUS
  <2>2. /\ CloseCurrent(f, s) /\ f = FirstFlow /\ nested /\ opener[s] = f
        /\ handler[FirstFlow].pc = "none" /\ s # NoScope
    <3>1. CloseCurrent(f, s) /\ f = FirstFlow /\ nested /\ opener[s] = f
      BY <1>1 DEF Orderly, CloseCurrentLogged, CloseCurrent, MayClose
    <3>2. handler[f].pc = "none" /\ s # NoScope
      BY <1>1 DEF NoHandler
    <3> QED
      BY <3>1, <3>2
  <2>3. \A y \in Scopes : closes[y] <= 1
    <3>1. \A y \in Scopes : closes[y] \in Nat /\ closes'[y] \in {closes[y], closes[y] + 1}
                            /\ closes'[y] <= 1
      BY <2>2 DEF CloseCurrent, LogInv, ScopeInv, ScopeTypeOK, Orderly
    <3> QED
      BY <3>1
  <2>4. UsingBlocks(f, q) /\ Mirrors(stack, q) /\ q \in Seq(Scopes)
    BY <1>1, <1>3, <2>1, <2>2, <2>3 DEF LogInv, SerilogInv, Orderly
  <2>5. q # <<>>
    BY <1>1, <2>2, <2>4, ActiveOnTop DEF LogInv, ScopeInv
  <2>6. UsingBlocks(f, Front(q))'
    BY <2>2, <2>4, CloseBlocks DEF LogInv, ScopeInv
  <2> QED
    BY <1>2, <1>3, <2>1, <2>2, <2>4, <2>5, <2>6 DEF Orderly, UsingBlocks, OwnOpen
<1> QED
  BY <1>3, <1>4, <1>5, <1>6, <1>7

\* So does closing a scope that is not the active one, with Serilog.
LEMMA CloseOtherStep ==
    ASSUME LogInv, NEW f \in Flows, NEW s \in Scopes, CloseOtherLogged(f, s)
    PROVE  SubscriberTypeOK' /\ HandlersInv' /\ LateInv' /\ MapLogMatchesActive' /\ SerilogInv'
<1>1. /\ UNCHANGED <<started, active>> /\ active[f] # s /\ handler[f] = NoHandler
      /\ f \in started
  BY DEF CloseOtherLogged, CloseOther, MayClose
<1>2. /\ SubscriberTypeOK' /\ UNCHANGED <<provider, ctx, stack, safe>>
      /\ \A g \in Flows : g # f => handler'[g] = handler[g]
      /\ \/ handler'[f] = NoHandler
         \/ provider = "stack" /\ handler'[f].pc = "removeLast"
  <2>1. CASE StackOnSpanClosed(f)
    BY <2>1, Begun DEF LogInv, StackOnSpanClosed
  <2>2. CASE provider = "map" /\ UNCHANGED <<provider, ctx, stack, safe, handler>>
    BY <1>1, <2>2 DEF LogInv, SubscriberTypeOK
  <2> QED
    BY <2>1, <2>2 DEF CloseOtherLogged
<1>3. HandlersInv'
  BY <1>1, <1>2 DEF HandlersInv, LogInv, SubscriberTypeOK
<1>4. LateInv'
  BY <1>1, <1>2, LateStays DEF LogInv, NoHandler
<1>5. MapLogMatchesActive'
  <2> SUFFICES ASSUME provider = "map", safe, NEW g \in started, handler'[g] = NoHandler
               PROVE  Logged(g)' = active'[g]
    BY <1>1, <1>2 DEF MapLogMatchesActive, LogMatchesActive
  <2>1. handler[g] = NoHandler
    BY <1>1, <1>2 DEF LogInv, ScopeInv, ScopeTypeOK
  <2> QED
    BY <1>1, <1>2, <2>1 DEF LogInv, MapLogMatchesActive, LogMatchesActive, Logged
<1>6. ~Orderly'
  <2> SUFFICES ASSUME nested'
               PROVE  closes'[s] > 1
    BY DEF Orderly, LogInv, ScopeInv, ScopeTypeOK, CloseOtherLogged, CloseOther
  <2>1. closes[s] > 0
    BY <1>1 DEF CloseOtherLogged, CloseOther, MayClose
  <2> QED
    BY <2>1 DEF CloseOtherLogged, CloseOther, LogInv, ScopeInv, ScopeTypeOK
<1> QED
  BY <1>2, <1>3, <1>4, <1>5, <1>6 DEF SerilogInv

\* A flow that starts inherits the active scope and what is logged.
LEMMA ForkStep ==
    ASSUME LogInv, NEW f \in Flows, NEW g \in Flows, ForkLogged(f, g)
    PROVE  SubscriberTypeOK' /\ HandlersInv' /\ LateInv' /\ MapLogMatchesActive' /\ SerilogInv'
<1>1. SubscriberTypeOK'
  BY DEF ForkLogged, LogInv, SubscriberTypeOK
<1>2. /\ started' = started \cup {g} /\ g \notin started /\ f \in started
      /\ \A h \in Flows : /\ active'[h] = active[IF h = g THEN f ELSE h]
                          /\ ctx'[h] = ctx[IF h = g THEN f ELSE h]
      /\ UNCHANGED <<provider, safe, stack, handler>>
      /\ handler[f] = NoHandler /\ handler[g] = NoHandler
  BY DEF ForkLogged, Fork, LogInv, ScopeInv, ScopeTypeOK, SubscriberTypeOK, HandlersInv
<1>3. HandlersInv'
  BY <1>2 DEF LogInv, HandlersInv, NoHandler
<1>4. LateInv'
  BY <1>2 DEF LogInv, LateInv
<1>5. MapLogMatchesActive'
  BY <1>2 DEF LogInv, ScopeInv, ScopeTypeOK, MapLogMatchesActive, LogMatchesActive, Logged
<1>6. ~Orderly'
  BY <1>2 DEF Orderly, LogInv, ScopeInv, HistoryInv
<1> QED
  BY <1>1, <1>3, <1>4, <1>5, <1>6 DEF SerilogInv
-----------------------------------------------------------------------------
(***************************************************************************)
(* The theorems.                                                           *)
(***************************************************************************)

\* At the start nothing is logged and both logs are empty.
LEMMA LogInitHolds == LogInit => LogInv
<1> SUFFICES ASSUME LogInit
             PROVE  LogInv
  OBVIOUS
<1> USE ScopeAssumption
<1>1. ScopeInv
  BY ScopeInitHolds DEF LogInit
<1>2. NoHandler \in Handlers /\ NoHandler.pc = "none"
  BY DEF NoHandler, Handlers
<1>3. SubscriberTypeOK
  BY <1>2, LogAssumption DEF LogInit, SubscriberTypeOK, LogContexts
<1>4. HandlersInv /\ LateInv
  BY <1>2 DEF LogInit, HandlersInv, LateInv
<1>5. ctx[FirstFlow] = <<>> /\ started = {FirstFlow} /\ active[FirstFlow] = NoScope
  BY DEF LogInit, ScopeInit
<1>6. MapLogMatchesActive
  BY <1>5 DEF MapLogMatchesActive, LogMatchesActive, Logged
<1>7. UsingBlocks(FirstFlow, <<>>) /\ stack = <<>>
  <2>1. OwnOpen(FirstFlow) = {}
    BY DEF LogInit, ScopeInit, OwnOpen
  <2> QED
    BY <2>1 DEF LogInit, ScopeInit, UsingBlocks
<1>8. SerilogInv
  <2>1. handler[FirstFlow].pc = "none" /\ <<>> \in Seq(Scopes)
    BY <1>2 DEF LogInit
  <2> QED
    BY <1>5, <1>7, <2>1 DEF SerilogInv, Mirrors
<1> QED
  BY <1>1, <1>3, <1>4, <1>6, <1>8 DEF LogInv

\* The invariant of the scope manager and the subscriber is inductive.
LEMMA LogInductive == LogInv /\ [LogNext]_logVars => LogInv'
<1> SUFFICES ASSUME LogInv, [LogNext]_logVars
             PROVE  LogInv'
  OBVIOUS
<1>1. ScopeInv'
  BY FollowsScopes, ScopeTypeStep, NestedStep DEF LogInv, ScopeInv
<1>2. SubscriberTypeOK' /\ HandlersInv' /\ LateInv' /\ MapLogMatchesActive' /\ SerilogInv'
  <2>1. CASE UNCHANGED logVars
    <3>1. /\ UNCHANGED <<active, parent, opener, closes, finished, started, inherited, nested>>
          /\ UNCHANGED <<ctx, stack, safe, provider, handler>>
      BY <2>1 DEF logVars, scopeVars
    <3>2. SubscriberTypeOK' /\ HandlersInv' /\ LateInv'
      BY <3>1 DEF LogInv, SubscriberTypeOK, HandlersInv, LateInv
    <3>3. MapLogMatchesActive'
      BY <3>1 DEF LogInv, MapLogMatchesActive, LogMatchesActive, Logged, NoHandler
    <3>4. \A f, q : UsingBlocks(f, q)' <=> UsingBlocks(f, q)
      BY <3>1 DEF UsingBlocks, OwnOpen
    <3>5. Orderly' <=> Orderly
      BY <3>1 DEF Orderly
    <3>6. SerilogInv'
      BY <3>1, <3>4, <3>5 DEF LogInv, SerilogInv
    <3> QED
      BY <3>2, <3>3, <3>6
  <2>2. ASSUME NEW f \in Flows, HandlerStep(f)
        PROVE  SubscriberTypeOK' /\ HandlersInv' /\ LateInv' /\ MapLogMatchesActive' /\ SerilogInv'
    BY <2>2, HandlerTyped, HandlersStep, LateStep, MapStep, SerilogStep DEF LogInv
  <2> QED
    BY <2>1, <2>2, ActivateStep, CloseCurrentStep, CloseOtherStep, ForkStep DEF LogNext
<1> QED
  BY <1>1, <1>2 DEF LogInv

\* The correlation contexts and the scopes, for any number of flows.
THEOREM LogInvariant == LogSpec => []LogInv
  BY LogInitHolds, LogInductive, PTL DEF LogSpec

\* Log correlation does not change what the scope manager does: every step of
\* the two together is a step of the scope manager or leaves its state alone.
THEOREM ImplementsScopeManager == LogSpec => ScopeSpec
<1>1. LogInit => ScopeInit
  BY DEF LogInit
<1> QED
  BY <1>1, FollowsScopes, PTL DEF LogSpec, ScopeSpec

\* Scopes used as nested using blocks (Close on the active scope, repeats
\* allowed) restore in every flow what it started with and never bring a closed
\* scope back, whatever the other flows and the subscriber's handlers do.
THEOREM FlowsStayBalanced == LogSpec => []FlowsBalanced
<1>1. ASSUME LogInv
      PROVE  LogTypeOK
  <2>1. LogContexts = Seq(Scopes \cup {NoScope})
    BY DEF LogContexts
  <2> QED
    BY <1>1, <2>1 DEF LogInv, ScopeInv, SubscriberTypeOK, LogTypeOK, Disposables, Handlers
<1>2. LogInv => FlowsBalanced
  BY <1>1, Balanced DEF LogInv, FlowsBalanced
<1> QED
  BY <1>2, LogInvariant, PTL

\* Once correlation was given up and the stack cleared, all that is left on it
\* comes from handlers that had read the flag before, one push of each flow.
THEOREM OnlyLatePushesLeft == LogSpec => []OnlyLateContextsLeft
<1>1. ASSUME LogInv, ~safe, \A f \in Flows : handler[f].pc # "clear",
             NEW i \in DOMAIN stack, NEW j \in DOMAIN stack
      PROVE  stack[i].late /\ (i # j => stack[i].by # stack[j].by)
  <2>1. DOMAIN stack = 1 .. Len(stack)
    BY <1>1 DEF LogInv, SubscriberTypeOK
  <2> QED
    BY <1>1, <2>1 DEF LogInv, LateInv
<1>2. LogInv => OnlyLateContextsLeft
  BY <1>1 DEF OnlyLateContextsLeft
<1> QED
  BY <1>2, LogInvariant, PTL

\* With a map-based library a log line carries the active span, in any flow.
THEOREM MapLogsFollow == LogSpec => []MapLogMatchesActive
  BY LogInvariant, PTL DEF LogInv

\* With Serilog it does in a single flow of nested scopes.
THEOREM SerilogLogsFollow == LogSpec => []SerilogNestedMatchesActive
<1>1. LogInv => SerilogNestedMatchesActive
  <2> SUFFICES ASSUME LogInv, Orderly, handler[FirstFlow] = NoHandler
               PROVE  Logged(FirstFlow) = active[FirstFlow]
    BY DEF SerilogNestedMatchesActive, LogMatchesActive, Orderly
  <2>1. UsingBlocks(FirstFlow, ctx[FirstFlow]) /\ inherited[FirstFlow] = NoScope
    BY DEF LogInv, SerilogInv, NoHandler, ScopeInv, HistoryInv
  <2> QED
    BY <2>1 DEF UsingBlocks, Logged, Last
<1> QED
  BY <1>1, LogInvariant, PTL

-----------------------------------------------------------------------------
(***************************************************************************)
(*                           InstrumentedCalls                             *)
(***************************************************************************)

-----------------------------------------------------------------------------
(***************************************************************************)
(* The invariant.                                                          *)
(***************************************************************************)

Block == [op : Operations \cup {NoScope}, scope : Scopes \cup {NoScope}]
Contexts == [trace : Scopes \cup WebRequests, span : Scopes \cup WebRequests]
Untold == Untraced \cup Excluded

BlocksOf(b, o) == {i \in 1 .. Len(b) : b[i].op = o}

\* The innermost of the first n blocks that has a scope has s.
Under(b, outside, n, s) ==
    \/ \E i \in 1 .. n :
          /\ b[i].scope = s /\ s # NoScope
          /\ \A j \in i + 1 .. n : b[j].scope = NoScope
    \/ s = outside /\ \A j \in 1 .. n : b[j].scope = NoScope

\* The blocks of a flow: using blocks of the application, each with its scope,
\* and in the innermost of them the wrappers of one operation, of which the
\* outermost has the operation's scope, if it is traced.
Shape(b) ==
    /\ b \in Seq(Block)
    /\ \A i, j \in 1 .. Len(b) : i < j =>
          /\ b[i].op = NoScope \/ b[j].op = b[i].op
          /\ b[j].op # NoScope /\ b[j].scope # NoScope => b[i].op = NoScope
    /\ \A i \in 1 .. Len(b) :
          /\ b[i].op = NoScope => b[i].scope # NoScope
          /\ b[i].op \in Untold => b[i].scope = NoScope
          /\ b[i].op \in Operations \ Untold =>
                \E j \in 1 .. i : b[j].op = b[i].op /\ b[j].scope # NoScope

\* The scope of a block is of the block's operation, and below it is that of
\* the next block out.
BlockInv(f, i) ==
    LET s == frames[f][i].scope IN
    s # NoScope =>
        /\ s \in Opened /\ spanOf[s] = frames[f][i].op
        /\ frames[f][i].op # NoScope => kind[s] = "client"
        /\ Under(frames[f], inherited[f], i - 1, parent[s])

\* A flow starts in a scope of the application and not in an operation's.
FlowInv(f) ==
    /\ Shape(frames[f])
    /\ \A i \in 1 .. Len(frames[f]) : BlockInv(f, i)
    /\ Under(frames[f], inherited[f], Len(frames[f]), active[f])
    /\ inherited[f] # NoScope => inherited[f] \in Opened /\ spanOf[inherited[f]] = NoScope
    /\ f \notin started => frames[f] = <<>>
    /\ \A o \in Operations : Cardinality(BlocksOf(frames[f], o)) <= MaxDepth

\* The state but for the frames.
CallTypes ==
    /\ ScopeTypeOK
    /\ kind \in [Scopes -> {"none", "client"}]
    /\ context \in [Scopes -> Contexts \cup {NoScope}]
    /\ \A s \in Opened : context[s] \in Contexts
    /\ header \in [Requests -> Contexts \cup {NoScope}]
    /\ wire \in [Requests -> SUBSET Contexts]
    /\ spanOf \in [Scopes -> Operations \cup {NoScope}]
    /\ \A s \in Scopes : spanOf[s] # NoScope => s \in Opened
    /\ errors \cup late \cup creating \subseteq Opened
    /\ throwing \subseteq started
    /\ outcome \in [Operations -> {"new", "running", "returned", "threw"}]
    /\ frames \in [Flows -> Seq(Block)]

\* An operation runs in one flow.
RunsInv ==
    \A f, g \in Flows : \A i \in 1 .. Len(frames[f]), j \in 1 .. Len(frames[g]) :
        frames[f][i].op # NoScope =>
            /\ outcome[frames[f][i].op] = "running"
            /\ frames[f][i].op = frames[g][j].op => f = g

\* It has one span at most, and none before it is entered.
SpanInv ==
    /\ \A s, x \in Scopes : spanOf[s] # NoScope /\ spanOf[s] = spanOf[x] => s = x
    /\ \A o \in Operations : outcome[o] = "new" \/ o \in Untold => SpansOf(o) = {}
    /\ \A o \in Operations \ Untold : Ended(o) =>
          SpansOf(o) # {} /\ SpansOf(o) \subseteq finished

\* The error is on the span of an operation that threw.
ErrorInv ==
    /\ \A s \in errors : spanOf[s] # NoScope => outcome[spanOf[s]] = "threw"
    /\ \A o \in Operations : outcome[o] = "threw" => SpansOf(o) \subseteq errors

\* What was sent has the id of the context in the headers, and that is the id
\* of the request's span, also while that is being made and not injected yet.
WireInv ==
    \A r \in Requests :
        /\ \A c \in wire[r] : header[r] # NoScope /\ c.span = header[r].span
        /\ \A s \in SpansOf(r) :
              /\ header[r] # NoScope => context[s].span = header[r].span
              /\ s \notin creating => header[r] # NoScope
        /\ r \in Untraced => header[r] = NoScope
        /\ r \in Messages /\ outcome[r] = "new" => header[r] = NoScope

\* A span that is being made is that of a running request and its parent is one
\* of the application.
CreatingInv ==
    \A s \in creating :
        /\ spanOf[s] \in Requests \ Untold /\ outcome[spanOf[s]] = "running"
        /\ parent[s] # NoScope => parent[s] \in Opened /\ spanOf[parent[s]] = NoScope

CallsInv ==
    /\ CallTypes /\ \A f \in Flows : FlowInv(f)
    /\ RunsInv /\ SpanInv /\ ErrorInv /\ WireInv /\ CreatingInv /\ OneClientOnThePath

-----------------------------------------------------------------------------
(***************************************************************************)
(* Sequences of blocks.                                                    *)
(***************************************************************************)

\* A block on top of others leaves those as they are.
LEMMA Pushed ==
    ASSUME NEW b \in Seq(Block), NEW x \in Block
    PROVE  /\ Append(b, x) \in Seq(Block) /\ Len(b) \in Nat /\ Len(Append(b, x)) = Len(b) + 1
           /\ Append(b, x)[Len(b) + 1] = x /\ \A i \in 1 .. Len(b) : Append(b, x)[i] = b[i]
  OBVIOUS

\* So does taking the innermost one away.
LEMMA Popped ==
    ASSUME NEW b \in Seq(Block), b # <<>>
    PROVE  /\ Front(b) \in Seq(Block) /\ Len(b) \in Nat \ {0} /\ Len(Front(b)) = Len(b) - 1
           /\ \A i \in 1 .. Len(b) - 1 : Front(b)[i] = b[i]
<1>1. Len(b) \in Nat \ {0}
  OBVIOUS
<1> DEFINE m == 1
           n == Len(b) - 1
<1>2. m \in 1 .. Len(b) + 1 /\ n \in m - 1 .. Len(b)
  BY <1>1
<1> DEFINE c == SubSeq(b, m, n)
<1>3. c \in Seq(Block) /\ Len(c) = n - m + 1 /\ \A i \in 1 .. n - m + 1 : c[i] = b[m + i - 1]
  <2> HIDE DEF m, n
  <2> QED
    BY <1>2, SubSeqProperties
<1>4. Front(b) = c
  BY DEF Front
<1>5. Len(c) = Len(b) - 1 /\ \A i \in 1 .. Len(b) - 1 : c[i] = b[i]
  <2> HIDE DEF c
  <2> QED
    BY <1>1, <1>3
<1> HIDE DEF c
<1> QED
  BY <1>1, <1>3, <1>4, <1>5

\* What is below a block does not depend on those above it.
LEMMA UnderSame ==
    ASSUME NEW b, NEW c, NEW n \in Nat, \A i \in 1 .. n : c[i] = b[i], NEW outside, NEW s,
           Under(b, outside, n, s)
    PROVE  Under(c, outside, n, s)
<1>1. CASE \E i \in 1 .. n : b[i].scope = s /\ s # NoScope /\ \A j \in i + 1 .. n : b[j].scope = NoScope
  <2>1. PICK i \in 1 .. n : b[i].scope = s /\ s # NoScope /\ \A j \in i + 1 .. n : b[j].scope = NoScope
    BY <1>1
  <2>2. c[i].scope = s
    BY <2>1
  <2>3. ASSUME NEW j \in i + 1 .. n
        PROVE  c[j].scope = NoScope
    <3>1. j \in 1 .. n
      OBVIOUS
    <3> QED
      BY <2>1, <3>1
  <2> QED
    BY <2>1, <2>2, <2>3 DEF Under
<1>2. CASE s = outside /\ \A j \in 1 .. n : b[j].scope = NoScope
  BY <1>2 DEF Under
<1> QED
  BY <1>1, <1>2 DEF Under

\* The innermost block, if it has a scope, and else what is below it.
LEMMA UnderTop ==
    ASSUME NEW b, NEW n \in Nat, NEW outside
    PROVE  /\ b[n + 1].scope # NoScope => Under(b, outside, n + 1, b[n + 1].scope)
           /\ \A s : Under(b, outside, n + 1, s) /\ b[n + 1].scope # NoScope => s = b[n + 1].scope
           /\ \A s : b[n + 1].scope = NoScope =>
                 (Under(b, outside, n + 1, s) <=> Under(b, outside, n, s))
<1>1. n + 1 \in 1 .. n + 1 /\ n + 1 + 1 .. n + 1 = {} /\ 1 .. n + 1 = 1 .. n \cup {n + 1}
  OBVIOUS
<1>2. b[n + 1].scope # NoScope => Under(b, outside, n + 1, b[n + 1].scope)
  BY <1>1 DEF Under
<1>3. ASSUME NEW s, Under(b, outside, n + 1, s), b[n + 1].scope # NoScope
      PROVE  s = b[n + 1].scope
  <2>1. PICK i \in 1 .. n + 1 : b[i].scope = s /\ \A j \in i + 1 .. n + 1 : b[j].scope = NoScope
    BY <1>1, <1>3 DEF Under
  <2>2. n + 1 \notin i + 1 .. n + 1
    BY <1>3, <2>1
  <2>3. i = n + 1
    BY <2>2
  <2> QED
    BY <2>1, <2>3
<1>4. ASSUME NEW s, b[n + 1].scope = NoScope, Under(b, outside, n + 1, s)
      PROVE  Under(b, outside, n, s)
  <2>1. CASE s = outside /\ \A j \in 1 .. n + 1 : b[j].scope = NoScope
    BY <1>1, <2>1 DEF Under
  <2>2. CASE \E i \in 1 .. n + 1 : b[i].scope = s /\ s # NoScope /\ \A j \in i + 1 .. n + 1 : b[j].scope = NoScope
    <3>1. PICK i \in 1 .. n + 1 : b[i].scope = s /\ s # NoScope /\ \A j \in i + 1 .. n + 1 : b[j].scope = NoScope
      BY <2>2
    <3>2. i \in 1 .. n
      BY <1>1, <1>4, <3>1
    <3>3. \A j \in i + 1 .. n : j \in i + 1 .. n + 1
      BY <3>2
    <3> QED
      BY <3>1, <3>2, <3>3 DEF Under
  <2> QED
    BY <1>4, <2>1, <2>2 DEF Under
<1>5. ASSUME NEW s, b[n + 1].scope = NoScope, Under(b, outside, n, s)
      PROVE  Under(b, outside, n + 1, s)
  <2>1. CASE s = outside /\ \A j \in 1 .. n : b[j].scope = NoScope
    BY <1>1, <1>5, <2>1 DEF Under
  <2>2. CASE \E i \in 1 .. n : b[i].scope = s /\ s # NoScope /\ \A j \in i + 1 .. n : b[j].scope = NoScope
    <3>1. PICK i \in 1 .. n : b[i].scope = s /\ s # NoScope /\ \A j \in i + 1 .. n : b[j].scope = NoScope
      BY <2>2
    <3>2. \A j \in i + 1 .. n + 1 : j \in i + 1 .. n \/ j = n + 1
      OBVIOUS
    <3>3. i \in 1 .. n + 1
      BY <1>1
    <3> QED
      BY <1>5, <3>1, <3>2, <3>3 DEF Under
  <2> QED
    BY <1>5, <2>1, <2>2 DEF Under
<1> QED
  BY <1>2, <1>3, <1>4, <1>5

\* A flow that is in an operation has the operation's scope active, if it has
\* one.
LEMMA InOperation ==
    ASSUME NEW b, Shape(b), b # <<>>, b[Len(b)].op \in Operations \ Untold,
           NEW outside, NEW s, Under(b, outside, Len(b), s)
    PROVE  \E i \in 1 .. Len(b) : b[i].op = b[Len(b)].op /\ b[i].scope = s /\ s # NoScope
<1> DEFINE o == b[Len(b)].op
<1>1. b \in Seq(Block) /\ Len(b) \in Nat /\ Len(b) \in 1 .. Len(b) /\ o # NoScope
  BY CallsAssumption DEF Shape
<1>2. PICK j \in 1 .. Len(b) : b[j].op = o /\ b[j].scope # NoScope
  BY <1>1 DEF Shape
<1>3. PICK i \in 1 .. Len(b) : b[i].scope = s /\ s # NoScope /\ \A k \in i + 1 .. Len(b) : b[k].scope = NoScope
  BY <1>2 DEF Under
<1>4. ~ j > i
  BY <1>2, <1>3
<1>5. ~ j < i
  <2>1. ASSUME j < i
        PROVE  FALSE
    <3>1. b[i].op = o
      BY <1>1, <1>2, <2>1 DEF Shape
    <3>2. b[j].op = NoScope
      BY <1>1, <1>3, <2>1, <3>1 DEF Shape
    <3> QED
      BY <1>1, <1>2, <3>2
  <2> QED
    BY <2>1
<1>6. i = j
  BY <1>4, <1>5
<1> QED
  BY <1>2, <1>3, <1>6

\* Outside of operations there are only blocks of the application, and its
\* innermost scope is active.
LEMMA InApplication ==
    ASSUME NEW b, Shape(b), b = <<>> \/ b[Len(b)].op = NoScope,
           NEW outside, NEW s, Under(b, outside, Len(b), s)
    PROVE  /\ \A i \in 1 .. Len(b) : b[i].op = NoScope
           /\ IF b = <<>> THEN s = outside ELSE s = b[Len(b)].scope /\ s # NoScope
<1>1. b \in Seq(Block) /\ Len(b) \in Nat
  BY DEF Shape
<1>2. CASE b = <<>>
  <2>1. Len(b) = 0
    BY <1>2
  <2> QED
    BY <1>2, <2>1 DEF Under
<1>3. CASE b # <<>>
  <2> DEFINE n == Len(b) - 1
  <2>1. n \in Nat /\ n + 1 = Len(b) /\ Len(b) \in 1 .. Len(b)
    BY <1>1, <1>3
  <2>2. ASSUME NEW i \in 1 .. Len(b)
        PROVE  b[i].op = NoScope
    <3>1. CASE i = Len(b)
      BY <1>3, <3>1
    <3>2. CASE i # Len(b)
      <4>1. i < Len(b) /\ b[Len(b)].op = NoScope
        BY <1>1, <1>3, <3>2
      <4> QED
        BY <2>1, <4>1 DEF Shape
    <3> QED
      BY <3>1, <3>2
  <2>3. b[n + 1].scope # NoScope
    BY <2>1, <2>2 DEF Shape
  <2>4. Under(b, outside, n + 1, s)
    BY <2>1
  <2>5. s = b[n + 1].scope
    <3> HIDE DEF n
    <3> QED
      BY <2>1, <2>3, <2>4, UnderTop
  <2> QED
    BY <1>3, <2>1, <2>2, <2>3, <2>5
<1> QED
  BY <1>2, <1>3

\* The application opens a block of its own or the outermost wrapper of an
\* operation.
LEMMA ShapeOpened ==
    ASSUME NEW b, Shape(b), \A i \in 1 .. Len(b) : b[i].op = NoScope,
           NEW x \in Block, x.op \in Untold <=> x.scope = NoScope
    PROVE  Shape(Append(b, x))
<1> DEFINE c == Append(b, x)
           n == Len(b) + 1
<1>1. /\ c \in Seq(Block) /\ Len(b) \in Nat /\ Len(c) = n
      /\ c[n] = x /\ \A i \in 1 .. Len(b) : c[i] = b[i] /\ b[i].op = NoScope
  BY Pushed DEF Shape
<1>2. \A i \in 1 .. n : i \in 1 .. Len(b) \/ i = n
  BY <1>1
<1>3. NoScope \notin Operations /\ Untold \subseteq Operations
  BY CallsAssumption DEF Untold, Operations
<1>4. ASSUME NEW i \in 1 .. n, NEW j \in 1 .. n, i < j
      PROVE  c[i].op = NoScope
  <2>1. i \in 1 .. Len(b)
    BY <1>1, <1>4
  <2> QED
    BY <1>1, <2>1
<1>5. ASSUME NEW i \in 1 .. n
      PROVE  /\ c[i].op = NoScope => c[i].scope # NoScope
             /\ c[i].op \in Untold => c[i].scope = NoScope
             /\ c[i].op \in Operations \ Untold => i = n /\ c[i].scope # NoScope
  <2>1. CASE i \in 1 .. Len(b)
    <3>1. c[i] = b[i] /\ b[i].op = NoScope
      BY <1>1, <2>1
    <3>2. b[i].scope # NoScope
      BY <2>1, <3>1 DEF Shape
    <3> QED
      BY <1>3, <3>1, <3>2
  <2>2. CASE i = n
    BY <1>1, <1>3, <2>2
  <2> QED
    BY <1>2, <2>1, <2>2
<1>6. ASSUME NEW i \in 1 .. n, c[i].op \in Operations \ Untold
      PROVE  \E j \in 1 .. i : c[j].op = c[i].op /\ c[j].scope # NoScope
  <2>1. i \in 1 .. i
    BY <1>1
  <2> QED
    BY <1>5, <1>6, <2>1
<1> HIDE DEF c, n
<1>7. Shape(c)
  BY <1>1, <1>4, <1>5, <1>6 DEF Shape
<1> QED
  BY <1>7 DEF c

\* In an operation only wrappers of it are opened, and those have no scope.
LEMMA ShapeNested ==
    ASSUME NEW b, Shape(b), b # <<>>, NEW o \in Operations, b[Len(b)].op = o,
           NEW x \in Block, x = [op |-> o, scope |-> NoScope]
    PROVE  Shape(Append(b, x))
<1> DEFINE c == Append(b, x)
           n == Len(b) + 1
<1>1. /\ c \in Seq(Block) /\ Len(b) \in Nat /\ Len(b) \in 1 .. Len(b) /\ Len(c) = n
      /\ c[n] = x /\ \A i \in 1 .. Len(b) : c[i] = b[i]
  BY Pushed DEF Shape
<1>2. \A i \in 1 .. n : i \in 1 .. Len(b) \/ i = n
  BY <1>1
<1>3. o # NoScope /\ x.op = o /\ x.scope = NoScope
  BY CallsAssumption
<1>4. ASSUME NEW i \in 1 .. n, NEW j \in 1 .. n, i < j
      PROVE  /\ c[i].op = NoScope \/ c[j].op = c[i].op
             /\ c[j].op # NoScope /\ c[j].scope # NoScope => c[i].op = NoScope
  <2>1. i \in 1 .. Len(b)
    BY <1>1, <1>4
  <2>2. CASE j \in 1 .. Len(b)
    <3>1. c[i] = b[i] /\ c[j] = b[j]
      BY <1>1, <2>1, <2>2
    <3> QED
      BY <1>4, <2>1, <2>2, <3>1 DEF Shape
  <2>3. CASE j = n
    <3>1. b[i].op = NoScope \/ b[i].op = o
      <4>1. CASE i = Len(b)
        BY <4>1
      <4>2. CASE i < Len(b)
        BY <1>1, <2>1, <4>2 DEF Shape
      <4> QED
        BY <1>1, <2>1, <4>1, <4>2
    <3> QED
      BY <1>1, <1>3, <2>1, <2>3, <3>1
  <2> QED
    BY <1>2, <2>2, <2>3
<1>5. ASSUME NEW i \in 1 .. n
      PROVE  /\ c[i].op = NoScope => c[i].scope # NoScope
             /\ c[i].op \in Untold => c[i].scope = NoScope
  <2>1. CASE i \in 1 .. Len(b)
    BY <1>1, <2>1 DEF Shape
  <2>2. CASE i = n
    BY <1>1, <1>3, <2>2
  <2> QED
    BY <1>2, <2>1, <2>2
<1>6. ASSUME NEW i \in 1 .. n, c[i].op \in Operations \ Untold
      PROVE  \E j \in 1 .. i : c[j].op = c[i].op /\ c[j].scope # NoScope
  <2>1. PICK k \in 1 .. Len(b) : k <= i /\ c[i].op = b[k].op
    <3>1. CASE i \in 1 .. Len(b)
      BY <1>1, <3>1
    <3>2. CASE i = n
      BY <1>1, <1>3, <3>2
    <3> QED
      BY <1>2, <3>1, <3>2
  <2>2. PICK j \in 1 .. k : b[j].op = b[k].op /\ b[j].scope # NoScope
    BY <1>6, <2>1 DEF Shape
  <2>3. j \in 1 .. i /\ j \in 1 .. Len(b)
    BY <1>1, <2>1
  <2>4. c[j] = b[j]
    BY <1>1, <2>3
  <2> QED
    BY <2>1, <2>2, <2>3, <2>4
<1> HIDE DEF c, n
<1>7. Shape(c)
  BY <1>1, <1>4, <1>5, <1>6 DEF Shape
<1> QED
  BY <1>7 DEF c

\* The innermost block is closed.
LEMMA ShapeClosed ==
    ASSUME NEW b, Shape(b), b # <<>>
    PROVE  Shape(Front(b))
<1> DEFINE c == Front(b)
<1>1. c \in Seq(Block) /\ Len(c) \in Nat /\ \A i \in 1 .. Len(c) : i \in 1 .. Len(b) /\ c[i] = b[i]
  BY Popped DEF Shape
<1> HIDE DEF c
<1>2. ASSUME NEW i \in 1 .. Len(c), NEW j \in 1 .. Len(c), i < j
      PROVE  /\ c[i].op = NoScope \/ c[j].op = c[i].op
             /\ c[j].op # NoScope /\ c[j].scope # NoScope => c[i].op = NoScope
  <2>1. i \in 1 .. Len(b) /\ j \in 1 .. Len(b) /\ c[i] = b[i] /\ c[j] = b[j]
    BY <1>1
  <2> QED
    BY <1>2, <2>1 DEF Shape
<1>3. ASSUME NEW i \in 1 .. Len(c)
      PROVE  /\ c[i].op = NoScope => c[i].scope # NoScope
             /\ c[i].op \in Untold => c[i].scope = NoScope
  BY <1>1 DEF Shape
<1>4. ASSUME NEW i \in 1 .. Len(c), c[i].op \in Operations \ Untold
      PROVE  \E j \in 1 .. i : c[j].op = c[i].op /\ c[j].scope # NoScope
  <2>1. i \in 1 .. Len(b) /\ c[i] = b[i]
    BY <1>1
  <2>2. PICK j \in 1 .. i : b[j].op = b[i].op /\ b[j].scope # NoScope
    BY <1>4, <2>1 DEF Shape
  <2>3. j \in 1 .. Len(c)
    BY <1>1
  <2> QED
    BY <1>1, <2>1, <2>2, <2>3
<1>5. Shape(c)
  BY <1>1, <1>2, <1>3, <1>4 DEF Shape
<1> QED
  BY <1>5 DEF c

\* Counting the blocks of an operation.
LEMMA BlocksCounted ==
    ASSUME NEW b \in Seq(Block), NEW o
    PROVE  IsFiniteSet(BlocksOf(b, o)) /\ Cardinality(BlocksOf(b, o)) \in Nat
<1>1. Len(b) \in Nat /\ 1 \in Int
  OBVIOUS
<1>2. IsFiniteSet(1 .. Len(b)) /\ BlocksOf(b, o) \in SUBSET (1 .. Len(b))
  BY <1>1, FS_Interval DEF BlocksOf
<1>3. IsFiniteSet(BlocksOf(b, o))
  BY <1>2, FS_Subset
<1> QED
  BY <1>3, FS_CardinalityType

\* The depth of the code's model is that count.
LEMMA DepthCounts ==
    ASSUME NEW f, frames[f] \in Seq(Block), NEW o
    PROVE  Depth(f, o) = Cardinality(BlocksOf(frames[f], o))
<1>1. DOMAIN frames[f] = 1 .. Len(frames[f])
  OBVIOUS
<1>2. {i \in DOMAIN frames[f] : frames[f][i].op = o} = BlocksOf(frames[f], o)
  BY <1>1 DEF BlocksOf
<1> QED
  BY <1>2 DEF Depth

\* A block on top counts for its own operation only.
LEMMA BlocksPushed ==
    ASSUME NEW b \in Seq(Block), NEW x \in Block, NEW o
    PROVE  Cardinality(BlocksOf(Append(b, x), o)) =
               Cardinality(BlocksOf(b, o)) + (IF x.op = o THEN 1 ELSE 0)
<1> DEFINE c == Append(b, x)
           n == Len(b) + 1
<1>1. /\ c \in Seq(Block) /\ Len(b) \in Nat /\ Len(c) = n /\ c[n] = x
      /\ \A i \in 1 .. Len(b) : c[i] = b[i]
  BY Pushed
<1>2. 1 .. n = 1 .. Len(b) \cup {n} /\ n \notin 1 .. Len(b)
  BY <1>1
<1>3. IsFiniteSet(BlocksOf(b, o)) /\ Cardinality(BlocksOf(b, o)) \in Nat
  BY BlocksCounted
<1> HIDE DEF c, n
<1>4. CASE x.op = o
  <2>1. BlocksOf(c, o) = BlocksOf(b, o) \cup {n} /\ n \notin BlocksOf(b, o)
    BY <1>1, <1>2, <1>4 DEF BlocksOf
  <2>2. Cardinality(BlocksOf(c, o)) = Cardinality(BlocksOf(b, o)) + 1
    BY <1>3, <2>1, FS_AddElement
  <2> QED
    BY <1>4, <2>2 DEF c
<1>5. CASE x.op # o
  <2>1. BlocksOf(c, o) = BlocksOf(b, o)
    BY <1>1, <1>2, <1>5 DEF BlocksOf
  <2> QED
    BY <1>3, <1>5, <2>1 DEF c
<1> QED
  BY <1>4, <1>5

\* Taking the innermost block away adds none.
LEMMA BlocksPopped ==
    ASSUME NEW b \in Seq(Block), b # <<>>, NEW o
    PROVE  Cardinality(BlocksOf(Front(b), o)) <= Cardinality(BlocksOf(b, o))
<1>1. BlocksOf(Front(b), o) \in SUBSET BlocksOf(b, o)
  BY Popped DEF BlocksOf
<1>2. IsFiniteSet(BlocksOf(b, o))
  BY BlocksCounted
<1> QED
  BY <1>1, <1>2, FS_Subset

\* The innermost block is the operation's only one.
LEMMA OneBlock ==
    ASSUME NEW b \in Seq(Block), b # <<>>
    PROVE  Cardinality(BlocksOf(b, b[Len(b)].op)) = 1
              <=> \A i \in 1 .. Len(b) : b[i].op = b[Len(b)].op => i = Len(b)
<1> DEFINE S == BlocksOf(b, b[Len(b)].op)
           n == Len(b)
<1>1. Len(b) \in Nat /\ n \in S /\ IsFiniteSet(S)
  <2>1. Len(b) \in Nat /\ n \in S
    BY DEF BlocksOf
  <2> QED
    BY <2>1, BlocksCounted
<1>2. (\A i \in 1 .. Len(b) : b[i].op = b[Len(b)].op => i = Len(b)) <=> S \subseteq {n}
  BY DEF BlocksOf
<1> HIDE DEF S, n
<1>3. ASSUME S \subseteq {n}
      PROVE  Cardinality(S) = 1
  <2>1. S = {n}
    BY <1>1, <1>3
  <2> QED
    BY <2>1, FS_Singleton
<1>4. ASSUME Cardinality(S) = 1
      PROVE  S \subseteq {n}
  <2>1. \E x : S = {x}
    BY <1>1, <1>4, FS_Singleton
  <2> QED
    BY <1>1, <2>1
<1>5. Cardinality(S) = 1 <=> S \subseteq {n}
  BY <1>3, <1>4
<1> QED
  BY <1>2, <1>5 DEF S

-----------------------------------------------------------------------------
(***************************************************************************)
(* Flows.                                                                  *)
(***************************************************************************)

\* What a step leaves as it was of the scopes that had been opened.
ScopesKept ==
    /\ \A s \in Opened : s \in Opened' /\ spanOf'[s] = spanOf[s] /\ parent'[s] = parent[s]
    /\ \A s \in Opened : spanOf[s] # NoScope => kind'[s] = kind[s]
    /\ started \subseteq started'

\* A block that stays is right after the step as well.
LEMMA BlockKept ==
    ASSUME NEW f \in Flows, NEW i \in Nat, BlockInv(f, i), ScopesKept, inherited'[f] = inherited[f],
           \A j \in 1 .. i : frames'[f][j] = frames[f][j], i > 0
    PROVE  BlockInv(f, i)'
<1> DEFINE s == frames[f][i].scope
<1>1. i \in 1 .. i /\ frames'[f][i] = frames[f][i]
  OBVIOUS
<1>2. CASE s = NoScope
  BY <1>1, <1>2 DEF BlockInv
<1>3. CASE s # NoScope
  <2>1. /\ s \in Opened /\ spanOf[s] = frames[f][i].op
        /\ frames[f][i].op # NoScope => kind[s] = "client"
        /\ Under(frames[f], inherited[f], i - 1, parent[s])
    BY <1>3 DEF BlockInv
  <2>2. /\ s \in Opened' /\ spanOf'[s] = spanOf[s] /\ parent'[s] = parent[s]
        /\ spanOf[s] # NoScope => kind'[s] = kind[s]
    BY <2>1 DEF ScopesKept
  <2>3. Under(frames'[f], inherited[f], i - 1, parent[s])
    <3>1. i - 1 \in Nat /\ \A j \in 1 .. i - 1 : frames'[f][j] = frames[f][j]
      OBVIOUS
    <3> QED
      BY <2>1, <3>1, UnderSame
  <2>4. frames'[f][i].scope = s /\ frames'[f][i].op = frames[f][i].op
    BY <1>1
  <2> HIDE DEF s
  <2>5. \A x : x = s => (x \in Opened' /\ spanOf'[x] = frames'[f][i].op
                        /\ (frames'[f][i].op # NoScope => kind'[x] = "client")
                        /\ Under(frames'[f], inherited'[f], i - 1, parent'[x]))
    BY <2>1, <2>2, <2>3, <2>4
  <2> QED
    BY <2>4, <2>5 DEF BlockInv
<1> QED
  BY <1>2, <1>3

\* So is a flow that has no part in the step.
LEMMA FlowKept ==
    ASSUME NEW f \in Flows, FlowInv(f), ScopesKept, inherited'[f] = inherited[f],
           active'[f] = active[f], frames'[f] = frames[f]
    PROVE  FlowInv(f)'
<1>1. frames[f] \in Seq(Block) /\ Len(frames[f]) \in Nat
  BY DEF FlowInv, Shape
<1>2. ASSUME NEW i \in 1 .. Len(frames[f])
      PROVE  BlockInv(f, i)'
  <2>1. BlockInv(f, i) /\ i \in Nat /\ i > 0
    BY <1>1 DEF FlowInv
  <2> QED
    BY <2>1, BlockKept
<1>3. inherited[f] # NoScope => inherited[f] \in Opened' /\ spanOf'[inherited[f]] = NoScope
  BY DEF FlowInv, ScopesKept
<1>4. f \notin started' => frames[f] = <<>>
  BY DEF FlowInv, ScopesKept
<1> QED
  BY <1>2, <1>3, <1>4 DEF FlowInv

\* A flow that opens a block.
LEMMA FlowPushed ==
    ASSUME NEW f \in Flows, FlowInv(f), ScopesKept, inherited'[f] = inherited[f], f \in started,
           NEW x \in Block, frames'[f] = Append(frames[f], x), Shape(Append(frames[f], x)),
           x.scope = NoScope => active'[f] = active[f],
           x.scope # NoScope =>
              /\ x.scope \in Opened' /\ spanOf'[x.scope] = x.op
              /\ x.op # NoScope => kind'[x.scope] = "client"
              /\ parent'[x.scope] = active[f] /\ active'[f] = x.scope,
           \A o \in Operations : x.op = o => Cardinality(BlocksOf(frames[f], o)) < MaxDepth
    PROVE  FlowInv(f)'
<1> DEFINE b == frames[f]
           c == Append(b, x)
           n == Len(b)
<1>1. /\ b \in Seq(Block) /\ n \in Nat /\ c \in Seq(Block) /\ Len(c) = n + 1 /\ c[n + 1] = x
      /\ \A i \in 1 .. n : c[i] = b[i]
  BY Pushed DEF FlowInv, Shape
<1>2. frames'[f] = c /\ Shape(c)
  OBVIOUS
<1>3. /\ Under(b, inherited[f], n, active[f])
      /\ \A i \in 1 .. n : BlockInv(f, i)
      /\ inherited[f] # NoScope => inherited[f] \in Opened /\ spanOf[inherited[f]] = NoScope
      /\ \A o \in Operations : Cardinality(BlocksOf(b, o)) <= MaxDepth
  BY DEF FlowInv
<1> HIDE DEF c
<1>4. Under(c, inherited[f], n, active[f])
  <2> HIDE DEF b, n
  <2> QED
    BY <1>1, <1>3, UnderSame
<1>5. ASSUME NEW i \in 1 .. n
      PROVE  BlockInv(f, i)'
  <2>1. BlockInv(f, i) /\ i \in Nat /\ i > 0
    BY <1>1, <1>3
  <2>2. \A j \in 1 .. i : frames'[f][j] = frames[f][j]
    BY <1>1, <1>2
  <2> QED
    BY <2>1, <2>2, BlockKept
<1>6. ASSUME NEW i \in 1 .. n + 1, i = n + 1
      PROVE  BlockInv(f, i)'
  <2>1. frames'[f][i] = x /\ i - 1 = n
    BY <1>1, <1>2, <1>6
  <2>2. CASE x.scope = NoScope
    BY <2>1, <2>2 DEF BlockInv
  <2>3. CASE x.scope # NoScope
    <3>1. PICK s : s = x.scope
      OBVIOUS
    <3>2. /\ s \in Opened' /\ spanOf'[s] = x.op /\ (x.op # NoScope => kind'[s] = "client")
          /\ Under(frames'[f], inherited'[f], i - 1, parent'[s])
      BY <1>2, <1>4, <2>1, <2>3, <3>1
    <3> QED
      BY <2>1, <3>1, <3>2 DEF BlockInv
  <2> QED
    BY <2>2, <2>3
<1>7. Under(c, inherited[f], n + 1, active'[f])
  <2>1. CASE x.scope = NoScope
    BY <1>1, <1>4, <2>1, UnderTop
  <2>2. CASE x.scope # NoScope
    BY <1>1, <2>2, UnderTop
  <2> QED
    BY <2>1, <2>2
<1>8. ASSUME NEW o \in Operations
      PROVE  Cardinality(BlocksOf(c, o)) <= MaxDepth
  <2>1. Cardinality(BlocksOf(c, o)) = Cardinality(BlocksOf(b, o)) + (IF x.op = o THEN 1 ELSE 0)
    BY <1>1, BlocksPushed DEF c
  <2>2. Cardinality(BlocksOf(b, o)) \in Nat /\ MaxDepth \in Nat
    BY <1>1, BlocksCounted, CallsAssumption
  <2> QED
    BY <1>3, <2>1, <2>2
<1>9. \A i \in 1 .. n + 1 : i \in 1 .. n \/ i = n + 1
  BY <1>1
<1>10. ASSUME NEW i \in 1 .. n + 1
       PROVE  BlockInv(f, i)'
  BY <1>5, <1>6, <1>9
<1> HIDE DEF b, n
<1>11. inherited'[f] # NoScope => inherited'[f] \in Opened' /\ spanOf'[inherited'[f]] = NoScope
  BY <1>3 DEF ScopesKept
<1>12. f \in started'
  BY DEF ScopesKept
<1> QED
  BY <1>1, <1>2, <1>7, <1>8, <1>10, <1>11, <1>12 DEF FlowInv

\* A flow that closes its innermost block.
LEMMA FlowPopped ==
    ASSUME NEW f \in Flows, FlowInv(f), ScopesKept, inherited'[f] = inherited[f], frames[f] # <<>>,
           frames'[f] = Front(frames[f]),
           NEW x, x = frames[f][Len(frames[f])],
           active'[f] = IF x.scope = NoScope THEN active[f] ELSE parent[x.scope]
    PROVE  FlowInv(f)'
<1> DEFINE b == frames[f]
           c == Front(b)
           n == Len(b) - 1
<1>1. /\ b \in Seq(Block) /\ n \in Nat /\ c \in Seq(Block) /\ Len(c) = n /\ Len(b) = n + 1
      /\ b[n + 1] = x /\ \A i \in 1 .. n : c[i] = b[i]
  BY Popped DEF FlowInv, Shape
<1>2. frames'[f] = c /\ Shape(c)
  BY ShapeClosed DEF FlowInv
<1>3. /\ Under(b, inherited[f], n + 1, active[f])
      /\ \A i \in 1 .. n + 1 : BlockInv(f, i)
      /\ inherited[f] # NoScope => inherited[f] \in Opened /\ spanOf[inherited[f]] = NoScope
      /\ \A o \in Operations : Cardinality(BlocksOf(b, o)) <= MaxDepth
      /\ f \in started
  BY <1>1 DEF FlowInv
<1>4. Under(b, inherited[f], n, active'[f])
  <2>1. CASE x.scope = NoScope
    BY <1>1, <1>3, <2>1, UnderTop
  <2>2. CASE x.scope # NoScope
    <3>1. BlockInv(f, n + 1) /\ frames[f][n + 1] = x /\ n + 1 - 1 = n
      BY <1>1, <1>3
    <3>2. Under(frames[f], inherited[f], n, parent[x.scope])
      BY <2>2, <3>1 DEF BlockInv
    <3> QED
      BY <2>2, <3>2
  <2> QED
    BY <2>1, <2>2
<1>5. Under(c, inherited[f], n, active'[f])
  <2> HIDE DEF b, c, n
  <2> QED
    BY <1>1, <1>4, UnderSame
<1>6. ASSUME NEW i \in 1 .. n
      PROVE  BlockInv(f, i)'
  <2>1. BlockInv(f, i) /\ i \in Nat /\ i > 0
    BY <1>1, <1>3
  <2>2. \A j \in 1 .. i : frames'[f][j] = frames[f][j]
    BY <1>1, <1>2
  <2> QED
    BY <2>1, <2>2, BlockKept
<1>7. ASSUME NEW o \in Operations
      PROVE  Cardinality(BlocksOf(c, o)) <= MaxDepth
  <2>1. Cardinality(BlocksOf(c, o)) <= Cardinality(BlocksOf(b, o))
    BY <1>1, BlocksPopped
  <2>2. /\ Cardinality(BlocksOf(b, o)) \in Nat /\ Cardinality(BlocksOf(c, o)) \in Nat
        /\ MaxDepth \in Nat
    BY <1>1, BlocksCounted, CallsAssumption
  <2> QED
    BY <1>3, <2>1, <2>2
<1> HIDE DEF b, c, n
<1>8. inherited'[f] # NoScope => inherited'[f] \in Opened' /\ spanOf'[inherited'[f]] = NoScope
  BY <1>3 DEF ScopesKept
<1>9. f \in started'
  BY <1>3 DEF ScopesKept
<1> QED
  BY <1>1, <1>2, <1>5, <1>6, <1>7, <1>8, <1>9 DEF FlowInv

\* While the application runs, no operation does in this flow, and the active
\* scope is of none.
LEMMA Application ==
    ASSUME CallsInv, NEW f \in Flows, AppRuns(f)
    PROVE  /\ f \in started \ throwing /\ Shape(frames[f])
           /\ \A i \in 1 .. Len(frames[f]) : frames[f][i].op = NoScope
           /\ frames[f] # <<>> => /\ Innermost(f) = frames[f][Len(frames[f])]
                                  /\ active[f] = Innermost(f).scope /\ active[f] # NoScope
           /\ active[f] # NoScope => active[f] \in Opened /\ spanOf[active[f]] = NoScope
<1>1. FlowInv(f) /\ Shape(frames[f]) /\ Under(frames[f], inherited[f], Len(frames[f]), active[f])
  BY DEF CallsInv, FlowInv
<1>2. frames[f] # <<>> => Innermost(f) = frames[f][Len(frames[f])]
  BY DEF Innermost, Last
<1>3. frames[f] = <<>> \/ frames[f][Len(frames[f])].op = NoScope
  BY <1>2 DEF AppRuns, InCall
<1>4. /\ \A i \in 1 .. Len(frames[f]) : frames[f][i].op = NoScope
      /\ IF frames[f] = <<>> THEN active[f] = inherited[f]
         ELSE active[f] = frames[f][Len(frames[f])].scope /\ active[f] # NoScope
  BY <1>1, <1>3, InApplication
<1>5. active[f] # NoScope => active[f] \in Opened /\ spanOf[active[f]] = NoScope
  <2>1. CASE frames[f] = <<>>
    BY <1>1, <1>4, <2>1 DEF FlowInv
  <2>2. CASE frames[f] # <<>>
    <3> DEFINE n == Len(frames[f])
    <3>1. n \in 1 .. n
      BY <1>1, <2>2 DEF Shape
    <3>2. BlockInv(f, n) /\ frames[f][n].op = NoScope
      BY <1>1, <1>4, <3>1 DEF FlowInv
    <3> QED
      BY <1>4, <2>2, <3>2 DEF BlockInv
  <2> QED
    BY <2>1, <2>2
<1> QED
  BY <1>1, <1>2, <1>4, <1>5 DEF AppRuns

\* In an operation's original method its span is active, if it has one, so that
\* the wrappers further in make none.
LEMMA Operation ==
    ASSUME CallsInv, NEW f \in Flows, NEW o \in Operations, InCall(f, o)
    PROVE  /\ f \in started /\ Shape(frames[f]) /\ frames[f] # <<>>
           /\ Innermost(f) = frames[f][Len(frames[f])] /\ Len(frames[f]) \in 1 .. Len(frames[f])
           /\ Innermost(f).op = o /\ outcome[o] = "running"
           /\ o \notin Untold => active[f] \in Opened /\ spanOf[active[f]] = o
           /\ Skips(f, o)
<1>1. FlowInv(f) /\ Shape(frames[f]) /\ Under(frames[f], inherited[f], Len(frames[f]), active[f])
  BY DEF CallsInv, FlowInv
<1>2. frames[f] # <<>> /\ Innermost(f) = frames[f][Len(frames[f])] /\ Innermost(f).op = o
  BY CallsAssumption DEF InCall, Innermost, Last
<1>3. Len(frames[f]) \in 1 .. Len(frames[f])
  BY <1>1, <1>2 DEF Shape
<1>4. f \in started /\ outcome[o] = "running"
  BY <1>1, <1>2, <1>3, CallsAssumption DEF FlowInv, CallsInv, RunsInv
<1>5. ASSUME o \notin Untold
      PROVE  active[f] \in Opened /\ spanOf[active[f]] = o /\ kind[active[f]] = "client"
             /\ active[f] # NoScope
  <2>1. PICK i \in 1 .. Len(frames[f]) :
           frames[f][i].op = o /\ frames[f][i].scope = active[f] /\ active[f] # NoScope
    BY <1>1, <1>2, <1>5, InOperation
  <2>2. BlockInv(f, i) /\ o # NoScope
    BY <1>1, CallsAssumption DEF FlowInv
  <2> QED
    BY <2>1, <2>2 DEF BlockInv
<1>6. Skips(f, o)
  <2>1. CASE o \in Untold
    <3>1. o \notin Commands
      BY <2>1, CallsAssumption DEF Untold
    <3> QED
      BY <2>1, <3>1 DEF Skips, Untold
  <2>2. CASE o \notin Untold
    BY <1>5, <2>2, CallsAssumption DEF Skips, ActiveDbScope, ActiveHttpScope
  <2> QED
    BY <2>1, <2>2
<1> QED
  BY <1>1, <1>2, <1>3, <1>4, <1>5, <1>6

-----------------------------------------------------------------------------
(***************************************************************************)
(* The steps.                                                              *)
(***************************************************************************)

\* Steps that change headers, what was sent, or where an exception is.
LEMMA QuietKeeps ==
    ASSUME CallsInv,
           UNCHANGED <<scopeVars, frames, kind, context, spanOf, creating, errors, outcome, late>>,
           throwing' \subseteq started, header' \in [Requests -> Contexts \cup {NoScope}],
           wire' \in [Requests -> SUBSET Contexts], WireInv'
    PROVE  CallsInv'
<1>1. UNCHANGED <<active, parent, opener, closes, finished, started, inherited, nested>>
  BY DEF scopeVars
<1>2. Opened' = Opened /\ ScopesKept
  BY <1>1 DEF Opened, ScopesKept
<1>3. CallTypes'
  BY <1>1, <1>2 DEF CallsInv, CallTypes, ScopeTypeOK
<1>4. ASSUME NEW f \in Flows
      PROVE  FlowInv(f)'
  BY <1>1, <1>2, FlowKept DEF CallsInv
<1>5. RunsInv' /\ SpanInv' /\ ErrorInv' /\ CreatingInv' /\ OneClientOnThePath'
  BY <1>1, <1>2 DEF CallsInv, RunsInv, SpanInv, ErrorInv, CreatingInv, OneClientOnThePath, SpansOf, Ended
<1> QED
  BY <1>3, <1>4, <1>5 DEF CallsInv

\* A wrapper without an original method only throws.
LEMMA BuildFailsKeeps ==
    ASSUME CallsInv, NEW f \in Flows, NEW o \in Operations, BuildFails(f, o)
    PROVE  CallsInv'
<1>1. throwing' \subseteq started
  BY DEF BuildFails, MayEnter, CallsInv, CallTypes
<1>2. UNCHANGED <<scopeVars, frames, kind, context, spanOf, creating, errors, outcome, late, header, wire>>
  BY DEF BuildFails
<1>3. WireInv'
  BY <1>2 DEF CallsInv, WireInv, SpansOf
<1> QED
  BY <1>1, <1>2, <1>3, QuietKeeps DEF CallsInv, CallTypes

\* A caught exception changes nothing of what was recorded.
LEMMA CatchKeeps ==
    ASSUME CallsInv, NEW f \in Flows, Catch(f)
    PROVE  CallsInv'
<1>1. throwing' \subseteq started
  BY DEF Catch, CallsInv, CallTypes
<1>2. UNCHANGED <<scopeVars, frames, kind, context, spanOf, creating, errors, outcome, late, header, wire>>
  BY DEF Catch
<1>3. WireInv'
  BY <1>2 DEF CallsInv, WireInv, SpansOf
<1> QED
  BY <1>1, <1>2, <1>3, QuietKeeps DEF CallsInv, CallTypes

\* What is sent is the context in the headers.
LEMMA TransmitKeeps ==
    ASSUME CallsInv, NEW f \in Flows, NEW r \in Requests, Transmit(f, r)
    PROVE  CallsInv'
<1>1. UNCHANGED <<scopeVars, frames, kind, context, spanOf, creating, errors, outcome, late, header, throwing>>
  BY DEF Transmit
<1>2. /\ header \in [Requests -> Contexts \cup {NoScope}] /\ wire \in [Requests -> SUBSET Contexts]
      /\ header[r] # NoScope /\ wire' = [wire EXCEPT ![r] = {header[r]}]
      /\ throwing \subseteq started
  BY DEF Transmit, CallsInv, CallTypes
<1>3. wire' \in [Requests -> SUBSET Contexts] /\ header' \in [Requests -> Contexts \cup {NoScope}]
      /\ throwing' \subseteq started
  BY <1>1, <1>2
<1>4. WireInv'
  <2>1. ASSUME NEW q \in Requests, NEW c \in wire'[q]
        PROVE  c \in wire[q] \/ (c = header[q] /\ header[q] # NoScope)
    <3>1. CASE q = r
      BY <1>2, <2>1, <3>1
    <3>2. CASE q # r
      BY <1>2, <2>1, <3>2
    <3> QED
      BY <3>1, <3>2
  <2> QED
    BY <1>1, <2>1 DEF CallsInv, WireInv, SpansOf
<1> QED
  BY <1>1, <1>3, <1>4, QuietKeeps

\* A context made outside of a span has the id that it is given.
LEMMA ContextMade ==
    ASSUME CallsInv, NEW f \in Flows, NEW fresh \in Scopes \cup WebRequests,
           NEW id \in Scopes \cup WebRequests
    PROVE  ContextFor(f, fresh, id) \in Contexts /\ ContextFor(f, fresh, id).span = id
<1>1. active[f] # NoScope => context[active[f]] \in Contexts
  BY DEF CallsInv, CallTypes, ScopeTypeOK
<1> QED
  BY <1>1 DEF ContextFor, Contexts

\* The stream's context, made before there is a span, is the one the span takes.
LEMMA GetRequestStreamKeeps ==
    ASSUME CallsInv, NEW f \in Flows, NEW o \in WebRequests, NEW sends \in BOOLEAN,
           GetRequestStream(f, o, sends)
    PROVE  CallsInv'
<1> DEFINE c == CreateHttpSpanContext(f, o)
<1>1. /\ UNCHANGED <<scopeVars, frames, kind, context, spanOf, creating, errors, outcome, late, throwing>>
      /\ AppRuns(f) /\ outcome[o] = "new" /\ o \notin Untraced /\ header[o] = NoScope
      /\ header' = [header EXCEPT ![o] = c]
      /\ wire' = IF sends THEN [wire EXCEPT ![o] = {header'[o]}] ELSE wire
  BY DEF GetRequestStream
<1>2. /\ header \in [Requests -> Contexts \cup {NoScope}] /\ wire \in [Requests -> SUBSET Contexts]
      /\ throwing \subseteq started /\ o \in Requests /\ o \in Operations /\ o \notin Messages
  BY CallsAssumption DEF CallsInv, CallTypes, Requests, Operations
<1>3. c \in Contexts /\ c # NoScope
  <2>1. active[f] # NoScope => context[active[f]] \in Contexts
    BY DEF CallsInv, CallTypes, ScopeTypeOK
  <2>2. c \in Contexts
    BY <2>1, ContextMade DEF CreateHttpSpanContext, ActiveHttpScope
  <2> QED
    BY <2>2, CallsAssumption DEF Contexts
<1> HIDE DEF c
<1>4. /\ header' \in [Requests -> Contexts \cup {NoScope}] /\ header'[o] = c
      /\ \A r \in Requests \ {o} : header'[r] = header[r] /\ wire'[r] = wire[r]
  BY <1>1, <1>2, <1>3
<1>5. wire' \in [Requests -> SUBSET Contexts]
  BY <1>1, <1>2, <1>3, <1>4
<1>6. wire[o] = {} /\ SpansOf(o) = {}
  BY <1>1, <1>2 DEF CallsInv, WireInv, SpanInv
<1>7. wire'[o] \subseteq {c}
  BY <1>1, <1>2, <1>4, <1>6
<1>8. SpansOf(o)' = {} /\ \A r \in Requests : SpansOf(r)' = SpansOf(r)
  BY <1>1, <1>6 DEF SpansOf
<1>9. ASSUME NEW r \in Requests
      PROVE  /\ \A d \in wire'[r] : header'[r] # NoScope /\ d.span = header'[r].span
             /\ \A s \in SpansOf(r)' :
                   /\ header'[r] # NoScope => context'[s].span = header'[r].span
                   /\ s \notin creating' => header'[r] # NoScope
             /\ r \in Untraced => header'[r] = NoScope
             /\ r \in Messages /\ outcome'[r] = "new" => header'[r] = NoScope
  <2>1. CASE r = o
    BY <1>1, <1>2, <1>3, <1>4, <1>7, <1>8, <2>1
  <2>2. CASE r # o
    BY <1>1, <1>4, <1>8, <2>2 DEF CallsInv, WireInv
  <2> QED
    BY <2>1, <2>2
<1>10. WireInv'
  BY <1>9 DEF WireInv
<1> QED
  BY <1>1, <1>2, <1>4, <1>5, <1>10, QuietKeeps

\* A flow that is forked starts in the scope of the application that is active.
LEMMA ForkKeeps ==
    ASSUME CallsInv, NEW f \in Flows, NEW g \in Flows, ForkFlow(f, g)
    PROVE  CallsInv'
<1>1. /\ AppRuns(f) /\ f \in started /\ g \notin started /\ started' = started \cup {g}
      /\ active' = [active EXCEPT ![g] = active[f]]
      /\ inherited' = [inherited EXCEPT ![g] = active[f]]
      /\ UNCHANGED <<parent, opener, closes, finished, nested>>
      /\ UNCHANGED <<frames, kind, context, spanOf, creating, errors, header, wire, throwing, outcome, late>>
  BY DEF ForkFlow, Fork, callVars
<1>2. Opened' = Opened /\ ScopesKept
  BY <1>1 DEF Opened, ScopesKept
<1>3. CallTypes'
  BY <1>1, <1>2 DEF CallsInv, CallTypes, ScopeTypeOK
<1>4. active \in [Flows -> Scopes \cup {NoScope}] /\ inherited \in [Flows -> Scopes \cup {NoScope}]
  BY DEF CallsInv, CallTypes, ScopeTypeOK
<1>5. ASSUME NEW h \in Flows \ {g}
      PROVE  FlowInv(h)'
  <2>1. active'[h] = active[h] /\ inherited'[h] = inherited[h] /\ frames'[h] = frames[h]
    BY <1>1, <1>4
  <2> QED
    BY <1>2, <2>1, FlowKept DEF CallsInv
<1>6. FlowInv(g)'
  <2>1. active'[g] = active[f] /\ inherited'[g] = active[f] /\ frames'[g] = <<>> /\ g \in started'
    BY <1>1, <1>4 DEF CallsInv, FlowInv
  <2>2. Len(frames'[g]) = 0
    BY <2>1
  <2>3. Shape(frames'[g]) /\ \A o \in Operations : Cardinality(BlocksOf(frames'[g], o)) <= MaxDepth
    <3>1. frames[g] = <<>> /\ frames'[g] = frames[g] /\ FlowInv(g)
      BY <1>1 DEF CallsInv, FlowInv
    <3> QED
      BY <3>1 DEF FlowInv
  <2>4. Under(frames'[g], inherited'[g], Len(frames'[g]), active'[g])
    BY <2>1, <2>2 DEF Under
  <2>5. inherited'[g] # NoScope => inherited'[g] \in Opened' /\ spanOf'[inherited'[g]] = NoScope
    BY <1>1, <1>2, <2>1, Application
  <2>6. \A i \in 1 .. Len(frames'[g]) : BlockInv(g, i)'
    BY <2>2
  <2> QED
    BY <2>1, <2>3, <2>4, <2>5, <2>6 DEF FlowInv
<1>7. RunsInv' /\ SpanInv' /\ ErrorInv' /\ CreatingInv' /\ OneClientOnThePath' /\ WireInv'
  BY <1>1, <1>2 DEF CallsInv, RunsInv, SpanInv, ErrorInv, CreatingInv, OneClientOnThePath, SpansOf, Ended, WireInv
<1> QED
  BY <1>3, <1>5, <1>6, <1>7 DEF CallsInv

\* What Tracer.StartActive does.
LEMMA Started ==
    ASSUME CallsInv, NEW f \in Flows, NEW s \in Scopes, NEW o \in Operations \cup {NoScope}, NEW k \in {"none", "client"},
           NEW id \in Scopes \cup WebRequests, StartActive(f, s, o, k, id)
    PROVE  /\ s \notin Opened /\ s # NoScope /\ Opened' = Opened \cup {s} /\ ScopeTypeOK'
           /\ UNCHANGED <<closes, finished, started, inherited, nested>>
           /\ active'[f] = s /\ \A g \in Flows \ {f} : active'[g] = active[g]
           /\ parent'[s] = active[f] /\ \A x \in Scopes \ {s} : parent'[x] = parent[x]
           /\ spanOf' \in [Scopes -> Operations \cup {NoScope}]
           /\ spanOf'[s] = o /\ \A x \in Scopes \ {s} : spanOf'[x] = spanOf[x]
           /\ context' \in [Scopes -> Contexts \cup {NoScope}]
           /\ context'[s] \in Contexts /\ context'[s].span = id
           /\ \A x \in Scopes \ {s} : context'[x] = context[x]
           /\ kind' \in [Scopes -> {"none", "client"}]
           /\ kind'[s] = k /\ \A x \in Scopes \ {s} : kind'[x] = kind[x]
<1>1. /\ Activate(f, s)
      /\ context' = [context EXCEPT ![s] = ContextFor(f, s, id)]
      /\ spanOf' = [spanOf EXCEPT ![s] = o]
      /\ kind' = [kind EXCEPT ![s] = k]
  BY DEF StartActive
<1>2. /\ f \in started /\ s \notin Opened
      /\ parent' = [parent EXCEPT ![s] = active[f]]
      /\ active' = [active EXCEPT ![f] = s]
      /\ opener' = [opener EXCEPT ![s] = f]
      /\ UNCHANGED <<closes, finished, started, inherited, nested>>
  BY <1>1 DEF Activate
<1>3. /\ ScopeTypeOK /\ spanOf \in [Scopes -> Operations \cup {NoScope}]
      /\ context \in [Scopes -> Contexts \cup {NoScope}] /\ s # NoScope /\ f # NoScope
  BY ScopeAssumption DEF CallsInv, CallTypes
<1>4. Opened' = Opened \cup {s}
  BY <1>2, <1>3 DEF Opened, ScopeTypeOK
<1>5. active \in [Flows -> Scopes \cup {NoScope}] /\ parent \in [Scopes -> Scopes \cup {NoScope}]
  BY <1>3 DEF ScopeTypeOK
<1>6. active' \in [Flows -> Scopes \cup {NoScope}] /\ parent' \in [Scopes -> Scopes \cup {NoScope}]
      /\ opener' \in [Scopes -> Flows \cup {NoScope}]
  BY <1>2, <1>3, <1>5 DEF ScopeTypeOK
<1>7. /\ active'[f] = s /\ \A g \in Flows \ {f} : active'[g] = active[g]
      /\ parent'[s] = active[f] /\ \A x \in Scopes \ {s} : parent'[x] = parent[x]
  BY <1>2, <1>5
<1>8. \A g \in Flows : active'[g] \in Opened' \cup {NoScope}
  BY <1>3, <1>4, <1>7 DEF ScopeTypeOK
<1>9. \A x \in Scopes : parent'[x] \in (Opened' \ {x}) \cup {NoScope}
  BY <1>2, <1>3, <1>4, <1>7 DEF ScopeTypeOK
<1>10. ScopeTypeOK'
  BY <1>2, <1>3, <1>6, <1>8, <1>9 DEF ScopeTypeOK
<1>11. /\ spanOf' \in [Scopes -> Operations \cup {NoScope}]
       /\ spanOf'[s] = o /\ \A x \in Scopes \ {s} : spanOf'[x] = spanOf[x]
  BY <1>1, <1>3
<1>12. ContextFor(f, s, id) \in Contexts /\ ContextFor(f, s, id).span = id
  BY ContextMade
<1>13. /\ context' \in [Scopes -> Contexts \cup {NoScope}]
       /\ context'[s] \in Contexts /\ context'[s].span = id
       /\ \A x \in Scopes \ {s} : context'[x] = context[x]
  BY <1>1, <1>3, <1>12
<1>14. /\ kind' \in [Scopes -> {"none", "client"}]
       /\ kind'[s] = k /\ \A x \in Scopes \ {s} : kind'[x] = kind[x]
  BY <1>1 DEF CallsInv, CallTypes
<1> QED
  BY <1>2, <1>3, <1>4, <1>7, <1>10, <1>11, <1>13, <1>14

\* A block is opened in the one flow that its operation runs in.
LEMMA RunsPushed ==
    ASSUME CallsInv, NEW f \in Flows, NEW x \in Block,
           frames' = [frames EXCEPT ![f] = Append(@, x)],
           x.op # NoScope => outcome'[x.op] = "running",
           \A o \in Operations : outcome[o] = "running" => outcome'[o] = "running",
           x.op # NoScope => \A g \in Flows : \A j \in 1 .. Len(frames[g]) : frames[g][j].op = x.op => g = f
    PROVE  /\ RunsInv' /\ frames' \in [Flows -> Seq(Block)]
           /\ frames'[f] = Append(frames[f], x) /\ \A g \in Flows \ {f} : frames'[g] = frames[g]
<1>1. frames \in [Flows -> Seq(Block)] /\ Append(frames[f], x) \in Seq(Block)
  BY DEF CallsInv, CallTypes
<1>2. /\ frames' \in [Flows -> Seq(Block)]
      /\ frames'[f] = Append(frames[f], x) /\ \A g \in Flows \ {f} : frames'[g] = frames[g]
  BY <1>1
<1>3. ASSUME NEW g \in Flows, NEW i \in 1 .. Len(frames'[g])
      PROVE  \/ frames'[g][i] = x /\ g = f
             \/ i \in 1 .. Len(frames[g]) /\ frames'[g][i] = frames[g][i]
  <2>1. CASE g = f
    <3>1. /\ Len(frames[f]) \in Nat /\ Len(frames'[f]) = Len(frames[f]) + 1
          /\ frames'[f][Len(frames[f]) + 1] = x
          /\ \A j \in 1 .. Len(frames[f]) : frames'[f][j] = frames[f][j]
      BY <1>1, <1>2, Pushed
    <3>2. i \in 1 .. Len(frames[f]) \/ i = Len(frames[f]) + 1
      BY <2>1, <3>1
    <3>3. CASE i \in 1 .. Len(frames[f])
      BY <2>1, <3>1, <3>3
    <3>4. CASE i = Len(frames[f]) + 1
      <4>1. frames'[f][i] = x
        BY <3>1, <3>4
      <4>2. frames'[g][i] = frames'[f][i]
        BY <2>1
      <4> QED
        BY <2>1, <4>1, <4>2
    <3> QED
      BY <3>2, <3>3, <3>4
  <2>2. CASE g # f
    BY <1>2, <1>3, <2>2
  <2> QED
    BY <2>1, <2>2
<1>4. ASSUME NEW g \in Flows, NEW i \in 1 .. Len(frames'[g]), frames'[g][i].op # NoScope
      PROVE  outcome'[frames'[g][i].op] = "running"
  <2>1. CASE frames'[g][i] = x
    BY <1>4, <2>1
  <2>2. CASE i \in 1 .. Len(frames[g]) /\ frames'[g][i] = frames[g][i]
    <3>1. outcome[frames[g][i].op] = "running" /\ frames[g][i] \in Block
      BY <1>1, <1>4, <2>2 DEF CallsInv, RunsInv
    <3> QED
      BY <1>4, <2>2, <3>1 DEF Block
  <2> QED
    BY <1>3, <2>1, <2>2
<1>5. ASSUME NEW g \in Flows, NEW h \in Flows, NEW i \in 1 .. Len(frames'[g]),
             NEW j \in 1 .. Len(frames'[h]), frames'[g][i].op # NoScope,
             frames'[g][i].op = frames'[h][j].op
      PROVE  g = h
  <2>1. /\ \/ frames'[g][i] = x /\ g = f
           \/ i \in 1 .. Len(frames[g]) /\ frames'[g][i] = frames[g][i]
        /\ \/ frames'[h][j] = x /\ h = f
           \/ j \in 1 .. Len(frames[h]) /\ frames'[h][j] = frames[h][j]
    BY <1>3
  <2> QED
    BY <1>5, <2>1 DEF CallsInv, RunsInv
<1>6. RunsInv'
  BY <1>4, <1>5 DEF RunsInv
<1> QED
  BY <1>2, <1>6

\* A using block of the application.
LEMMA StartLocalKeeps ==
    ASSUME CallsInv, NEW f \in Flows, NEW s \in Scopes, NEW k \in {"none", "client"}, StartLocal(f, s, k)
    PROVE  CallsInv'
<1> DEFINE x == [op |-> NoScope, scope |-> s]
<1>1. /\ AppRuns(f) /\ StartActive(f, s, NoScope, k, s)
      /\ frames' = [frames EXCEPT ![f] = Append(@, x)]
      /\ UNCHANGED <<creating, errors, header, wire, throwing, outcome, late>>
  BY DEF StartLocal, Push
<1>2. /\ s \notin Opened /\ s # NoScope /\ Opened' = Opened \cup {s} /\ ScopeTypeOK'
      /\ UNCHANGED <<closes, finished, started, inherited, nested>>
      /\ active'[f] = s /\ \A g \in Flows \ {f} : active'[g] = active[g]
      /\ parent'[s] = active[f] /\ \A y \in Scopes \ {s} : parent'[y] = parent[y]
      /\ spanOf' \in [Scopes -> Operations \cup {NoScope}]
      /\ spanOf'[s] = NoScope /\ \A y \in Scopes \ {s} : spanOf'[y] = spanOf[y]
      /\ context' \in [Scopes -> Contexts \cup {NoScope}] /\ context'[s] \in Contexts
      /\ \A y \in Scopes \ {s} : context'[y] = context[y]
      /\ kind' \in [Scopes -> {"none", "client"}]
      /\ kind'[s] = k /\ \A y \in Scopes \ {s} : kind'[y] = kind[y]
  BY <1>1, Started, SMTT(30)
<1>3. CallTypes /\ Opened \subseteq Scopes
  BY DEF CallsInv, Opened
<1>4. kind' \in [Scopes -> {"none", "client"}] /\ \A y \in Scopes \ {s} : kind'[y] = kind[y]
  BY <1>2
<1>5. x \in Block /\ x.op = NoScope /\ x.scope = s
  BY DEF Block
<1> HIDE DEF x
<1>6. /\ RunsInv' /\ frames' \in [Flows -> Seq(Block)]
      /\ frames'[f] = Append(frames[f], x) /\ \A g \in Flows \ {f} : frames'[g] = frames[g]
  BY <1>1, <1>5, RunsPushed
<1>7. ScopesKept
  BY <1>2, <1>3, <1>4 DEF ScopesKept
<1>8. spanOf[s] = NoScope
  BY <1>2, <1>3 DEF CallTypes
<1>9. \A o \in Operations : SpansOf(o)' = SpansOf(o) /\ s \notin SpansOf(o)
  BY <1>2, <1>8, CallsAssumption DEF SpansOf
<1>10. CallTypes'
  BY <1>1, <1>2, <1>3, <1>4, <1>6 DEF CallTypes
<1>11. FlowInv(f)'
  <2>1. Shape(frames[f]) /\ \A i \in 1 .. Len(frames[f]) : frames[f][i].op = NoScope
    BY <1>1, Application
  <2>2. NoScope \notin Untold /\ NoScope \notin Operations
    BY CallsAssumption DEF Untold, Operations
  <2>3. Shape(Append(frames[f], x))
    BY <1>2, <1>5, <2>1, <2>2, ShapeOpened
  <2> QED
    BY <1>1, <1>2, <1>5, <1>6, <1>7, <2>2, <2>3, FlowPushed DEF CallsInv, AppRuns
<1>12. ASSUME NEW g \in Flows \ {f}
       PROVE  FlowInv(g)'
  BY <1>2, <1>6, <1>7, FlowKept DEF CallsInv
<1>13. SpanInv'
  BY <1>1, <1>2, <1>8, <1>9 DEF CallsInv, SpanInv, Ended
<1>14. ErrorInv'
  BY <1>1, <1>2, <1>3, <1>9 DEF CallsInv, CallTypes, ErrorInv
<1>15. WireInv'
  <2>1. \A r \in Requests : r \in Operations /\ \A y \in SpansOf(r) : y \in Scopes \ {s}
    BY <1>9 DEF Operations, SpansOf
  <2> QED
    BY <1>1, <1>2, <1>9, <2>1 DEF CallsInv, WireInv
<1>16. OneClientOnThePath'
  <2>1. NoScope \notin Requests
    BY CallsAssumption DEF Operations
  <2>2. \A y \in Opened : y \in Scopes \ {s} /\ (parent[y] # NoScope => parent[y] \in Scopes \ {s})
    BY <1>2, <1>3 DEF CallTypes, ScopeTypeOK
  <2> QED
    BY <1>1, <1>2, <1>4, <2>1, <2>2 DEF CallsInv, OneClientOnThePath
<1>17. CreatingInv'
  <2>1. \A y \in Opened : y \in Scopes \ {s} /\ (parent[y] # NoScope => parent[y] \in Scopes \ {s})
    BY <1>2, <1>3 DEF CallTypes, ScopeTypeOK
  <2> QED
    BY <1>1, <1>2, <1>3, <2>1 DEF CallsInv, CallTypes, CreatingInv
<1> QED
  BY <1>6, <1>10, <1>11, <1>12, <1>13, <1>14, <1>15, <1>16, <1>17 DEF CallsInv

\* An operation that is entered from the application begins to run; it has no
\* span and no block yet, and if it is traced it gets one.
LEMMA EnterTracedKeeps ==
    ASSUME CallsInv, NEW f \in Flows, NEW o \in Operations, NEW s \in Scopes, EnterTraced(f, o, s)
    PROVE  CallsInv'
<1> DEFINE x == [op |-> o, scope |-> s]
           id == SpanIdFor(f, s, o)
<1>1. /\ MayEnter(f, o) /\ ~ Skips(f, o) /\ StartActive(f, s, o, "client", id)
      /\ frames' = [frames EXCEPT ![f] = Append(@, x)]
      /\ creating' = IF o \in Requests THEN creating \cup {s} ELSE creating
      /\ outcome' = [outcome EXCEPT ![o] = "running"]
      /\ UNCHANGED <<errors, wire, throwing, header, late>>
  BY DEF EnterTraced, Enter, Push
<1>2. AppRuns(f) /\ outcome[o] = "new" /\ o # NoScope
  BY <1>1, Operation, CallsAssumption DEF MayEnter
<1>3. CallTypes /\ Opened \subseteq Scopes
  BY DEF CallsInv, Opened
<1>4. o \notin Untold
  BY <1>1, CallsAssumption DEF Skips, Untold
<1>5. id \in Scopes \cup WebRequests
  <2>1. o \in WebRequests /\ header[o] # NoScope => header[o] \in Contexts
    BY <1>3 DEF CallTypes, Requests
  <2> QED
    BY <2>1 DEF SpanIdFor, Contexts
<1> HIDE DEF id
<1>6. /\ s \notin Opened /\ s # NoScope /\ Opened' = Opened \cup {s} /\ ScopeTypeOK'
      /\ UNCHANGED <<closes, finished, started, inherited, nested>>
      /\ active'[f] = s /\ \A g \in Flows \ {f} : active'[g] = active[g]
      /\ parent'[s] = active[f] /\ \A y \in Scopes \ {s} : parent'[y] = parent[y]
      /\ spanOf' \in [Scopes -> Operations \cup {NoScope}]
      /\ spanOf'[s] = o /\ \A y \in Scopes \ {s} : spanOf'[y] = spanOf[y]
      /\ context' \in [Scopes -> Contexts \cup {NoScope}]
      /\ context'[s] \in Contexts /\ context'[s].span = id
      /\ \A y \in Scopes \ {s} : context'[y] = context[y]
      /\ kind' \in [Scopes -> {"none", "client"}]
      /\ kind'[s] = "client" /\ \A y \in Scopes \ {s} : kind'[y] = kind[y]
  BY <1>1, <1>5, Started
<1>7. active[f] # NoScope => active[f] \in Opened /\ spanOf[active[f]] = NoScope
  BY <1>2, Application
<1>8. creating \subseteq creating' /\ creating' \subseteq creating \cup {s}
      /\ (o \in Requests => s \in creating') /\ (s \in creating' => o \in Requests)
  BY <1>1, <1>3, <1>6 DEF CallTypes
<1>9. x \in Block /\ x.op = o /\ x.scope = s
  BY DEF Block
<1> HIDE DEF x
<1>10. \A g \in Flows : \A j \in 1 .. Len(frames[g]) : frames[g][j].op # o
  BY <1>2 DEF CallsInv, RunsInv
<1>11. /\ outcome' \in [Operations -> {"new", "running", "returned", "threw"}]
       /\ outcome'[o] = "running" /\ \A q \in Operations \ {o} : outcome'[q] = outcome[q]
  BY <1>1, <1>3 DEF CallTypes
<1>12. /\ RunsInv' /\ frames' \in [Flows -> Seq(Block)]
       /\ frames'[f] = Append(frames[f], x) /\ \A g \in Flows \ {f} : frames'[g] = frames[g]
  <2>1. \A q \in Operations : outcome[q] = "running" => outcome'[q] = "running"
    BY <1>11
  <2>2. outcome'[x.op] = "running"
    BY <1>9, <1>11
  <2>3. \A g \in Flows : \A j \in 1 .. Len(frames[g]) : frames[g][j].op = x.op => g = f
    BY <1>9, <1>10
  <2> QED
    BY <1>1, <1>9, <2>1, <2>2, <2>3, RunsPushed
<1>13. ScopesKept
  <2>1. ASSUME NEW y \in Opened
        PROVE  /\ y \in Opened' /\ spanOf'[y] = spanOf[y] /\ parent'[y] = parent[y]
               /\ spanOf[y] # NoScope => kind'[y] = kind[y]
    <3>1. y \in Scopes \ {s}
      BY <1>3, <1>6
    <3> QED
      BY <1>6, <3>1
  <2> QED
    BY <1>6, <2>1 DEF ScopesKept
<1>14. spanOf[s] = NoScope /\ SpansOf(o) = {}
  BY <1>2, <1>3, <1>6 DEF CallTypes, CallsInv, SpanInv
<1>15. /\ SpansOf(o)' = {s}
       /\ \A q \in Operations \ {o} : SpansOf(q)' = SpansOf(q) /\ s \notin SpansOf(q)
  BY <1>6, <1>14, CallsAssumption DEF SpansOf
<1>16. ASSUME NEW y \in Opened
       PROVE  y \in Scopes \ {s} /\ (parent[y] # NoScope => parent[y] \in Scopes \ {s})
  BY <1>3, <1>6 DEF CallTypes, ScopeTypeOK
<1>17. CallTypes'
  BY <1>1, <1>2, <1>3, <1>6, <1>8, <1>11, <1>12 DEF CallTypes
<1>18. FlowInv(f)'
  <2>1. Shape(frames[f]) /\ \A i \in 1 .. Len(frames[f]) : frames[f][i].op = NoScope
    BY <1>2, Application
  <2>2. Shape(Append(frames[f], x))
    BY <1>4, <1>6, <1>9, <2>1, ShapeOpened
  <2>3. \A q \in Operations : x.op = q => Cardinality(BlocksOf(frames[f], q)) < MaxDepth
    <3>1. BlocksOf(frames[f], o) = {}
      BY <1>10 DEF BlocksOf
    <3>2. Cardinality(BlocksOf(frames[f], o)) = 0 /\ MaxDepth > 0
      BY <3>1, FS_EmptySet, CallsAssumption
    <3> QED
      BY <1>9, <3>2
  <2> QED
    BY <1>2, <1>6, <1>8, <1>9, <1>12, <1>13, <2>2, <2>3, FlowPushed DEF CallsInv, AppRuns
<1>19. ASSUME NEW g \in Flows \ {f}
       PROVE  FlowInv(g)'
  BY <1>6, <1>12, <1>13, FlowKept DEF CallsInv
<1>20. SpanInv'
  <2>1. ASSUME NEW y \in Scopes, NEW z \in Scopes, spanOf'[y] # NoScope, spanOf'[y] = spanOf'[z]
        PROVE  y = z
    <3>1. \A w \in Scopes : spanOf'[w] = o => w = s
      BY <1>15 DEF SpansOf
    <3> QED
      BY <1>6, <2>1, <3>1 DEF CallsInv, SpanInv
  <2>2. ASSUME NEW q \in Operations
        PROVE  /\ outcome'[q] = "new" \/ q \in Untold => SpansOf(q)' = {}
               /\ q \notin Untold /\ Ended(q)' => SpansOf(q)' # {} /\ SpansOf(q)' \subseteq finished'
    <3>1. CASE q = o
      BY <1>4, <1>11, <3>1 DEF Ended
    <3>2. CASE q # o
      BY <1>6, <1>11, <1>15, <3>2 DEF CallsInv, SpanInv, Ended
    <3> QED
      BY <3>1, <3>2
  <2> QED
    BY <2>1, <2>2 DEF SpanInv
<1>21. ErrorInv'
  <2>1. ASSUME NEW y \in errors', spanOf'[y] # NoScope
        PROVE  outcome'[spanOf'[y]] = "threw"
    <3>1. y \in Scopes \ {s} /\ y \in errors
      BY <1>1, <1>3, <1>6, <2>1 DEF CallTypes
    <3>2. spanOf'[y] = spanOf[y] /\ outcome[spanOf[y]] = "threw" /\ spanOf[y] \in Operations
      BY <1>3, <1>6, <2>1, <3>1 DEF CallsInv, ErrorInv, CallTypes
    <3> QED
      BY <1>2, <1>11, <3>2
  <2>2. ASSUME NEW q \in Operations, outcome'[q] = "threw"
        PROVE  SpansOf(q)' \subseteq errors'
    BY <1>1, <1>11, <1>15, <2>2 DEF CallsInv, ErrorInv
  <2> QED
    BY <2>1, <2>2 DEF ErrorInv
<1>22. ASSUME NEW r \in Requests
       PROVE  /\ \A c \in wire'[r] : header'[r] # NoScope /\ c.span = header'[r].span
              /\ \A y \in SpansOf(r)' :
                    /\ header'[r] # NoScope => context'[y].span = header'[r].span
                    /\ y \notin creating' => header'[r] # NoScope
              /\ r \in Untraced => header'[r] = NoScope
              /\ r \in Messages /\ outcome'[r] = "new" => header'[r] = NoScope
  <2>1. CASE r = o
    <3>1. ASSUME header[r] # NoScope
          PROVE  id = header[r].span
      <4>1. r \in WebRequests
        BY <1>2, <2>1, <3>1 DEF CallsInv, WireInv, Requests
      <4> QED
        BY <1>2, <2>1, <3>1, <4>1 DEF id, SpanIdFor, AppRuns, InCall
    <3>2. s \in creating' /\ SpansOf(r)' = {s}
      BY <1>8, <1>15, <2>1
    <3> QED
      BY <1>1, <1>6, <1>11, <2>1, <3>1, <3>2 DEF CallsInv, WireInv
  <2>2. CASE r # o
    <3>1. r \in Operations /\ \A y \in SpansOf(r) : y \in Scopes \ {s}
      BY <1>15, <2>2 DEF Operations, SpansOf
    <3> QED
      BY <1>1, <1>6, <1>8, <1>11, <1>15, <2>2, <3>1 DEF CallsInv, WireInv
  <2> QED
    BY <2>1, <2>2
<1>23. WireInv'
  BY <1>22 DEF WireInv
<1>24. OneClientOnThePath'
  <2>1. ASSUME NEW y \in Opened' \ (creating' \cup late'), spanOf'[y] \in Requests, parent'[y] # NoScope
        PROVE  kind'[parent'[y]] # "client"
    <3>1. y # s
      BY <1>6, <1>8, <2>1
    <3>2. y \in Opened \ (creating \cup late) /\ y \in Scopes \ {s} /\ parent[y] \in Scopes \ {s}
      BY <1>1, <1>6, <1>8, <1>16, <2>1, <3>1
    <3>3. kind[parent[y]] # "client"
      BY <1>6, <2>1, <3>2 DEF CallsInv, OneClientOnThePath
    <3> QED
      BY <1>6, <3>2, <3>3
  <2> QED
    BY <2>1 DEF OneClientOnThePath
<1>25. CreatingInv'
  <2>1. ASSUME NEW y \in creating'
        PROVE  /\ spanOf'[y] \in Requests \ Untold /\ outcome'[spanOf'[y]] = "running"
               /\ parent'[y] # NoScope => parent'[y] \in Opened' /\ spanOf'[parent'[y]] = NoScope
    <3>1. CASE y = s
      <4>1. active[f] # NoScope => active[f] \in Opened' /\ spanOf'[active[f]] = NoScope
        BY <1>3, <1>6, <1>7
      <4> QED
        BY <1>4, <1>6, <1>8, <1>11, <2>1, <3>1, <4>1
    <3>2. CASE y # s
      <4>1. y \in creating /\ y \in Opened
        BY <1>3, <1>8, <2>1, <3>2 DEF CallTypes
      <4>2. /\ spanOf[y] \in Requests \ Untold /\ outcome[spanOf[y]] = "running"
            /\ parent[y] # NoScope => parent[y] \in Opened /\ spanOf[parent[y]] = NoScope
        BY <4>1 DEF CallsInv, CreatingInv
      <4>3. spanOf[y] \in Operations \ {o}
        BY <1>2, <4>2 DEF Operations
      <4> QED
        BY <1>6, <1>11, <1>16, <4>1, <4>2, <4>3
    <3> QED
      BY <3>1, <3>2
  <2> QED
    BY <2>1 DEF CreatingInv
<1> QED
  BY <1>12, <1>17, <1>18, <1>19, <1>20, <1>21, <1>23, <1>24, <1>25 DEF CallsInv

\* The span of a request is made: its parent, a span of the application, may
\* lose its kind, and the request's headers get the span's context.
LEMMA CreateOutboundHttpScopeKeeps ==
    ASSUME CallsInv, NEW f \in Flows, NEW o \in Operations, CreateOutboundHttpScope(f, o)
    PROVE  CallsInv'
<1>1. PICK s : s = Innermost(f).scope
  OBVIOUS
<1>2. /\ Innermost(f).op = o /\ s \in creating /\ kind' = ParentCleared(s)
      /\ late' = IF parent[s] \in finished THEN late \cup {s} ELSE late
      /\ creating' = creating \ {s} /\ header' = [header EXCEPT ![o] = context[s]]
      /\ UNCHANGED <<scopeVars, frames, context, spanOf, errors, wire, throwing, outcome>>
  BY <1>1 DEF CreateOutboundHttpScope
<1>3. UNCHANGED <<active, parent, opener, closes, finished, started, inherited, nested>>
  BY <1>2 DEF scopeVars
<1>4. /\ CallTypes /\ Opened' = Opened /\ Opened \subseteq Scopes /\ s \in Opened
      /\ spanOf[s] \in Requests \ Untold /\ outcome[spanOf[s]] = "running"
      /\ parent[s] # NoScope => parent[s] \in Opened /\ spanOf[parent[s]] = NoScope
  BY <1>2, <1>3 DEF CallsInv, CallTypes, CreatingInv, Opened
<1>5. spanOf[s] = o
  <2>1. frames[f] # <<>> /\ Innermost(f) = frames[f][Len(frames[f])]
    BY <1>1, <1>2, <1>4, CallsAssumption, ScopeAssumption DEF Innermost, Last
  <2>2. frames[f] \in Seq(Block) /\ Len(frames[f]) \in 1 .. Len(frames[f])
    BY <1>4, <2>1 DEF CallTypes
  <2>3. BlockInv(f, Len(frames[f])) /\ s # NoScope
    BY <1>4, <2>2, ScopeAssumption DEF CallsInv, FlowInv
  <2> QED
    BY <1>1, <1>2, <2>1, <2>3 DEF BlockInv
<1>6. /\ kind' \in [Scopes -> {"none", "client"}]
      /\ \A y \in Scopes : y # parent[s] => kind'[y] = kind[y]
      /\ \A y \in Scopes : kind'[y] = "client" => kind[y] = "client"
      /\ \A y \in Scopes : y = parent[s] /\ y \notin finished => kind'[y] # "client"
  BY <1>2, <1>4 DEF CallTypes, ParentCleared
<1>7. ScopesKept
  BY <1>2, <1>3, <1>4, <1>6, ScopeAssumption DEF ScopesKept
<1>8. /\ header' \in [Requests -> Contexts \cup {NoScope}] /\ o \in Requests
      /\ context[s] \in Contexts /\ context[s] # NoScope
      /\ header'[o] = context[s] /\ \A r \in Requests \ {o} : header'[r] = header[r]
  BY <1>2, <1>4, <1>5, CallsAssumption DEF CallTypes, Contexts
<1>9. CallTypes'
  BY <1>2, <1>3, <1>4, <1>6, <1>8 DEF CallTypes, ScopeTypeOK
<1>10. ASSUME NEW g \in Flows
       PROVE  FlowInv(g)'
  BY <1>2, <1>3, <1>7, FlowKept DEF CallsInv
<1>11. RunsInv' /\ SpanInv' /\ ErrorInv'
  BY <1>2, <1>3 DEF CallsInv, RunsInv, SpanInv, ErrorInv, SpansOf, Ended
<1>12. \A r : SpansOf(r)' = SpansOf(r)
  BY <1>2 DEF SpansOf
<1>13. SpansOf(o) = {s}
  BY <1>4, <1>5, CallsAssumption DEF CallsInv, SpanInv, SpansOf, Operations
<1>14. WireInv'
  <2>1. ASSUME NEW r \in Requests
        PROVE  /\ \A c \in wire'[r] : header'[r] # NoScope /\ c.span = header'[r].span
               /\ \A y \in SpansOf(r)' :
                     /\ header'[r] # NoScope => context'[y].span = header'[r].span
                     /\ y \notin creating' => header'[r] # NoScope
               /\ r \in Untraced => header'[r] = NoScope
               /\ r \in Messages /\ outcome'[r] = "new" => header'[r] = NoScope
    <3>1. CASE r = o
      <4>1. \A c \in wire[r] : c.span = header[r].span /\ header[r] # NoScope
        BY DEF CallsInv, WireInv
      <4>2. header[r] # NoScope => context[s].span = header[r].span
        BY <1>13, <3>1 DEF CallsInv, WireInv
      <4>3. o \notin Untraced /\ outcome[o] = "running"
        BY <1>4, <1>5 DEF Untold
      <4> QED
        BY <1>2, <1>8, <1>12, <1>13, <3>1, <4>1, <4>2, <4>3
    <3>2. CASE r # o
      <4>1. s \notin SpansOf(r) /\ header'[r] = header[r]
        BY <1>5, <1>8, <3>2 DEF SpansOf
      <4> QED
        BY <1>2, <1>12, <4>1 DEF CallsInv, WireInv
    <3> QED
      BY <3>1, <3>2
  <2> QED
    BY <2>1 DEF WireInv
<1>15. CreatingInv'
  BY <1>2, <1>3, <1>4 DEF CallsInv, CreatingInv
<1>16. OneClientOnThePath'
  <2>1. ASSUME NEW y \in Opened \ (creating' \cup late'), spanOf[y] \in Requests, parent[y] # NoScope
        PROVE  kind'[parent[y]] # "client"
    <3>1. parent[y] \in Scopes
      BY <1>4, <2>1 DEF CallTypes, ScopeTypeOK
    <3>2. CASE y = s
      BY <1>2, <1>6, <2>1, <3>1, <3>2
    <3>3. CASE y # s
      <4>1. y \in Opened \ (creating \cup late)
        BY <1>2, <2>1, <3>3
      <4> QED
        BY <1>6, <2>1, <3>1, <4>1 DEF CallsInv, OneClientOnThePath
    <3> QED
      BY <3>2, <3>3
  <2> QED
    BY <1>2, <1>3, <1>4, <2>1 DEF OneClientOnThePath
<1> QED
  BY <1>9, <1>10, <1>11, <1>14, <1>15, <1>16 DEF CallsInv

\* A wrapper that makes no span: of an operation that is not traced, or inside
\* another wrapper of the same operation.
LEMMA EnterUntracedKeeps ==
    ASSUME CallsInv, NEW f \in Flows, NEW o \in Operations, EnterUntraced(f, o)
    PROVE  CallsInv'
<1> DEFINE x == [op |-> o, scope |-> NoScope]
<1>1. /\ MayEnter(f, o) /\ Skips(f, o) /\ frames' = [frames EXCEPT ![f] = Append(@, x)]
      /\ outcome' = [outcome EXCEPT ![o] = "running"]
      /\ UNCHANGED <<scopeVars, kind, context, spanOf, creating, header, late, errors, wire, throwing>>
  BY DEF EnterUntraced, Enter, Push
<1>2. UNCHANGED <<active, parent, opener, closes, finished, started, inherited, nested>>
  BY <1>1 DEF scopeVars
<1>3. CallTypes /\ FlowInv(f) /\ Shape(frames[f]) /\ frames[f] \in Seq(Block) /\ o # NoScope
  BY CallsAssumption DEF CallsInv, FlowInv, Shape
<1>4. x \in Block /\ x.op = o /\ x.scope = NoScope
  BY DEF Block
<1>5. Opened' = Opened /\ ScopesKept
  BY <1>1, <1>2 DEF Opened, ScopesKept
<1>6. /\ outcome' \in [Operations -> {"new", "running", "returned", "threw"}]
      /\ outcome'[o] = "running" /\ \A q \in Operations \ {o} : outcome'[q] = outcome[q]
  BY <1>1, <1>3 DEF CallTypes
<1>7. /\ f \in started /\ outcome[o] \in {"new", "running"} /\ Shape(Append(frames[f], x))
      /\ Cardinality(BlocksOf(frames[f], o)) < MaxDepth
      /\ \A g \in Flows : \A j \in 1 .. Len(frames[g]) : frames[g][j].op = o => g = f
  <2>1. CASE AppRuns(f) /\ outcome[o] = "new"
    <3>1. /\ \A i \in 1 .. Len(frames[f]) : frames[f][i].op = NoScope
          /\ active[f] # NoScope => spanOf[active[f]] = NoScope
          /\ f \in started
      BY <2>1, Application
    <3>2. o \in Untold
      BY <1>1, <3>1 DEF Skips, ActiveDbScope, ActiveHttpScope, Untold
    <3>3. Shape(Append(frames[f], x))
      <4> HIDE DEF x
      <4> QED
        BY <1>3, <1>4, <3>1, <3>2, ShapeOpened
    <3>4. BlocksOf(frames[f], o) = {}
      BY <1>3, <3>1 DEF BlocksOf
    <3>5. Cardinality(BlocksOf(frames[f], o)) < MaxDepth
      BY <3>4, FS_EmptySet, CallsAssumption
    <3>6. \A g \in Flows : \A j \in 1 .. Len(frames[g]) : frames[g][j].op # o
      BY <1>3, <2>1 DEF CallsInv, RunsInv
    <3> QED
      BY <2>1, <3>1, <3>3, <3>5, <3>6
  <2>2. CASE InCall(f, o) /\ Depth(f, o) < MaxDepth
    <3>1. /\ f \in started /\ frames[f] # <<>> /\ Innermost(f) = frames[f][Len(frames[f])]
          /\ Len(frames[f]) \in 1 .. Len(frames[f]) /\ Innermost(f).op = o /\ outcome[o] = "running"
      BY <2>2, Operation
    <3>2. Shape(Append(frames[f], x))
      BY <1>3, <1>4, <3>1, ShapeNested
    <3>3. Depth(f, o) = Cardinality(BlocksOf(frames[f], o))
      BY <1>3, DepthCounts
    <3>4. \A g \in Flows : \A j \in 1 .. Len(frames[g]) : frames[g][j].op = o => g = f
      BY <1>3, <3>1 DEF CallsInv, RunsInv
    <3> QED
      BY <2>2, <3>1, <3>2, <3>3, <3>4
  <2> QED
    BY <1>1, <2>1, <2>2 DEF MayEnter
<1> HIDE DEF x
<1>8. /\ RunsInv' /\ frames' \in [Flows -> Seq(Block)]
      /\ frames'[f] = Append(frames[f], x) /\ \A g \in Flows \ {f} : frames'[g] = frames[g]
  <2>1. \A q \in Operations : outcome[q] = "running" => outcome'[q] = "running"
    BY <1>6
  <2>2. outcome'[x.op] = "running"
    BY <1>4, <1>6
  <2>3. \A g \in Flows : \A j \in 1 .. Len(frames[g]) : frames[g][j].op = x.op => g = f
    BY <1>4, <1>7
  <2> QED
    BY <1>1, <1>4, <2>1, <2>2, <2>3, RunsPushed
<1>9. CallTypes'
  BY <1>1, <1>2, <1>3, <1>5, <1>6, <1>8 DEF CallTypes, ScopeTypeOK
<1>10. FlowInv(f)'
  <2>1. \A q \in Operations : x.op = q => Cardinality(BlocksOf(frames[f], q)) < MaxDepth
    BY <1>4, <1>7
  <2> QED
    BY <1>2, <1>3, <1>4, <1>5, <1>7, <1>8, <2>1, FlowPushed
<1>11. ASSUME NEW g \in Flows \ {f}
       PROVE  FlowInv(g)'
  BY <1>2, <1>5, <1>8, FlowKept DEF CallsInv
<1>12. SpanInv'
  <2>1. \A q \in Operations : SpansOf(q)' = SpansOf(q)
    BY <1>1 DEF SpansOf
  <2>2. ASSUME NEW q \in Operations
        PROVE  /\ outcome'[q] = "new" \/ q \in Untold => SpansOf(q)' = {}
               /\ q \notin Untold /\ Ended(q)' => SpansOf(q)' # {} /\ SpansOf(q)' \subseteq finished'
    BY <1>2, <1>6, <2>1 DEF CallsInv, SpanInv, Ended
  <2>3. \A s, y \in Scopes : spanOf'[s] # NoScope /\ spanOf'[s] = spanOf'[y] => s = y
    BY <1>1 DEF CallsInv, SpanInv
  <2> QED
    BY <2>2, <2>3 DEF SpanInv
<1>13. ErrorInv'
  <2>1. ASSUME NEW y \in errors', spanOf'[y] # NoScope
        PROVE  outcome'[spanOf'[y]] = "threw"
    <3>1. y \in Scopes /\ y \in errors /\ spanOf'[y] = spanOf[y]
      BY <1>1, <1>3 DEF CallTypes, Opened
    <3>2. outcome[spanOf[y]] = "threw" /\ spanOf[y] \in Operations
      BY <1>3, <2>1, <3>1 DEF CallsInv, ErrorInv, CallTypes
    <3> QED
      BY <1>6, <1>7, <3>1, <3>2
  <2>2. ASSUME NEW q \in Operations, outcome'[q] = "threw"
        PROVE  SpansOf(q)' \subseteq errors'
    BY <1>1, <1>6, <2>2 DEF CallsInv, ErrorInv, SpansOf
  <2> QED
    BY <2>1, <2>2 DEF ErrorInv
<1>14. WireInv'
  <2>1. \A r \in Requests : r \in Operations /\ SpansOf(r)' = SpansOf(r)
    BY <1>1 DEF Operations, SpansOf
  <2>2. \A r \in Requests : outcome'[r] = "new" => outcome[r] = "new"
    BY <1>6, <2>1
  <2> QED
    BY <1>1, <2>1, <2>2 DEF CallsInv, WireInv
<1>15. OneClientOnThePath'
  BY <1>1, <1>2, <1>5 DEF CallsInv, OneClientOnThePath
<1>16. CreatingInv'
  <2>1. Requests \subseteq Operations
    BY DEF Operations
  <2> QED
    BY <1>1, <1>2, <1>5, <1>6, <2>1 DEF CallsInv, CreatingInv
<1> QED
  BY <1>8, <1>9, <1>10, <1>11, <1>12, <1>13, <1>14, <1>15, <1>16 DEF CallsInv

\* Closing the innermost block disposes of its scope, which is the active one,
\* so that the scope below it becomes active again.
LEMMA Closed ==
    ASSUME CallsInv, NEW f \in Flows, frames[f] # <<>>, NEW x, x = frames[f][Len(frames[f])],
           IF x.scope = NoScope THEN UNCHANGED scopeVars ELSE Dispose(f, x.scope),
           Pop(f), UNCHANGED <<kind, context, spanOf>>
    PROVE  /\ Opened' = Opened /\ ScopeTypeOK' /\ parent' = parent /\ started' = started
           /\ finished' = finished \cup ({x.scope} \ {NoScope})
           /\ \A g \in Flows : FlowInv(g)'
           /\ frames' \in [Flows -> Seq(Block)]
           /\ \A g \in Flows : \A i \in 1 .. Len(frames'[g]) :
                 i \in 1 .. Len(frames[g]) /\ frames'[g][i] = frames[g][i]
           /\ Len(frames'[f]) = Len(frames[f]) - 1
<1>1. /\ FlowInv(f) /\ Shape(frames[f]) /\ frames[f] \in Seq(Block) /\ ScopeTypeOK
      /\ frames \in [Flows -> Seq(Block)] /\ frames' = [frames EXCEPT ![f] = Front(@)]
  BY DEF CallsInv, FlowInv, Shape, CallTypes, Pop
<1>2. /\ Front(frames[f]) \in Seq(Block) /\ Len(frames[f]) \in Nat \ {0}
      /\ Len(Front(frames[f])) = Len(frames[f]) - 1
      /\ \A i \in 1 .. Len(frames[f]) - 1 : Front(frames[f])[i] = frames[f][i]
  BY <1>1, Popped
<1>3. /\ frames' \in [Flows -> Seq(Block)] /\ frames'[f] = Front(frames[f])
      /\ \A g \in Flows \ {f} : frames'[g] = frames[g]
  BY <1>1, <1>2
<1>4. ASSUME NEW g \in Flows, NEW i \in 1 .. Len(frames'[g])
      PROVE  i \in 1 .. Len(frames[g]) /\ frames'[g][i] = frames[g][i]
  <2>1. CASE g = f
    <3>1. frames'[g] = Front(frames[f])
      BY <1>3, <2>1
    <3>2. i \in 1 .. Len(frames[f]) - 1 /\ frames[g] = frames[f]
      BY <1>2, <2>1, <3>1
    <3> QED
      BY <1>2, <3>1, <3>2
  <2>2. CASE g # f
    BY <1>3, <1>4, <2>2
  <2> QED
    BY <2>1, <2>2
<1>5. x.scope # NoScope => active[f] = x.scope /\ x.scope \in Scopes
  <2> DEFINE n == Len(frames[f]) - 1
  <2>1. n \in Nat /\ n + 1 = Len(frames[f]) /\ n + 1 \in 1 .. Len(frames[f])
    BY <1>2
  <2>2. Under(frames[f], inherited[f], n + 1, active[f]) /\ frames[f][n + 1] = x /\ x \in Block
    BY <1>1, <2>1 DEF FlowInv
  <2> HIDE DEF n
  <2> QED
    BY <2>1, <2>2, UnderTop DEF Block
<1>6. CASE x.scope = NoScope
  <2>1. UNCHANGED <<active, parent, opener, closes, finished, started, inherited, nested>>
    BY <1>6 DEF scopeVars
  <2>2. Opened' = Opened /\ ScopesKept /\ ScopeTypeOK'
    BY <1>1, <2>1 DEF Opened, ScopesKept, ScopeTypeOK
  <2>3. FlowInv(f)'
    BY <1>1, <1>3, <1>6, <2>1, <2>2, FlowPopped
  <2>4. ASSUME NEW g \in Flows \ {f}
        PROVE  FlowInv(g)'
    BY <1>3, <2>1, <2>2, FlowKept DEF CallsInv
  <2> QED
    BY <1>2, <1>3, <1>4, <1>6, <2>1, <2>2, <2>3, <2>4
<1>7. CASE x.scope # NoScope
  <2> DEFINE s == x.scope
  <2>1. /\ CloseCurrent(f, s) /\ finished' = finished \cup {s}
    BY <1>5, <1>7 DEF Dispose, CloseOther
  <2>2. /\ active' = [active EXCEPT ![f] = parent[s]]
        /\ closes' = [closes EXCEPT ![s] = @ + 1] /\ closes[s] < MaxCloses
        /\ nested' \in BOOLEAN /\ UNCHANGED <<parent, opener, started, inherited>>
    BY <1>1, <2>1 DEF CloseCurrent, MayClose, ScopeTypeOK
  <2>3. s \in Scopes /\ Opened' = Opened
    BY <1>5, <1>7, <2>2 DEF Opened
  <2>4. active'[f] = parent[s] /\ \A g \in Flows \ {f} : active'[g] = active[g]
    BY <1>1, <2>2 DEF ScopeTypeOK
  <2>5. ScopeTypeOK'
    <3>1. closes' \in [Scopes -> 0 .. MaxCloses]
      BY <1>1, <2>2, <2>3, ScopeAssumption DEF ScopeTypeOK
    <3>2. active' \in [Flows -> Scopes \cup {NoScope}]
      BY <1>1, <2>2, <2>3 DEF ScopeTypeOK
    <3>3. finished' \in SUBSET Scopes
      BY <1>1, <2>1, <2>3 DEF ScopeTypeOK
    <3>4. \A g \in Flows : active'[g] \in Opened \cup {NoScope}
      BY <1>1, <2>3, <2>4 DEF ScopeTypeOK
    <3> QED
      BY <1>1, <2>2, <2>3, <3>1, <3>2, <3>3, <3>4 DEF ScopeTypeOK
  <2>6. ScopesKept
    BY <2>2, <2>3 DEF ScopesKept
  <2>7. FlowInv(f)'
    BY <1>1, <1>3, <1>7, <2>2, <2>4, <2>6, FlowPopped
  <2>8. ASSUME NEW g \in Flows \ {f}
        PROVE  FlowInv(g)'
    BY <1>3, <2>2, <2>4, <2>6, FlowKept DEF CallsInv
  <2> QED
    BY <1>2, <1>3, <1>4, <1>7, <2>1, <2>2, <2>3, <2>5, <2>7, <2>8
<1> QED
  BY <1>6, <1>7

\* Closing blocks brings no operation into a second flow.
LEMMA RunsKept ==
    ASSUME CallsInv,
           \A g \in Flows : \A i \in 1 .. Len(frames'[g]) :
              i \in 1 .. Len(frames[g]) /\ frames'[g][i] = frames[g][i]
    PROVE  /\ \A g, h \in Flows : \A i \in 1 .. Len(frames'[g]), j \in 1 .. Len(frames'[h]) :
                 frames'[g][i].op # NoScope => (frames'[g][i].op = frames'[h][j].op => g = h)
           /\ outcome' = outcome => RunsInv'
<1>1. ASSUME NEW g \in Flows, NEW h \in Flows, NEW i \in 1 .. Len(frames'[g]),
             NEW j \in 1 .. Len(frames'[h]), frames'[g][i].op # NoScope
      PROVE  /\ frames'[g][i].op = frames'[h][j].op => g = h
             /\ outcome[frames'[g][i].op] = "running"
  <2>1. /\ i \in 1 .. Len(frames[g]) /\ frames'[g][i] = frames[g][i]
        /\ j \in 1 .. Len(frames[h]) /\ frames'[h][j] = frames[h][j]
    OBVIOUS
  <2>2. /\ frames[g][i].op = frames[h][j].op => g = h
        /\ outcome[frames[g][i].op] = "running"
    BY <1>1, <2>1 DEF CallsInv, RunsInv
  <2> QED
    BY <2>1, <2>2
<1>2. ASSUME outcome' = outcome
      PROVE  RunsInv'
  BY <1>1, <1>2 DEF RunsInv
<1> QED
  BY <1>1, <1>2

\* The application closes a block of its own.
LEMMA EndLocalKeeps ==
    ASSUME CallsInv, NEW f \in Flows, EndLocal(f)
    PROVE  CallsInv'
<1>1. /\ AppRuns(f) /\ frames[f] # <<>> /\ Dispose(f, Innermost(f).scope) /\ Pop(f)
      /\ UNCHANGED <<kind, context, spanOf, creating, errors, header, wire, throwing, outcome, late>>
  BY DEF EndLocal
<1>2. PICK x : x = frames[f][Len(frames[f])]
  OBVIOUS
<1>3. Innermost(f) = x /\ x.scope # NoScope
  BY <1>1, <1>2, Application
<1>4. /\ Opened' = Opened /\ ScopeTypeOK' /\ parent' = parent /\ started' = started
      /\ finished' = finished \cup ({x.scope} \ {NoScope})
      /\ \A g \in Flows : FlowInv(g)'
      /\ frames' \in [Flows -> Seq(Block)]
      /\ \A g \in Flows : \A i \in 1 .. Len(frames'[g]) :
            i \in 1 .. Len(frames[g]) /\ frames'[g][i] = frames[g][i]
  BY <1>1, <1>2, <1>3, Closed
<1>5. CallTypes'
  BY <1>1, <1>4 DEF CallsInv, CallTypes
<1>6. RunsInv'
  BY <1>1, <1>4, RunsKept
<1>7. \A o : SpansOf(o)' = SpansOf(o)
  BY <1>1 DEF SpansOf
<1>8. SpanInv' /\ ErrorInv' /\ WireInv' /\ CreatingInv' /\ OneClientOnThePath'
  BY <1>1, <1>4, <1>7
     DEF CallsInv, SpanInv, ErrorInv, WireInv, CreatingInv, OneClientOnThePath, Ended
<1> QED
  BY <1>4, <1>5, <1>6, <1>8 DEF CallsInv

\* A wrapper ends: the outermost one of an operation, which has its scope, ends
\* the operation, and the others have no say in what is told of it.
LEMMA LeaveKeeps ==
    ASSUME CallsInv, NEW f \in Flows, NEW o \in Operations, NEW how \in {"returned", "threw"},
           Leave(f, o, how), throwing' \subseteq started,
           errors' = IF how = "threw" THEN errors \cup ({Innermost(f).scope} \ {NoScope}) ELSE errors
    PROVE  CallsInv'
<1> DEFINE n == Len(frames[f])
<1>1. PICK x : x = frames[f][n]
  OBVIOUS
<1>2. /\ f \in started /\ Shape(frames[f]) /\ frames[f] # <<>> /\ Innermost(f) = x /\ n \in 1 .. n
      /\ x.op = o /\ outcome[o] = "running" /\ o # NoScope /\ x.scope \notin creating
  BY <1>1, Operation, CallsAssumption DEF Leave, InCall
<1>3. /\ CallTypes /\ frames[f] \in Seq(Block) /\ n \in Nat /\ x \in Block
  BY <1>1, <1>2 DEF CallsInv, Shape
<1>4. /\ Pop(f) /\ UNCHANGED <<kind, context, spanOf, creating, header, wire, late>>
      /\ IF x.scope = NoScope THEN UNCHANGED scopeVars ELSE Dispose(f, x.scope)
      /\ outcome' = IF Depth(f, o) = 1 THEN [outcome EXCEPT ![o] = how] ELSE outcome
  BY <1>2 DEF Leave
<1>5. /\ Opened' = Opened /\ ScopeTypeOK' /\ parent' = parent /\ started' = started
      /\ finished' = finished \cup ({x.scope} \ {NoScope})
      /\ \A g \in Flows : FlowInv(g)'
      /\ frames' \in [Flows -> Seq(Block)] /\ Len(frames'[f]) = n - 1
      /\ \A g \in Flows : \A i \in 1 .. Len(frames'[g]) :
            i \in 1 .. Len(frames[g]) /\ frames'[g][i] = frames[g][i]
  BY <1>1, <1>2, <1>4, Closed
<1>6. x.scope # NoScope => /\ x.scope \in Opened /\ spanOf[x.scope] = o
                          /\ \A i \in 1 .. n : i < n => frames[f][i].op = NoScope
  <2>1. BlockInv(f, n)
    BY <1>2 DEF CallsInv, FlowInv
  <2> QED
    BY <1>1, <1>2, <2>1 DEF BlockInv, Shape
<1>7. \A q : SpansOf(q)' = SpansOf(q)
  BY <1>4 DEF SpansOf
<1>8. x.scope # NoScope => SpansOf(o) = {x.scope} /\ x.scope \notin errors
  <2>1. ASSUME x.scope # NoScope
        PROVE  SpansOf(o) = {x.scope}
    BY <1>2, <1>3, <1>6, <2>1 DEF CallsInv, SpanInv, SpansOf, Opened
  <2>2. ASSUME x.scope # NoScope
        PROVE  x.scope \notin errors
    BY <1>2, <1>6, <2>2 DEF CallsInv, ErrorInv
  <2> QED
    BY <2>1, <2>2
<1>9. errors' \subseteq Opened /\ errors \subseteq errors'
      /\ \A s \in errors' : s \in errors \/ (s = x.scope /\ how = "threw" /\ x.scope # NoScope)
  BY <1>2, <1>3, <1>6 DEF CallTypes
<1>10. outcome' \in [Operations -> {"new", "running", "returned", "threw"}]
       /\ \A q \in Operations \ {o} : outcome'[q] = outcome[q]
  BY <1>3, <1>4 DEF CallTypes
<1>11. CallTypes'
  BY <1>3, <1>4, <1>5, <1>9, <1>10 DEF CallTypes
<1>12. OneClientOnThePath'
  BY <1>4, <1>5 DEF CallsInv, OneClientOnThePath
<1>13. WireInv'
  <2>1. \A r \in Requests : r \in Operations /\ (outcome'[r] = "new" => outcome[r] = "new")
    BY <1>2, <1>3, <1>4, <1>10 DEF CallTypes, Operations
  <2> QED
    BY <1>4, <1>7, <2>1 DEF CallsInv, WireInv
<1>14. Depth(f, o) = 1 <=> \A i \in 1 .. n : frames[f][i].op = o => i = n
  <2>1. Depth(f, o) = Cardinality(BlocksOf(frames[f], o))
    BY <1>3, DepthCounts
  <2> QED
    BY <1>1, <1>2, <1>3, <2>1, OneBlock
<1>15. CASE Depth(f, o) = 1
  <2>1. outcome'[o] = how
    BY <1>3, <1>4, <1>15 DEF CallTypes
  <2>2. o \notin Untold => x.scope # NoScope
    BY <1>1, <1>2, <1>14, <1>15 DEF Shape
  <2>3. ASSUME NEW g \in Flows, NEW i \in 1 .. Len(frames'[g])
        PROVE  frames'[g][i].op # o
    <3>1. CASE g = f
      <4>1. i \in 1 .. n /\ i # n /\ frames'[g][i] = frames[f][i]
        BY <1>3, <1>5, <3>1
      <4> QED
        BY <1>14, <1>15, <4>1
    <3>2. CASE g # f
      BY <1>1, <1>2, <1>5, <3>2 DEF CallsInv, RunsInv
    <3> QED
      BY <3>1, <3>2
  <2>4. RunsInv'
    <3>1. ASSUME NEW g \in Flows, NEW i \in 1 .. Len(frames'[g]), frames'[g][i].op # NoScope
          PROVE  outcome'[frames'[g][i].op] = "running"
      <4>1. /\ frames'[g][i] = frames[g][i] /\ i \in 1 .. Len(frames[g]) /\ frames[g][i] \in Block
            /\ frames[g][i].op # o
        BY <1>3, <1>5, <2>3 DEF CallTypes
      <4>2. frames[g][i].op \in Operations \ {o} /\ outcome[frames[g][i].op] = "running"
        BY <3>1, <4>1 DEF Block, CallsInv, RunsInv
      <4> QED
        BY <1>10, <4>1, <4>2
    <3>2. \A g, h \in Flows : \A i \in 1 .. Len(frames'[g]), j \in 1 .. Len(frames'[h]) :
             frames'[g][i].op # NoScope => (frames'[g][i].op = frames'[h][j].op => g = h)
      BY <1>5, RunsKept
    <3> QED
      BY <3>1, <3>2 DEF RunsInv
  <2>5. SpanInv'
    <3>1. ASSUME NEW q \in Operations
          PROVE  /\ outcome'[q] = "new" \/ q \in Untold => SpansOf(q)' = {}
                 /\ q \notin Untold /\ Ended(q)' => SpansOf(q)' # {} /\ SpansOf(q)' \subseteq finished'
      <4>1. CASE q = o
        BY <1>5, <1>7, <1>8, <2>1, <2>2, <4>1 DEF CallsInv, SpanInv
      <4>2. CASE q # o
        BY <1>5, <1>7, <1>10, <4>2 DEF CallsInv, SpanInv, Ended
      <4> QED
        BY <4>1, <4>2
    <3>2. \A s, y \in Scopes : spanOf'[s] # NoScope /\ spanOf'[s] = spanOf'[y] => s = y
      BY <1>4 DEF CallsInv, SpanInv
    <3> QED
      BY <3>1, <3>2 DEF SpanInv
  <2>6. ErrorInv'
    <3>1. ASSUME NEW y \in errors', spanOf'[y] # NoScope
          PROVE  outcome'[spanOf'[y]] = "threw"
      <4>1. CASE y \in errors
        <5>1. outcome[spanOf[y]] = "threw" /\ spanOf'[y] = spanOf[y] /\ spanOf[y] \in Operations
          BY <1>3, <1>4, <3>1, <4>1 DEF CallsInv, ErrorInv, CallTypes, Opened
        <5> QED
          BY <1>2, <1>10, <5>1
      <4>2. CASE y = x.scope /\ how = "threw" /\ x.scope # NoScope
        BY <1>4, <1>6, <2>1, <4>2
      <4> QED
        BY <1>9, <4>1, <4>2
    <3>2. ASSUME NEW q \in Operations, outcome'[q] = "threw"
          PROVE  SpansOf(q)' \subseteq errors'
      <4>1. CASE q = o
        <5>1. how = "threw" /\ errors' = errors \cup ({x.scope} \ {NoScope})
          BY <1>2, <2>1, <3>2, <4>1
        <5>2. CASE x.scope = NoScope
          BY <1>7, <2>2, <4>1, <5>2 DEF CallsInv, SpanInv
        <5>3. CASE x.scope # NoScope
          BY <1>7, <1>8, <4>1, <5>1, <5>3
        <5> QED
          BY <5>2, <5>3
      <4>2. CASE q # o
        BY <1>7, <1>9, <1>10, <3>2, <4>2 DEF CallsInv, ErrorInv
      <4> QED
        BY <4>1, <4>2
    <3> QED
      BY <3>1, <3>2 DEF ErrorInv
  <2>7. CreatingInv'
    <3>1. ASSUME NEW y \in creating
          PROVE  spanOf[y] \in Operations \ {o}
      <4>1. spanOf[y] \in Requests \ Untold /\ y \in Scopes
        BY <1>3, <3>1 DEF CallsInv, CreatingInv, CallTypes, Opened
      <4>2. spanOf[y] # o
        BY <1>2, <1>8, <2>2, <3>1, <4>1 DEF SpansOf
      <4> QED
        BY <4>1, <4>2 DEF Operations
    <3> QED
      BY <1>4, <1>5, <1>10, <3>1 DEF CallsInv, CreatingInv
  <2> QED
    BY <1>5, <1>11, <1>12, <1>13, <2>4, <2>5, <2>6, <2>7 DEF CallsInv
<1>16. CASE Depth(f, o) # 1
  <2>1. outcome' = outcome
    BY <1>4, <1>16
  <2>2. x.scope = NoScope
    BY <1>2, <1>3, <1>6, <1>14, <1>16
  <2>3. errors' = errors
    BY <1>2, <2>2
  <2>4. RunsInv'
    BY <1>5, <2>1, RunsKept
  <2>5. SpanInv' /\ ErrorInv' /\ CreatingInv'
    BY <1>4, <1>5, <1>7, <2>1, <2>3 DEF CallsInv, SpanInv, ErrorInv, CreatingInv, Ended
  <2> QED
    BY <1>5, <1>11, <1>12, <1>13, <2>4, <2>5 DEF CallsInv
<1> QED
  BY <1>15, <1>16

\* A wrapper returns.
LEMMA ReturnKeeps ==
    ASSUME CallsInv, NEW f \in Flows, NEW o \in Operations, Return(f, o)
    PROVE  CallsInv'
<1>1. /\ Leave(f, o, "returned") /\ errors' = errors /\ throwing' = throwing
      /\ throwing \subseteq started
  BY DEF Return, CallsInv, CallTypes
<1> QED
  BY <1>1, LeaveKeeps

\* Its exception, or one that passes it, is told of and goes on.
LEMMA ThrowKeeps ==
    ASSUME CallsInv, NEW f \in Flows, NEW o \in Operations, Throw(f, o)
    PROVE  CallsInv'
<1>1. /\ Leave(f, o, "threw") /\ errors' = errors \cup ({Innermost(f).scope} \ {NoScope})
      /\ throwing' = throwing \cup {f} /\ throwing \subseteq started
  BY DEF Throw, CallsInv, CallTypes
<1>2. InCall(f, o) /\ o # NoScope
  BY <1>1, CallsAssumption DEF Leave
<1>3. f \in started
  BY <1>2, Operation
<1> QED
  BY <1>1, <1>3, LeaveKeeps

-----------------------------------------------------------------------------
(***************************************************************************)
(* The invariant holds.                                                    *)
(***************************************************************************)

\* In the first state nothing is open and nothing has been called.
LEMMA CallsStart == Init => CallsInv
<1> SUFFICES ASSUME Init PROVE CallsInv
  OBVIOUS
<1>1. /\ ScopeInit /\ NoScope \notin Scopes \cup Flows /\ NoScope \notin Operations
      /\ Requests \subseteq Operations
  BY ScopeAssumption, CallsAssumption DEF Init, Operations
<1>2. Opened = {} /\ errors = {} /\ late = {} /\ creating = {} /\ throwing = {} /\ \A o \in Operations : SpansOf(o) = {}
  BY <1>1 DEF Init, ScopeInit, Opened, SpansOf
<1>3. ScopeTypeOK
  <2>1. 0 \in 0 .. MaxCloses
    BY ScopeAssumption
  <2> QED
    BY <1>1, <1>2, <2>1, ScopeAssumption DEF ScopeTypeOK, ScopeInit
<1>4. CallTypes
  <2>1. <<>> \in Seq(Block)
    OBVIOUS
  <2> QED
    BY <1>1, <1>2, <1>3, <2>1 DEF CallTypes, Init
<1>5. ASSUME NEW f \in Flows
      PROVE  FlowInv(f)
  <2>1. frames[f] = <<>> /\ active[f] = NoScope /\ inherited[f] = NoScope
    BY <1>1 DEF Init, ScopeInit
  <2>2. frames[f] \in Seq(Block) /\ Len(frames[f]) = 0 /\ 1 .. Len(frames[f]) = {}
    BY <2>1
  <2>3. Shape(frames[f])
    BY <2>2 DEF Shape
  <2>4. Under(frames[f], inherited[f], Len(frames[f]), active[f])
    BY <2>1, <2>2 DEF Under
  <2>5. ASSUME NEW o \in Operations
        PROVE  Cardinality(BlocksOf(frames[f], o)) <= MaxDepth
    <3>1. BlocksOf(frames[f], o) = {}
      BY <2>2 DEF BlocksOf
    <3> QED
      BY <3>1, FS_EmptySet, CallsAssumption
  <2> QED
    BY <2>1, <2>2, <2>3, <2>4, <2>5 DEF FlowInv
<1>6. RunsInv
  <2>1. \A f \in Flows : frames[f] = <<>> /\ Len(frames[f]) = 0
    BY DEF Init
  <2> QED
    BY <2>1 DEF RunsInv
<1>7. SpanInv /\ ErrorInv
  BY <1>1, <1>2 DEF SpanInv, ErrorInv, Init, Ended
<1>8. WireInv /\ CreatingInv /\ OneClientOnThePath
  BY <1>1, <1>2 DEF WireInv, CreatingInv, OneClientOnThePath, Init
<1> QED
  BY <1>4, <1>5, <1>6, <1>7, <1>8 DEF CallsInv

\* A step of something else does not matter.
LEMMA Unmoved == CallsInv /\ UNCHANGED vars => CallsInv'
<1> SUFFICES ASSUME CallsInv, UNCHANGED vars PROVE CallsInv'
  OBVIOUS
<1>1. /\ UNCHANGED <<scopeVars, frames, kind, context, spanOf, creating, errors, outcome, late>>
      /\ UNCHANGED <<throwing, header, wire>>
  BY DEF vars, callVars
<1>2. /\ throwing' \subseteq started /\ header' \in [Requests -> Contexts \cup {NoScope}]
      /\ wire' \in [Requests -> SUBSET Contexts]
  BY <1>1 DEF CallsInv, CallTypes
<1>3. WireInv'
  BY <1>1 DEF CallsInv, WireInv, SpansOf
<1> QED
  BY <1>1, <1>2, <1>3, QuietKeeps

\* Every step keeps it, one lemma per action.
LEMMA CallsStep == CallsInv /\ [Next]_vars => CallsInv'
<1> SUFFICES ASSUME CallsInv, [Next]_vars PROVE CallsInv'
  OBVIOUS
<1>1. CASE UNCHANGED vars
  BY <1>1, Unmoved
<1>2. CASE Next
  <2>1. PICK f \in Flows :
          \/ \E s \in Scopes, k \in {"none", "client"} : StartLocal(f, s, k)
          \/ EndLocal(f)
          \/ \E g \in Flows : ForkFlow(f, g)
          \/ \E o \in Operations :
                \/ \E s \in Scopes : EnterTraced(f, o, s)
                \/ CreateOutboundHttpScope(f, o)
                \/ EnterUntraced(f, o)
                \/ BuildFails(f, o)
                \/ Return(f, o)
                \/ Throw(f, o)
          \/ \E o \in WebRequests, sends \in BOOLEAN : GetRequestStream(f, o, sends)
          \/ \E r \in Requests : Transmit(f, r)
          \/ Catch(f)
    BY <1>2 DEF Next
  <2>2. CASE \E s \in Scopes, k \in {"none", "client"} : StartLocal(f, s, k)
    BY <2>2, StartLocalKeeps
  <2>3. CASE EndLocal(f)
    BY <2>3, EndLocalKeeps
  <2>4. CASE \E g \in Flows : ForkFlow(f, g)
    BY <2>4, ForkKeeps
  <2>5. CASE \E o \in Operations, s \in Scopes : EnterTraced(f, o, s)
    BY <2>5, EnterTracedKeeps
  <2>6. CASE \E o \in Operations : EnterUntraced(f, o)
    BY <2>6, EnterUntracedKeeps
  <2>7. CASE \E o \in Operations : BuildFails(f, o)
    BY <2>7, BuildFailsKeeps
  <2>8. CASE \E o \in Operations : Return(f, o)
    BY <2>8, ReturnKeeps
  <2>9. CASE \E o \in Operations : Throw(f, o)
    BY <2>9, ThrowKeeps
  <2>10. CASE \E o \in WebRequests, sends \in BOOLEAN : GetRequestStream(f, o, sends)
    BY <2>10, GetRequestStreamKeeps
  <2>11. CASE \E r \in Requests : Transmit(f, r)
    BY <2>11, TransmitKeeps
  <2>12. CASE Catch(f)
    BY <2>12, CatchKeeps
  <2>13. CASE \E o \in Operations : CreateOutboundHttpScope(f, o)
    BY <2>13, CreateOutboundHttpScopeKeeps
  <2> QED
    BY <2>1, <2>2, <2>3, <2>4, <2>5, <2>6, <2>7, <2>8, <2>9, <2>10, <2>11, <2>12, <2>13
<1> QED
  BY <1>1, <1>2

\* The inductive invariant of the call wrappers.
THEOREM CallsHold == Spec => []CallsInv
<1>1. Init => CallsInv
  BY CallsStart
<1>2. CallsInv /\ [Next]_vars => CallsInv'
  BY CallsStep
<1> QED
  BY <1>1, <1>2, PTL DEF Spec

-----------------------------------------------------------------------------
(***************************************************************************)
(* What the application and the servers rely on.                           *)
(***************************************************************************)

\* The innermost block with a scope, said of all of a flow's blocks.
LEMMA UnderAll ==
    ASSUME NEW b \in Seq(Block), NEW outside, NEW s, Under(b, outside, Len(b), s)
    PROVE  OfInnermost(b, outside, s)
<1>1. DOMAIN b = 1 .. Len(b) /\ Len(b) \in Nat
  OBVIOUS
<1>2. CASE s = outside /\ \A j \in 1 .. Len(b) : b[j].scope = NoScope
  BY <1>1, <1>2 DEF OfInnermost
<1>3. CASE \E i \in 1 .. Len(b) : b[i].scope = s /\ s # NoScope /\ \A j \in i + 1 .. Len(b) : b[j].scope = NoScope
  <2>1. PICK i \in 1 .. Len(b) : b[i].scope = s /\ s # NoScope /\ \A j \in i + 1 .. Len(b) : b[j].scope = NoScope
    BY <1>3
  <2>2. ASSUME NEW j \in 1 .. Len(b), j > i
        PROVE  b[j].scope = NoScope
    <3>1. j \in i + 1 .. Len(b)
      BY <2>2
    <3> QED
      BY <2>1, <3>1
  <2> QED
    BY <1>1, <2>1, <2>2 DEF OfInnermost
<1> QED
  BY <1>2, <1>3 DEF Under

\* Whatever the wrappers do, the application finds the scope it opened last
\* active in each of its flows (Scope.cs lines 41 to 65).
THEOREM Nested == Spec => []CallsNested
<1>1. ASSUME CallsInv PROVE CallsNested
  <2>1. /\ CallTypes /\ \A f \in Flows : FlowInv(f) /\ frames[f] \in Seq(Block)
    BY <1>1 DEF CallsInv, CallTypes
  <2>2. TypeOK
    <3>1. ASSUME NEW f \in Flows
          PROVE  /\ \A i \in DOMAIN frames[f] :
                       frames[f][i] \in [op : Operations \cup {NoScope},
                                         scope : Scopes \cup {NoScope}]
                 /\ \A o \in Operations : Depth(f, o) <= MaxDepth
      <4>1. \A i \in DOMAIN frames[f] : frames[f][i] \in Block
        BY <2>1
      <4>2. \A o \in Operations : Depth(f, o) <= MaxDepth
        BY <2>1, DepthCounts DEF FlowInv
      <4> QED
        BY <4>1, <4>2 DEF Block
    <3> QED
      BY <2>1, <3>1 DEF TypeOK, CallTypes, Contexts
  <2>3. ActiveIsInnermost
    <3>1. started \subseteq Flows
      BY <2>1 DEF CallTypes, ScopeTypeOK
    <3> QED
      BY <2>1, <3>1, UnderAll DEF ActiveIsInnermost, FlowInv
  <2> QED
    BY <2>2, <2>3 DEF CallsNested
<1> QED
  BY <1>1, CallsHold, PTL

\* Every operation is told of once, by a finished span that has the error just
\* when the operation threw, however many wrappers it went through
\* (ScopeFactory.cs lines 99 to 187).
THEOREM Told == Spec => []OperationsTold
<1>1. ASSUME CallsInv PROVE OperationsTold
  <2>1. SpanInv /\ ErrorInv /\ Untold \subseteq Operations
    BY <1>1, CallsAssumption DEF CallsInv, Untold, Operations
  <2>2. ASSUME NEW o \in Operations
        PROVE  Cardinality(SpansOf(o)) <= 1
    <3>1. CASE SpansOf(o) = {}
      BY <3>1, FS_EmptySet
    <3>2. CASE SpansOf(o) # {}
      <4>1. PICK s : s \in SpansOf(o)
        BY <3>2
      <4>2. o # NoScope
        BY CallsAssumption
      <4>3. SpansOf(o) = {s}
        BY <2>1, <4>1, <4>2 DEF SpansOf, SpanInv
      <4> QED
        BY <4>3, FS_Singleton
    <3> QED
      BY <3>1, <3>2
  <2>3. OneSpanPerOperation
    BY <2>1, <2>2 DEF OneSpanPerOperation, SpanInv, Untold
  <2>4. ErrorsMatchOutcome
    <3>1. ASSUME NEW o \in Operations, Ended(o), NEW s \in SpansOf(o)
          PROVE  s \in errors <=> outcome[o] = "threw"
      <4>1. spanOf[s] = o /\ o # NoScope
        BY CallsAssumption DEF SpansOf
      <4> QED
        BY <2>1, <4>1 DEF ErrorInv
    <3> QED
      BY <3>1 DEF ErrorsMatchOutcome
  <2> QED
    BY <2>3, <2>4 DEF OperationsTold
<1> QED
  BY <1>1, CallsHold, PTL

\* Above a request's span that has been made there is no client span, whatever
\* other flows do between StartActive and SetTag, unless they finished that one
\* before it was to be cleared (ScopeFactory.cs lines 125 to 140).
THEOREM OneClient == Spec => []OneClientOnThePath
<1>1. CallsInv => OneClientOnThePath
  BY DEF CallsInv
<1> QED
  BY <1>1, CallsHold, PTL

\* What a server was told of a request is the id of the span recorded for it,
\* also when the stream's headers went out before the span was made
\* (WebRequestIntegration.cs lines 84 to 92 and 160 to 175).
THEOREM WireRecorded == Spec => []WireSpanRecorded
<1>1. ASSUME CallsInv PROVE WireSpanRecorded
  <2>1. /\ SpanInv /\ WireInv
    BY <1>1 DEF CallsInv
  <2>2. ASSUME NEW r \in Requests \ Excluded, Ended(r), NEW c \in wire[r]
        PROVE  \E s \in SpansOf(r) \cap finished : context[s].span = c.span
    <3>1. header[r] # NoScope /\ c.span = header[r].span /\ r \notin Untold /\ r \in Operations
      BY <2>1, <2>2 DEF WireInv, Untold, Operations
    <3>2. PICK s : s \in SpansOf(r) \cap finished
      BY <2>1, <2>2, <3>1 DEF SpanInv
    <3>3. context[s].span = header[r].span
      BY <2>1, <3>2 DEF WireInv
    <3> QED
      BY <3>1, <3>2, <3>3
  <2> QED
    BY <2>2 DEF WireSpanRecorded
<1> QED
  BY <1>1, CallsHold, PTL
=============================================================================
