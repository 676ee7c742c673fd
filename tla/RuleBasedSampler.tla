-------------------------- MODULE RuleBasedSampler --------------------------
(***************************************************************************)
(* The sampler of the tracer: rules by priority, the first that matches a  *)
(* root span gives the rate, and a span within the rate still has to be    *)
(* let through by the rate limiter. Threads that start root spans call it  *)
(* concurrently, with nothing but the limiter's event between them.        *)
(***************************************************************************)
EXTENDS RateLimiter

CONSTANTS CustomRules,   \* rules of SIGNALFX_TRACE_SAMPLING_RULES
          Global,        \* the rule of SIGNALFX_TRACE_SAMPLE_RATE
          Default,       \* DefaultSamplingRule
          Spans,
          Matches,       \* custom rule -> spans its patterns match
          Slow,          \* custom rule -> spans that may exhaust RegexTimeout
          Rate,          \* rule -> rate, on the scale of Hash
          Hash,          \* span -> (TraceId.Lower * KnuthFactor) % MaxTraceId
          MaxCalls       \* bound: calls of GetSamplingPriority per thread

Rules == CustomRules \cup {Global, Default}

ASSUME SamplerAssumption ==
    /\ Global \notin CustomRules /\ Default \notin CustomRules \cup {Global}
    /\ Matches \in [CustomRules -> SUBSET Spans]
    /\ Slow \in [CustomRules -> SUBSET Spans]
    /\ Rate \in [Rules -> Nat] /\ Hash \in [Spans -> Nat]
    /\ MaxCalls \in Nat

VARIABLES rules,      \* _rules
          order,      \* history: the order of the RegisterRule calls
          poisoned,   \* custom rules with _hasPoisonedRegex
          call,       \* thread -> its call of GetSamplingPriority
          decided     \* history: <<span, rule, priority>> of finished calls

samplerVars == <<rules, order, poisoned, call, decided>>
vars == <<limiterVars, samplerVars>>

\* Priority of the rules: custom 1, global 0, default int.MinValue.
Priority(r) == IF r \in CustomRules THEN 1 ELSE IF r = Global THEN 0 ELSE -1

NoCall == [pc |-> "idle", left |-> MaxCalls]

\* The constructor registers the default rule.
Init ==
    /\ LimiterInit
    /\ rules = <<Default>> /\ order = <<Default>>
    /\ poisoned = {} /\ decided = {}
    /\ call = [t \in Threads |-> NoCall]

\* Before the first rule of a lower priority, or at the end.
Inserted(r) ==
    LET i == SelectInSeq(rules, LAMBDA x : Priority(x) < Priority(r))
    IN IF i = 0 THEN Append(rules, r) ELSE InsertAt(rules, i, r)

\* The tracer registers its rules before it starts a span: those of the
\* configuration in any order, then the global one.
RegisterRule(r) ==
    /\ ~Contains(rules, r)
    /\ r = Global => CustomRules \subseteq ToSet(rules)
    /\ rules' = Inserted(r)
    /\ order' = Append(order, r)
    /\ UNCHANGED <<poisoned, call, decided, limiterVars>>

Ready == ToSet(rules) = Rules

GetSamplingPriority(t, s) ==
    /\ Ready
    /\ call[t].pc = "idle" /\ call[t].left > 0
    /\ call' = [call EXCEPT ![t] =
                   [pc |-> "rule", left |-> @.left - 1, span |-> s, rule |-> 1]]
    /\ UNCHANGED <<rules, order, poisoned, decided, limiterVars>>

Rule(t) == rules[call[t].rule]
Span(t) == call[t].span

\* What the patterns of a rule say of a span.
Eligible(r, s) == r \in CustomRules => s \in Matches[r]

IsMatch(t) == Eligible(Rule(t), Span(t))

\* A pattern that runs out of time poisons its rule and is taken to match;
\* the rule's other pattern still has its say.
TimesOut(t) == Rule(t) \in CustomRules /\ Span(t) \in Slow[Rule(t)]

\* A variant in which the time-out is only logged.
PoisonForgotten(r) == UNCHANGED poisoned

Poison(r) == poisoned' = poisoned \cup {r}

Decide(t, priority) ==
    /\ decided' = decided \cup {<<Span(t), Rule(t), priority>>}
    /\ call' = [call EXCEPT ![t] = [pc |-> "idle", left |-> @.left]]

\* The private GetSamplingPriority: the span's hash against the rate, and for
\* a span within the rate the limiter (every rule opts in to it).
ApplyRate(t) ==
    IF Hash[Span(t)] <= Rate[Rule(t)]
    THEN IF AnswersAtOnce
         THEN /\ Decide(t, IF Limit < 0 THEN "AutoKeep" ELSE "AutoReject")
              /\ UNCHANGED limiterVars
         ELSE /\ AllowedCall(t)
              /\ call' = [call EXCEPT ![t].pc = "limiter"]
              /\ UNCHANGED decided
    ELSE Decide(t, "AutoReject") /\ UNCHANGED limiterVars

\* A rule that is poisoned is passed by; the flag is read before the patterns
\* run, and another thread may set it meanwhile.
Advance(t) ==
    /\ call' = [call EXCEPT ![t] =
                   [pc |-> "rule", left |-> @.left, span |-> @.span, rule |-> @.rule + 1]]
    /\ UNCHANGED <<decided, limiterVars>>

TryRule(t) ==
    /\ call[t].pc = "rule"
    /\ IF Rule(t) \in poisoned
       THEN Advance(t)
       ELSE /\ call' = [call EXCEPT ![t].pc = "match"]
            /\ UNCHANGED <<decided, limiterVars>>
    /\ UNCHANGED <<rules, order, poisoned>>

Match(t) ==
    /\ call[t].pc = "match"
    /\ \/ IsMatch(t) /\ ApplyRate(t) /\ UNCHANGED poisoned
       \/ TimesOut(t) /\ (ApplyRate(t) \/ Advance(t)) /\ Poison(Rule(t))
       \/ ~IsMatch(t) /\ Advance(t) /\ UNCHANGED poisoned
    /\ UNCHANGED <<rules, order>>

InLimiter(t) == LimiterStep(t) /\ UNCHANGED samplerVars

LimiterAnswers(t) ==
    /\ AllowedReturns(t)
    /\ Decide(t, IF At(t, "allowed") THEN "AutoKeep" ELSE "AutoReject")
    /\ UNCHANGED <<rules, order, poisoned>>

ClockTicks == Tick /\ UNCHANGED samplerVars

Finished ==
    /\ \A t \in Threads : call[t].pc = "idle" /\ call[t].left = 0
    /\ now = MaxTime
    /\ UNCHANGED vars

Next ==
    \/ \E r \in Rules : RegisterRule(r)
    \/ \E t \in Threads :
          \/ \E s \in Spans : GetSamplingPriority(t, s)
          \/ TryRule(t) \/ Match(t) \/ InLimiter(t) \/ LimiterAnswers(t)
    \/ ClockTicks \/ Finished

Spec == Init /\ [][Next]_vars

\* A thread that runs keeps running.
FairSpec ==
    Spec /\ \A t \in Threads : WF_vars(TryRule(t) \/ Match(t) \/ InLimiter(t) \/ LimiterAnswers(t))

-----------------------------------------------------------------------------
(***************************************************************************)
(* Properties.                                                             *)
(***************************************************************************)

\* The limiter's and the sampler's fields hold what they can hold; the queue
\* never holds more than the limit and one trace for each other thread that
\* counted before it was extended.
TypeOK ==
    /\ now \in 0 .. MaxTime /\ lastRefresh \in 0 .. now /\ refreshSet \in BOOLEAN
    /\ limiter \in [Threads -> [pc : {"out", "wait", "compare", "reset", "peek", "dequeue", "set",
                                     "count", "enqueue", "allowed", "denied"},
                               previous : 0 .. now, started : 0 .. now]]
    /\ intervalQueue \in Seq(0 .. now)
    /\ Len(intervalQueue) <= IF AnswersAtOnce THEN 0 ELSE Limit + Cardinality(Threads) - 1
    /\ poisoned \subseteq CustomRules
    /\ decided \subseteq Spans \X Rules \X {"AutoKeep", "AutoReject"}

\* Rules are tried from the highest priority down and, within a priority, in
\* the order in which they were registered, whatever the configuration's
\* (RegisterRule, RuleBasedSampler.cs lines 62 to 66).
RulesInOrder ==
    \A i, j \in DOMAIN rules : i < j =>
        \/ Priority(rules[i]) > Priority(rules[j])
        \/ /\ Priority(rules[i]) = Priority(rules[j])
           /\ \E k, l \in DOMAIN order :
                 order[k] = rules[i] /\ order[l] = rules[j] /\ k < l

\* A span is decided by a rule that matches it and by no rule behind one that
\* matches it, except for rules that ran out of time ("The first match in a
\* list is used", ConfigurationKeys.cs line 180): concurrent calls, one of
\* which poisons a rule, do not lead another call astray.
FirstMatchDecides ==
    \A d \in decided :
        LET at == CHOOSE i \in DOMAIN rules : rules[i] = d[2] IN
        /\ Eligible(d[2], d[1]) \/ d[2] \in poisoned
        /\ \A i \in 1 .. at - 1 : Eligible(rules[i], d[1]) => rules[i] \in poisoned

\* However the refreshes of different threads interleave, an interval lets
\* through no more than the limit and two traces for each other thread: one
\* that counted before another's Enqueue, and one whose Peek found the entry
\* that another thread dequeued, so that it dequeued a fresh one (RateLimiter.cs
\* lines 56 to 64 and 130 to 133).
OvershootBounded ==
    \A i \in 0 .. MaxTime :
        AdmittedFrom(i) <= IF AnswersAtOnce THEN 0 ELSE Limit + 2 * (Cardinality(Threads) - 1)

\* Every call of GetSamplingPriority comes back: the event is set again by
\* whichever thread cleared it last.
CallsReturn == \A t \in Threads : call[t].pc # "idle" ~> call[t].pc = "idle"

\* The rule list decides as it is documented: in order, by the first match, and
\* with the limiter's queue in its bounds (GetSamplingPriority, lines 34 to 55).
RulesDecide == TypeOK /\ RulesInOrder /\ FirstMatchDecides
=============================================================================
