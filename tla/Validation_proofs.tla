-------------------------- MODULE Validation_proofs ---------------------------
(***************************************************************************)
(* The walk of the validation reaches every template that can be run,      *)
(* although a template that was visited is cut short: the marks form a     *)
(* depth-first search.  A template that is marked is either under way, and *)
(* then the steps it has passed call marked templates only, or it is done, *)
(* and then all of its steps do.  So whatever the operation launches is a  *)
(* template that was checked, and what it mounts and loads fits together.  *)
(***************************************************************************)
EXTENDS AcceptedProperties, SequenceTheorems, FiniteSetTheorems, TLAPS

Called(n) == GetTemplate(wf, n)

(* What validation has made sure of when it enters a template. *)
Sound(n) == OneType(Called(n)) /\ validateInputs(Called(n))

(* All the templates that a template calls are in a set. *)
Closed(n, set) ==
  \A g \in DOMAIN Called(n).steps : \A i \in DOMAIN Called(n).steps[g] :
    Called(n).steps[g][i].template \in set

(* A call under way: what is before its position has been visited. *)
FrameOk(f, set) ==
  /\ DOMAIN f = {"tmpl", "scope", "group", "step"}
  /\ f.group \in Nat /\ f.step \in Nat
  /\ \E n \in set : f.tmpl = Called(n)
  /\ \A g \in DOMAIN f.tmpl.steps : \A i \in DOMAIN f.tmpl.steps[g] :
       g < f.group \/ (g = f.group /\ i < f.step) => f.tmpl.steps[g][i].template \in set

Frames(s, set) ==
  /\ s \in Seq({s[k] : k \in DOMAIN s})
  /\ \A k \in DOMAIN s : FrameOk(s[k], set)

UnderWay(s, n) == \E k \in DOMAIN s : s[k].tmpl = Called(n)

Settled(s, set) == \A n \in set : UnderWay(s, n) \/ Closed(n, set)

TemplatesOk(set) ==
  /\ \A i, j \in DOMAIN wf.templates : wf.templates[i].name = wf.templates[j].name => i = j
  /\ set \subseteq Names(wf.templates)
  /\ \A n \in set : Sound(n)

RootsOk(set, at) ==
  /\ wf.entrypoint \in set
  /\ at # "entrypoint" /\ wf.onExit # NoValue => wf.onExit \in set

WalkAt(set, s, at) ==
  /\ at = "header" => set = {} /\ s = <<>>
  /\ at \notin {"header", "rejected"} =>
       TemplatesOk(set) /\ RootsOk(set, at) /\ Frames(s, set) /\ Settled(s, set)
  /\ at \notin {"header", "entrypoint", "onExit", "rejected"} => s = <<>>

Walk ==
  /\ wf \in Workflows
  /\ Validating => frames = <<>>
  /\ WalkAt(results, stack, stage)

-----------------------------------------------------------------------------
(* Sequences. *)

LEMMA EmptyFrames == ASSUME NEW set PROVE Frames(<<>>, set) /\ \A n : ~UnderWay(<<>>, n)
  BY DEF Frames, UnderWay

LEMMA OwnElements ==
  ASSUME NEW S, NEW p \in Seq(S)
  PROVE  p \in Seq({p[k] : k \in DOMAIN p})
  <1> DEFINE T == {p[k] : k \in DOMAIN p}
  <1>1. p \in [1 .. Len(p) -> S] /\ Len(p) \in Nat
    BY LenProperties
  <1>2. p \in [1 .. Len(p) -> T]
    BY <1>1
  <1> QED
    BY <1>1, <1>2, SeqDef

LEMMA Push ==
  ASSUME NEW s, NEW set, NEW f, Frames(s, set), FrameOk(f, set)
  PROVE  /\ Frames(<<f>> \o s, set)
         /\ \A n : UnderWay(<<f>> \o s, n) <=> f.tmpl = Called(n) \/ UnderWay(s, n)
  <1> DEFINE p == <<f>> \o s
             S == {s[k] : k \in DOMAIN s}
  <1>1. s \in Seq(S) /\ Len(s) \in Nat /\ DOMAIN s = 1 .. Len(s)
    BY DEF Frames
  <1>2. <<f>> \in Seq(S \cup {f}) /\ s \in Seq(S \cup {f})
    BY <1>1
  <1>3. /\ p \in Seq(S \cup {f}) /\ DOMAIN p = 1 .. Len(s) + 1 /\ Len(p) = Len(s) + 1
        /\ p[1] = f /\ \A k \in 1 .. Len(s) : p[k + 1] = s[k]
    BY <1>1, <1>2
  <1> HIDE DEF p
  <1>4. p \in Seq({p[k] : k \in DOMAIN p})
    BY <1>3, OwnElements
  <1>5. ASSUME NEW k \in DOMAIN p PROVE k = 1 \/ (k - 1 \in DOMAIN s /\ p[k] = s[k - 1])
    BY <1>1, <1>3
  <1>6. \A k \in DOMAIN p : FrameOk(p[k], set)
    BY <1>3, <1>5 DEF Frames
  <1>7. ASSUME NEW n PROVE UnderWay(p, n) <=> f.tmpl = Called(n) \/ UnderWay(s, n)
    <2>1. ASSUME UnderWay(p, n) PROVE f.tmpl = Called(n) \/ UnderWay(s, n)
      BY <2>1, <1>3, <1>5 DEF UnderWay
    <2>2. ASSUME f.tmpl = Called(n) PROVE UnderWay(p, n)
      BY <2>2, <1>1, <1>3 DEF UnderWay
    <2>3. ASSUME NEW k \in DOMAIN s, s[k].tmpl = Called(n) PROVE UnderWay(p, n)
      <3>1. k + 1 \in DOMAIN p /\ p[k + 1] = s[k]
        BY <1>1, <1>3
      <3> QED
        BY <2>3, <3>1 DEF UnderWay
    <2> QED
      BY <2>1, <2>2, <2>3 DEF UnderWay
  <1> QED
    BY <1>4, <1>6, <1>7 DEF Frames, p

LEMMA Pop ==
  ASSUME NEW s, NEW set, s # <<>>, Frames(s, set)
  PROVE  /\ Frames(Tail(s), set) /\ FrameOk(Head(s), set)
         /\ \A n : UnderWay(s, n) => Head(s).tmpl = Called(n) \/ UnderWay(Tail(s), n)
  <1> DEFINE p == Tail(s)
             S == {s[k] : k \in DOMAIN s}
  <1>1. s \in Seq(S) /\ Len(s) \in Nat \ {0} /\ DOMAIN s = 1 .. Len(s)
    BY DEF Frames
  <1>2. /\ p \in Seq(S) /\ Len(p) = Len(s) - 1 /\ DOMAIN p = 1 .. Len(s) - 1
        /\ \A k \in 1 .. Len(s) - 1 : p[k] = s[k + 1]
        /\ Head(s) = s[1]
    BY <1>1
  <1> HIDE DEF p, S
  <1>3. p \in Seq({p[k] : k \in DOMAIN p})
    BY <1>2, OwnElements
  <1>4. ASSUME NEW k \in DOMAIN p PROVE k + 1 \in DOMAIN s /\ p[k] = s[k + 1]
    BY <1>1, <1>2
  <1>5. \A k \in DOMAIN p : FrameOk(p[k], set)
    BY <1>4 DEF Frames
  <1>6. 1 \in DOMAIN s
    BY <1>1
  <1>7. FrameOk(Head(s), set)
    BY <1>2, <1>6 DEF Frames
  <1>8. ASSUME NEW n, UnderWay(s, n) PROVE Head(s).tmpl = Called(n) \/ UnderWay(p, n)
    <2>1. PICK k \in DOMAIN s : s[k].tmpl = Called(n)
      BY <1>8 DEF UnderWay
    <2>2. CASE k = 1
      BY <2>1, <2>2, <1>2
    <2>3. CASE k # 1
      <3>1. k - 1 \in DOMAIN p /\ p[k - 1] = s[k]
        BY <2>3, <1>1, <1>2
      <3> QED
        BY <2>1, <3>1 DEF UnderWay
    <2> QED
      BY <2>2, <2>3
  <1> QED
    BY <1>3, <1>5, <1>7, <1>8 DEF Frames, p
-----------------------------------------------------------------------------
(* Templates and calls. *)

LEMMA NamedTemplate ==
  ASSUME wf \in Workflows, NEW n \in Names(wf.templates),
         \A i, j \in DOMAIN wf.templates : wf.templates[i].name = wf.templates[j].name => i = j
  PROVE  /\ Called(n).name = n
         /\ \E i \in DOMAIN wf.templates : Called(n) = wf.templates[i]
  <1>1. IsList(wf.templates)
    BY WorkflowsAssumption DEF IsTemplate
  <1>2. PICK i \in DOMAIN wf.templates : wf.templates[i].name = n
    BY DEF Names
  <1>3. \A j \in 1 .. i - 1 : wf.templates[j].name # n
    BY <1>1, <1>2 DEF IsList
  <1> DEFINE First(k) == /\ wf.templates[k].name = n
                         /\ \A j \in 1 .. k - 1 : wf.templates[j].name # n
             c == CHOOSE k \in DOMAIN wf.templates : First(k)
  <1>4. c \in DOMAIN wf.templates /\ First(c)
    BY <1>2, <1>3
  <1>5. Called(n) = wf.templates[c]
    BY DEF Called, GetTemplate, ByName
  <1> QED
    BY <1>4, <1>5

LEMMA Monotonic ==
  ASSUME NEW small, NEW large, small \subseteq large
  PROVE  /\ \A f : FrameOk(f, small) => FrameOk(f, large)
         /\ \A s : Frames(s, small) => Frames(s, large)
         /\ \A n : Closed(n, small) => Closed(n, large)
  <1>1. \A n : Closed(n, small) => Closed(n, large)
    BY DEF Closed
  <1>2. ASSUME NEW f, FrameOk(f, small) PROVE FrameOk(f, large)
    BY <1>2 DEF FrameOk
  <1> QED
    BY <1>1, <1>2 DEF Frames

(* A call: the template is marked, and under way if it was not marked. *)
LEMMA Call ==
  ASSUME wf \in Workflows, TemplatesOk(results), NEW n \in Names(wf.templates),
         NEW args, NEW known, NEW below, NEW next,
         validateTemplate(Called(n), args, known, below, next), stage' # "rejected",
         Frames(below, results \cup {n}), Settled(below, results)
  PROVE  /\ stage' = next /\ results' = results \cup {n}
         /\ \A m \in results' : Sound(m)
         /\ Frames(stack', results') /\ Settled(stack', results')
  <1> DEFINE t == Called(n)
  <1>1. t.name = n /\ \E i \in DOMAIN wf.templates : t = wf.templates[i]
    BY NamedTemplate DEF TemplatesOk
  <1>2. CASE n \in results
    <2>1. stack' = below /\ stage' = next /\ results' = results /\ results \cup {n} = results
      BY <1>1, <1>2 DEF validateTemplate
    <2> QED
      BY <2>1 DEF TemplatesOk
  <1>3. CASE n \notin results
    <2> DEFINE f == [tmpl |-> t, scope |-> InputScope(t) \cup known, group |-> 1, step |-> 1]
    <2>1. /\ results' = results \cup {n} /\ stack' = <<f>> \o below /\ stage' = next
          /\ Sound(n)
      BY <1>1, <1>3 DEF validateTemplate, Reject, Marked, Sound
    <2>2. FrameOk(f, results')
      <3>1. f.tmpl = Called(n) /\ n \in results'
        BY <2>1
      <3>2. IsList(t.steps) /\ \A g \in DOMAIN t.steps : IsList(t.steps[g])
        BY <1>1, WorkflowsAssumption DEF IsTemplate
      <3>3. \A g \in DOMAIN t.steps : \A i \in DOMAIN t.steps[g] : ~(g < 1 \/ (g = 1 /\ i < 1))
        BY <3>2 DEF IsList
      <3> HIDE DEF t
      <3>4. /\ DOMAIN f = {"tmpl", "scope", "group", "step"}
            /\ f.group = 1 /\ f.step = 1 /\ f.tmpl = t
        OBVIOUS
      <3> QED
        BY <3>1, <3>3, <3>4 DEF FrameOk
    <2> HIDE DEF f
    <2>3. Frames(below, results')
      BY <2>1
    <2>4. /\ Frames(stack', results')
          /\ \A m : UnderWay(stack', m) <=> f.tmpl = Called(m) \/ UnderWay(below, m)
      BY <2>1, <2>2, <2>3, Push
    <2>5. ASSUME NEW m \in results' PROVE UnderWay(stack', m) \/ Closed(m, results')
      <3>1. CASE m = n
        BY <3>1, <2>4 DEF f
      <3>2. CASE m # n
        BY <3>2, <2>1, <2>4, Monotonic DEF Settled
      <3> QED
        BY <3>1, <3>2
    <2> QED
      BY <2>1, <2>4, <2>5 DEF Settled, TemplatesOk
  <1> QED
    BY <1>2, <1>3
-----------------------------------------------------------------------------
(* The steps of the walk. *)

LEMMA WalkPrimed ==
  ASSUME Walk, wf' = wf, frames' = frames, stage \in {"header", "entrypoint", "onExit"},
         WalkAt(results', stack', stage')
  PROVE  Walk'
  <1>1. wf' \in Workflows /\ frames' = <<>>
    BY DEF Walk, Validating
  <1>2. \A set, s, at : WalkAt(set, s, at) => WalkAt(set, s, at)'
    <2>1. \A n : Called(n)' = Called(n)
      BY DEF Called
    <2>2. \A f, set : FrameOk(f, set) => FrameOk(f, set)'
      BY <2>1 DEF FrameOk
    <2>3. \A s, set : Frames(s, set) => Frames(s, set)'
      BY <2>2 DEF Frames
    <2>4. \A s, set : Settled(s, set) => Settled(s, set)'
      BY <2>1 DEF Settled, UnderWay, Closed
    <2>5. \A set : TemplatesOk(set) => TemplatesOk(set)'
      BY <2>1 DEF TemplatesOk, Sound, OneType, validateInputs, PathsFit
    <2>6. \A set, at : RootsOk(set, at) => RootsOk(set, at)'
      BY DEF RootsOk
    <2> QED
      BY <2>3, <2>4, <2>5, <2>6 DEF WalkAt
  <1> QED
    BY <1>1, <1>2 DEF Walk

LEMMA WalkEntrypoint ==
  ASSUME Walk, ValidateEntrypoint, stage' # "rejected"
  PROVE  WalkAt(results', stack', stage')
  <1>1. /\ wf \in Workflows /\ results = {} /\ stack = <<>>
        /\ validateWorkflowFieldNames(wf.templates) /\ wf.entrypoint \in Names(wf.templates)
    BY DEF Walk, WalkAt, ValidateEntrypoint, Reject
  <1> DEFINE n == wf.entrypoint
             known == {GlobalVarWorkflowName, GlobalVarWorkflowUID}
                        \cup {WorkflowParameter(p) : p \in Names(wf.args.params)}
  <1>2. validateTemplate(Called(n), wf.args, known, <<>>, "entrypoint")
    BY <1>1 DEF ValidateEntrypoint, Reject, Called
  <1>3. TemplatesOk(results)
    BY <1>1 DEF TemplatesOk, validateWorkflowFieldNames
  <1>4. Frames(<<>>, results \cup {n}) /\ Settled(<<>>, results)
    BY <1>1, EmptyFrames DEF Settled
  <1> HIDE DEF known
  <1>5. /\ stage' = "entrypoint" /\ results' = results \cup {n}
        /\ \A m \in results' : Sound(m)
        /\ Frames(stack', results') /\ Settled(stack', results')
    BY <1>1, <1>2, <1>3, <1>4, Call
  <1> QED
    BY <1>1, <1>3, <1>5 DEF WalkAt, TemplatesOk, RootsOk

LEMMA WalkOnExit ==
  ASSUME Walk, ValidateOnExit, stage' # "rejected"
  PROVE  WalkAt(results', stack', stage')
  <1>1. /\ wf \in Workflows /\ stack = <<>> /\ TemplatesOk(results)
        /\ RootsOk(results, "entrypoint") /\ Settled(<<>>, results)
    BY DEF Walk, WalkAt, ValidateOnExit
  <1>2. CASE wf.onExit = NoValue
    <2>1. stage' = "accepted" /\ results' = results /\ stack' = <<>>
      BY <1>1, <1>2 DEF ValidateOnExit
    <2>2. Frames(<<>>, results)
      BY EmptyFrames
    <2> QED
      BY <1>1, <1>2, <2>1, <2>2 DEF WalkAt, RootsOk
  <1>3. CASE wf.onExit # NoValue
    <2> DEFINE n == wf.onExit
               known == globals \cup {GlobalVarWorkflowStatus}
    <2>1. n \in Names(wf.templates)
      BY <1>3 DEF ValidateOnExit, Reject
    <2>2. validateTemplate(Called(n), wf.args, known, <<>>, "onExit")
      BY <1>3, <2>1 DEF ValidateOnExit, Called
    <2>3. Frames(<<>>, results \cup {n})
      BY EmptyFrames
    <2> HIDE DEF known
    <2>4. /\ stage' = "onExit" /\ results' = results \cup {n}
          /\ \A m \in results' : Sound(m)
          /\ Frames(stack', results') /\ Settled(stack', results')
      BY <1>1, <2>1, <2>2, <2>3, Call
    <2> QED
      BY <1>1, <2>1, <2>4 DEF WalkAt, TemplatesOk, RootsOk
  <1> QED
    BY <1>2, <1>3

LEMMA WalkAccept ==
  ASSUME Walk, Accept
  PROVE  WalkAt(results', stack', stage')
  BY DEF Walk, WalkAt, Accept, RootsOk

(* The frame that is left has passed all of its steps. *)
LEMMA WalkReturn ==
  ASSUME Walk, ReturnFromTemplate, stage \in {"entrypoint", "onExit"}, stage' # "rejected"
  PROVE  WalkAt(results', stack', stage')
  <1> DEFINE f == Head(stack)
  <1>1. /\ wf \in Workflows /\ stack # <<>> /\ TemplatesOk(results)
        /\ RootsOk(results, stage) /\ Frames(stack, results) /\ Settled(stack, results)
    BY DEF Walk, WalkAt, ReturnFromTemplate
  <1>2. /\ stack' = Tail(stack) /\ results' = results /\ stage' = stage
        /\ "steps" \in f.tmpl.types => f.group > Len(f.tmpl.steps)
    BY DEF ReturnFromTemplate, Reject
  <1>3. /\ Frames(Tail(stack), results) /\ FrameOk(f, results)
        /\ \A n : UnderWay(stack, n) => f.tmpl = Called(n) \/ UnderWay(Tail(stack), n)
    BY <1>1, Pop
  <1> HIDE DEF f
  <1>4. \A g \in DOMAIN f.tmpl.steps : \A i \in DOMAIN f.tmpl.steps[g] :
          f.tmpl.steps[g][i].template \in results
    <2>1. PICK n \in results : f.tmpl = Called(n)
      BY <1>3 DEF FrameOk
    <2>2. \E i \in DOMAIN wf.templates : f.tmpl = wf.templates[i]
      BY <1>1, <2>1, NamedTemplate DEF TemplatesOk
    <2>3. /\ IsList(f.tmpl.steps)
          /\ "steps" \notin f.tmpl.types => f.tmpl.steps = <<>>
      BY <1>1, <2>2, WorkflowsAssumption DEF IsTemplate
    <2>4. CASE "steps" \in f.tmpl.types
      <3>1. \A g \in DOMAIN f.tmpl.steps : g < f.group
        BY <1>2, <1>3, <2>3, <2>4 DEF IsList, FrameOk
      <3> QED
        BY <1>3, <3>1 DEF FrameOk
    <2>5. CASE "steps" \notin f.tmpl.types
      BY <2>3, <2>5
    <2> QED
      BY <2>4, <2>5
  <1>5. Settled(Tail(stack), results)
    BY <1>1, <1>3, <1>4 DEF Settled, Closed
  <1> QED
    BY <1>1, <1>2, <1>3, <1>5 DEF WalkAt

(* A step of the group: the template it calls is marked before the walk    *)
(* comes back behind the step.                                             *)
LEMMA WalkStep ==
  ASSUME Walk, ValidateStep, stage \in {"entrypoint", "onExit"}, stage' # "rejected"
  PROVE  WalkAt(results', stack', stage')
  <1> DEFINE f == Head(stack)
             step == f.tmpl.steps[f.group][f.step]
             n == step.template
             g == WithItems(f, step)
             next == NextStep(g)
             below == <<next>> \o Tail(stack)
  <1>1. /\ wf \in Workflows /\ stack # <<>> /\ TemplatesOk(results)
        /\ RootsOk(results, stage) /\ Frames(stack, results) /\ Settled(stack, results)
    BY DEF Walk, WalkAt, ValidateStep
  <1>2. StepOk(g, f.tmpl.steps[f.group], step)
    BY DEF ValidateStep, Reject
  <1>3. /\ n \in Names(wf.templates)
        /\ validateTemplate(Called(n), step.args, globals, below, stage)
    BY <1>2 DEF ValidateStep, StepOk, Called
  <1>4. /\ Frames(Tail(stack), results) /\ FrameOk(f, results)
        /\ \A m : UnderWay(stack, m) => f.tmpl = Called(m) \/ UnderWay(Tail(stack), m)
    BY <1>1, Pop
  <1> HIDE DEF f
  <1>5. /\ DOMAIN next = {"tmpl", "scope", "group", "step"}
        /\ next.tmpl = f.tmpl /\ next.group = f.group /\ next.step = f.step + 1
    BY <1>4 DEF FrameOk, WithItems, NextStep
  <1> HIDE DEF next, below, g, n, step
  <1>6. FrameOk(next, results \cup {n})
    <2>1. FrameOk(f, results \cup {n})
      BY <1>4, Monotonic
    <2>2. ASSUME NEW h \in DOMAIN f.tmpl.steps, NEW i \in DOMAIN f.tmpl.steps[h],
                 h < next.group \/ (h = next.group /\ i < next.step)
          PROVE  f.tmpl.steps[h][i].template \in results \cup {n}
      <3>1. IsList(f.tmpl.steps) /\ IsList(f.tmpl.steps[h])
        <4>1. PICK m \in results : f.tmpl = Called(m)
          BY <1>4 DEF FrameOk
        <4>2. \E j \in DOMAIN wf.templates : f.tmpl = wf.templates[j]
          BY <1>1, <4>1, NamedTemplate DEF TemplatesOk
        <4> QED
          BY <1>1, <4>2, WorkflowsAssumption DEF IsTemplate
      <3>2. h \in Nat /\ i \in Nat
        BY <3>1 DEF IsList
      <3>3. f.group \in Nat /\ f.step \in Nat
        BY <1>4 DEF FrameOk
      <3>4. CASE h = f.group /\ i = f.step
        BY <3>4 DEF n, step
      <3>5. CASE h < f.group \/ (h = f.group /\ i < f.step)
        BY <2>1, <3>5 DEF FrameOk
      <3>6. h < f.group \/ (h = f.group /\ i < f.step + 1)
        BY <1>5, <2>2
      <3> QED
        BY <3>2, <3>3, <3>4, <3>5, <3>6
    <2> QED
      BY <1>5, <2>1, <2>2 DEF FrameOk
  <1>7. Frames(Tail(stack), results \cup {n})
    BY <1>4, Monotonic
  <1>8. /\ Frames(below, results \cup {n})
        /\ \A m : UnderWay(below, m) <=> next.tmpl = Called(m) \/ UnderWay(Tail(stack), m)
    BY <1>6, <1>7, Push DEF below
  <1>9. Settled(below, results)
    BY <1>1, <1>4, <1>5, <1>8 DEF Settled
  <1>10. /\ stage' = stage /\ results' = results \cup {n}
         /\ \A m \in results' : Sound(m)
         /\ Frames(stack', results') /\ Settled(stack', results')
    BY <1>1, <1>3, <1>8, <1>9, Call
  <1> QED
    BY <1>1, <1>3, <1>10 DEF WalkAt, TemplatesOk, RootsOk

LEMMA WalkNextGroup ==
  ASSUME Walk, ValidateNextGroup, stage \in {"entrypoint", "onExit"}
  PROVE  WalkAt(results', stack', stage')
  <1> DEFINE f == Head(stack)
             next == [f EXCEPT !.group = @ + 1, !.step = 1,
                               !.scope = @ \cup addOutputsToScope(f.tmpl.steps[f.group])]
  <1>1. /\ wf \in Workflows /\ stack # <<>> /\ TemplatesOk(results)
        /\ RootsOk(results, stage) /\ Frames(stack, results) /\ Settled(stack, results)
    BY DEF Walk, WalkAt, ValidateNextGroup
  <1>2. /\ stack' = <<next>> \o Tail(stack) /\ results' = results /\ stage' = stage
        /\ f.step > Len(f.tmpl.steps[f.group])
    BY DEF ValidateNextGroup
  <1>3. /\ Frames(Tail(stack), results) /\ FrameOk(f, results)
        /\ \A m : UnderWay(stack, m) => f.tmpl = Called(m) \/ UnderWay(Tail(stack), m)
    BY <1>1, Pop
  <1> HIDE DEF f
  <1>4. /\ DOMAIN next = {"tmpl", "scope", "group", "step"}
        /\ next.tmpl = f.tmpl /\ next.group = f.group + 1 /\ next.step = 1
    BY <1>3 DEF FrameOk
  <1> HIDE DEF next
  <1>5. FrameOk(next, results)
    <2>1. ASSUME NEW h \in DOMAIN f.tmpl.steps, NEW i \in DOMAIN f.tmpl.steps[h],
                 h < next.group \/ (h = next.group /\ i < next.step)
          PROVE  f.tmpl.steps[h][i].template \in results
      <3>1. IsList(f.tmpl.steps) /\ IsList(f.tmpl.steps[h])
        <4>1. PICK m \in results : f.tmpl = Called(m)
          BY <1>3 DEF FrameOk
        <4>2. \E j \in DOMAIN wf.templates : f.tmpl = wf.templates[j]
          BY <1>1, <4>1, NamedTemplate DEF TemplatesOk
        <4> QED
          BY <1>1, <4>2, WorkflowsAssumption DEF IsTemplate
      <3>2. h \in Nat /\ i \in 1 .. Len(f.tmpl.steps[h]) /\ Len(f.tmpl.steps[h]) \in Nat
        <4>1. DOMAIN f.tmpl.steps = 1 .. Len(f.tmpl.steps)
          BY <3>1 DEF IsList
        <4>2. /\ Len(f.tmpl.steps[h]) \in Nat
              /\ DOMAIN f.tmpl.steps[h] = 1 .. Len(f.tmpl.steps[h])
          BY <3>1 DEF IsList
        <4> QED
          BY <4>1, <4>2
      <3>3. CASE h < f.group
        BY <1>3, <3>3 DEF FrameOk
      <3>4. CASE h = f.group
        <4>1. i < f.step
          BY <1>2, <1>3, <3>2, <3>4 DEF FrameOk
        <4> QED
          BY <1>3, <3>4, <4>1 DEF FrameOk
      <3>5. h < f.group \/ h = f.group
        BY <1>3, <1>4, <2>1, <3>2 DEF FrameOk
      <3> QED
        BY <3>3, <3>4, <3>5
    <2> QED
      BY <1>3, <1>4, <2>1 DEF FrameOk
  <1>6. /\ Frames(stack', results)
        /\ \A m : UnderWay(stack', m) <=> next.tmpl = Called(m) \/ UnderWay(Tail(stack), m)
    BY <1>2, <1>3, <1>5, Push
  <1>7. Settled(stack', results)
    BY <1>1, <1>3, <1>4, <1>6 DEF Settled
  <1> QED
    BY <1>1, <1>2, <1>6, <1>7 DEF WalkAt
-----------------------------------------------------------------------------
LEMMA WalkInit == Init => Walk
  BY DEF Init, ValidationInit, Walk, WalkAt, Validating

LEMMA WalkValidate ==
  ASSUME Walk, Validate, UNCHANGED running
  PROVE  Walk'
  <1>1. /\ stage \in {"header", "entrypoint", "onExit"} /\ wf' = wf /\ frames' = frames
        /\ \/ ValidateEntrypoint \/ ValidateOnExit \/ Accept
           \/ ReturnFromTemplate \/ ValidateStep \/ ValidateNextGroup
    BY DEF Validate, running
  <1>2. stage = "header" => ~ReturnFromTemplate /\ ~ValidateStep /\ ~ValidateNextGroup
    BY DEF Walk, WalkAt, ReturnFromTemplate, ValidateStep, ValidateNextGroup
  <1>3. stage' = "rejected" => WalkAt(results', stack', stage')
    BY DEF WalkAt
  <1>4. WalkAt(results', stack', stage')
    BY <1>1, <1>2, <1>3, WalkEntrypoint, WalkOnExit, WalkAccept, WalkReturn, WalkStep, WalkNextGroup
  <1> QED
    BY <1>1, <1>4, WalkPrimed

(* Once a workflow runs its verdict stands. *)
LEMMA RunsOn ==
  ASSUME Run, stage # "rejected", Validating => frames = <<>>
  PROVE  ~Validating /\ ~Validating' /\ stage' # "rejected"
  <1> DEFINE On(at) == at \notin {"header", "entrypoint", "onExit", "rejected"}
  <1>1. \A why : Fail(why) => On(stage')
    BY DEF Fail
  <1>2. \A below, outputs, part : On(part) /\ Return(below, outputs, part) => On(stage')
    BY DEF Return
  <1>3. \A name, args, known, below, part :
          On(part) /\ executeTemplate(name, args, known, below, part) => On(stage')
    BY <1>1, <1>2 DEF executeTemplate
  <1>4. CASE Operate
    <2>1. On("operating") /\ On(stage)
      BY <1>4 DEF Operate
    <2> QED
      BY <1>1, <1>3, <1>4, <2>1 DEF Operate, Validating
  <1>5. CASE OperateOnExit
    <2>1. On("exit") /\ On(stage)
      BY <1>5 DEF OperateOnExit
    <2> QED
      BY <1>3, <1>5, <2>1 DEF OperateOnExit, Validating
  <1>6. CASE ~Operate /\ ~OperateOnExit
    <2>1. frames # <<>>
      BY <1>6 DEF Run, StartStepGroup, SkipStep, LaunchStep, EndStepGroup,
                  getTemplateOutputsFromScope
    <2>2. On(stage)
      BY <2>1 DEF Validating
    <2>3. StartStepGroup => On(stage')
      BY <1>1, <2>2 DEF StartStepGroup
    <2>4. SkipStep => On(stage')
      BY <1>2, <2>2 DEF SkipStep
    <2>5. LaunchStep => On(stage')
      BY <1>3, <2>2 DEF LaunchStep
    <2>6. EndStepGroup => On(stage')
      BY <1>1, <2>2 DEF EndStepGroup
    <2>7. getTemplateOutputsFromScope => On(stage')
      BY <1>1, <1>2, <2>2 DEF getTemplateOutputsFromScope
    <2>8. On(stage')
      BY <1>6, <2>3, <2>4, <2>5, <2>6, <2>7 DEF Run
    <2> QED
      BY <2>2, <2>8 DEF Validating
  <1> QED
    BY <1>4, <1>5, <1>6

LEMMA WalkRun ==
  ASSUME Walk, stage # "rejected", Run
  PROVE  Walk'
  <1>1. ~Validating /\ ~Validating' /\ stage' # "rejected"
    BY RunsOn DEF Walk
  <1>2. wf' = wf /\ results' = results /\ stack' = stack
    BY DEF Run
  <1>3. /\ TemplatesOk(results) /\ RootsOk(results, "accepted")
        /\ Frames(stack, results) /\ Settled(stack, results) /\ stack = <<>>
    BY <1>1 DEF Walk, WalkAt, Validating, RootsOk
  <1>4. WalkAt(results, stack, "accepted")
    BY <1>3 DEF WalkAt
  <1>5. WalkAt(results, stack, "accepted")'
    BY <1>2, <1>4 DEF WalkAt, TemplatesOk, RootsOk, Frames, FrameOk, Settled, UnderWay, Closed,
                      Called, Sound, OneType
  <1>6. WalkAt(results, stack, stage)'
    BY <1>1, <1>5 DEF WalkAt, Validating, RootsOk
  <1> QED
    BY <1>1, <1>2, <1>6 DEF Walk

LEMMA WalkNext ==
  ASSUME Walk, [Next]_vars
  PROVE  Walk'
  <1>1. CASE Validate /\ UNCHANGED running
    BY <1>1, WalkValidate
  <1>2. CASE stage \notin {"rejected", "done", "error"} /\ Run
    BY <1>2, WalkRun
  <1>3. CASE UNCHANGED vars
    BY <1>3 DEF Walk, WalkAt, TemplatesOk, RootsOk, Frames, FrameOk, Settled, UnderWay, Closed,
                Called, Sound, OneType, Validating, vars, validation, running
  <1> QED
    BY <1>1, <1>2, <1>3 DEF Next

(* No template runs unseen: the templates that were validated are closed   *)
(* under calls, whatever the workflow (validateTemplate, validate.go:91).  *)
THEOREM NoneRunsUnseen == Spec => []EveryCallChecked
  <1>1. Walk /\ [Next]_vars => Walk'
    BY WalkNext
  <1>2. Walk => EveryCallChecked
    <2> SUFFICES ASSUME Walk, stage # "rejected", ~Validating PROVE EveryCallChecked
      BY DEF EveryCallChecked
    <2>1. /\ TemplatesOk(results) /\ RootsOk(results, stage)
          /\ Settled(stack, results) /\ stack = <<>> /\ stage # "entrypoint"
      BY DEF Walk, WalkAt, Validating
    <2>2. \A n \in results : Closed(n, results)
      BY <2>1, EmptyFrames DEF Settled
    <2> QED
      BY <2>1, <2>2 DEF EveryCallChecked, TemplatesOk, Sound, RootsOk, Closed, Called
  <1> QED
    BY WalkInit, <1>1, <1>2, PTL DEF Spec
-----------------------------------------------------------------------------
(* The walk is never in a template twice at the same time: what is on the  *)
(* stack is marked, and what is marked is not entered.                     *)

Once(s) == \A i, j \in DOMAIN s : s[i].tmpl.name = s[j].tmpl.name => i = j

LEMMA PushOnce ==
  ASSUME NEW s, NEW f, IsList(s), Once(s),
         \A k \in DOMAIN s : s[k].tmpl.name # f.tmpl.name
  PROVE  Once(<<f>> \o s)
  <1> DEFINE p == <<f>> \o s
             S == {s[k] : k \in DOMAIN s}
  <1>1. s \in Seq(S) /\ Len(s) \in Nat /\ DOMAIN s = 1 .. Len(s)
    BY DEF IsList
  <1>2. <<f>> \in Seq(S \cup {f}) /\ s \in Seq(S \cup {f})
    BY <1>1
  <1>3. /\ DOMAIN p = 1 .. Len(s) + 1
        /\ p[1] = f /\ \A k \in 1 .. Len(s) : p[k + 1] = s[k]
    BY <1>1, <1>2
  <1> HIDE DEF p, S
  <1>4. \A k \in DOMAIN p : k = 1 \/ (k - 1 \in DOMAIN s /\ p[k] = s[k - 1])
    BY <1>1, <1>3
  <1>5. ASSUME NEW i \in DOMAIN p, NEW j \in DOMAIN p, p[i].tmpl.name = p[j].tmpl.name
        PROVE  i = j
    <2>1. i \in Int /\ j \in Int
      BY <1>1, <1>3
    <2>2. CASE i = 1
      BY <1>3, <1>4, <1>5, <2>2
    <2>3. CASE j = 1
      BY <1>3, <1>4, <1>5, <2>3
    <2>4. CASE i # 1 /\ j # 1
      <3>1. i - 1 = j - 1
        BY <1>4, <1>5, <2>4 DEF Once
      <3> QED
        BY <2>1, <3>1
    <2> QED
      BY <2>2, <2>3, <2>4
  <1> QED
    BY <1>5 DEF Once, p

LEMMA PopOnce ==
  ASSUME NEW s, s # <<>>, IsList(s), Once(s)
  PROVE  /\ Once(Tail(s))
         /\ \A k \in DOMAIN Tail(s) : Tail(s)[k].tmpl.name # Head(s).tmpl.name
  <1> DEFINE p == Tail(s)
             S == {s[k] : k \in DOMAIN s}
  <1>1. s \in Seq(S) /\ Len(s) \in Nat \ {0} /\ DOMAIN s = 1 .. Len(s)
    BY DEF IsList
  <1>2. /\ DOMAIN p = 1 .. Len(s) - 1 /\ Head(s) = s[1]
        /\ \A k \in 1 .. Len(s) - 1 : p[k] = s[k + 1]
    BY <1>1
  <1> HIDE DEF p, S
  <1>3. ASSUME NEW k \in DOMAIN p
        PROVE  k \in Nat /\ k + 1 \in DOMAIN s /\ k + 1 # 1 /\ p[k] = s[k + 1]
    BY <1>1, <1>2
  <1>4. 1 \in DOMAIN s
    BY <1>1
  <1>5. \A k \in DOMAIN p : p[k].tmpl.name # Head(s).tmpl.name
    BY <1>2, <1>3, <1>4 DEF Once
  <1>6. ASSUME NEW i \in DOMAIN p, NEW j \in DOMAIN p, p[i].tmpl.name = p[j].tmpl.name
        PROVE  i = j
    <2>1. i + 1 = j + 1
      BY <1>3, <1>6 DEF Once
    <2> QED
      BY <1>3, <2>1
  <1> QED
    BY <1>5, <1>6 DEF Once, p

LEMMA EmptyOnce == Once(<<>>)
  BY DEF Once

(* What is on the stack is marked. *)
LEMMA MarkedNames ==
  ASSUME wf \in Workflows, NEW set, TemplatesOk(set), NEW s, Frames(s, set), NEW k \in DOMAIN s
  PROVE  s[k].tmpl.name \in set
  <1>1. PICK n \in set : s[k].tmpl = Called(n)
    BY DEF Frames, FrameOk
  <1>2. Called(n).name = n
    BY NamedTemplate DEF TemplatesOk
  <1> QED
    BY <1>1, <1>2

LEMMA CallOnce ==
  ASSUME NEW t, NEW args, NEW known, NEW below, NEW next,
         validateTemplate(t, args, known, below, next), Once(stack), Once(below),
         IsList(below), \A k \in DOMAIN below : below[k].tmpl.name \in results
  PROVE  Once(stack')
  <1>1. CASE stack' \in {below, stack}
    BY <1>1
  <1>2. CASE stack' \notin {below, stack}
    <2> DEFINE f == [tmpl |-> t, scope |-> InputScope(t) \cup known, group |-> 1, step |-> 1]
    <2>1. stack' = <<f>> \o below /\ t.name \notin results
      BY <1>2 DEF validateTemplate, Reject
    <2>2. f.tmpl = t
      OBVIOUS
    <2> QED
      BY <2>1, <2>2, PushOnce
  <1> QED
    BY <1>1, <1>2

(* A frame that moves on is still the frame of its template. *)
LEMMA MoveOnce ==
  ASSUME NEW s, s # <<>>, IsList(s), Once(s), NEW f, f.tmpl = Head(s).tmpl
  PROVE  Once(<<f>> \o Tail(s))
  <1> DEFINE S == {s[k] : k \in DOMAIN s}
  <1>1. IsList(Tail(s))
    <2>1. Tail(s) \in Seq(S)
      BY DEF IsList
    <2> HIDE DEF S
    <2> QED
      BY <2>1, OwnElements DEF IsList
  <1> QED
    BY <1>1, PopOnce, PushOnce

LEMMA StepOnce ==
  ASSUME Walk, Once(stack), ValidateStep, stage \in {"entrypoint", "onExit"}
  PROVE  Once(stack')
  <1> DEFINE f == Head(stack)
             step == f.tmpl.steps[f.group][f.step]
             next == NextStep(WithItems(f, step))
             below == <<next>> \o Tail(stack)
  <1>1. /\ wf \in Workflows /\ stack # <<>> /\ TemplatesOk(results) /\ Frames(stack, results)
        /\ IsList(stack)
    BY DEF Walk, WalkAt, ValidateStep, Frames, IsList
  <1>2. CASE stack' = stack
    BY <1>2
  <1>3. CASE stack' # stack
    <2>1. validateTemplate(GetTemplate(wf, step.template), step.args, globals, below, stage)
      BY <1>3 DEF ValidateStep, Reject
    <2>2. FrameOk(f, results) /\ Frames(Tail(stack), results)
      BY <1>1, Pop
    <2> HIDE DEF f
    <2>3. /\ DOMAIN next = {"tmpl", "scope", "group", "step"} /\ next.tmpl = f.tmpl
          /\ next.group = f.group /\ next.step = f.step + 1
      BY <2>2 DEF FrameOk, WithItems, NextStep
    <2> HIDE DEF step, next
    <2>4. Once(below)
      BY <1>1, <2>3, MoveOnce DEF f
    <2> DEFINE S == {stack[k] : k \in DOMAIN stack}
    <2>5. stack \in Seq(S) /\ Len(stack) \in Nat \ {0} /\ DOMAIN stack = 1 .. Len(stack)
      BY <1>1 DEF Frames
    <2> HIDE DEF S
    <2>6. <<next>> \in Seq(S \cup {next}) /\ Tail(stack) \in Seq(S \cup {next})
      BY <2>5
    <2>7. IsList(below)
      <3>1. below \in Seq(S \cup {next})
        BY <2>6
      <3> HIDE DEF below
      <3> QED
        BY <3>1, OwnElements DEF IsList
    <2>8. /\ DOMAIN below = DOMAIN stack /\ below[1] = next /\ f = stack[1]
          /\ \A k \in 2 .. Len(stack) : below[k] = stack[k]
      BY <2>5, <2>6 DEF f
    <2> HIDE DEF below
    <2>9. ASSUME NEW k \in DOMAIN below
          PROVE  below[k].tmpl.name \in results
      <3>1. k \in DOMAIN stack /\ below[k].tmpl = stack[k].tmpl
        BY <2>3, <2>5, <2>8
      <3> QED
        BY <1>1, <3>1, MarkedNames
    <2> QED
      BY <2>1, <2>4, <2>7, <2>9, CallOnce
  <1> QED
    BY <1>2, <1>3

LEMMA NextGroupOnce ==
  ASSUME Walk, Once(stack), ValidateNextGroup, stage \in {"entrypoint", "onExit"}
  PROVE  Once(stack')
  <1> DEFINE f == Head(stack)
             next == [f EXCEPT !.group = @ + 1, !.step = 1,
                               !.scope = @ \cup addOutputsToScope(f.tmpl.steps[f.group])]
  <1>1. /\ stack # <<>> /\ Frames(stack, results) /\ IsList(stack)
        /\ stack' = <<next>> \o Tail(stack)
    BY DEF Walk, WalkAt, ValidateNextGroup, Frames, IsList
  <1>2. FrameOk(f, results)
    BY <1>1, Pop
  <1> HIDE DEF f
  <1>3. next.tmpl = f.tmpl
    BY <1>2 DEF FrameOk
  <1> HIDE DEF next
  <1> QED
    BY <1>1, <1>3, MoveOnce DEF f

LEMMA RootOnce ==
  ASSUME Walk, Once(stack), ValidateEntrypoint \/ ValidateOnExit
  PROVE  Once(stack')
  <1>1. IsList(<<>>) /\ Once(<<>>)
    BY DEF IsList, Once
  <1>2. CASE \E t, args, known, next : validateTemplate(t, args, known, <<>>, next)
    BY <1>1, <1>2, CallOnce
  <1>3. CASE stack' = stack
    BY <1>3
  <1> QED
    BY <1>2, <1>3 DEF ValidateEntrypoint, ValidateOnExit, Reject

LEMMA NextOnce ==
  ASSUME Walk, Once(stack), [Next]_vars
  PROVE  Once(stack')
  <1>1. CASE Validate
    <2>1. stage = "header" => stack = <<>>
      BY DEF Walk, WalkAt
    <2>2. stage \in {"header", "entrypoint", "onExit"}
      BY <1>1 DEF Validate
    <2>3. CASE ValidateEntrypoint \/ ValidateOnExit
      BY <2>3, RootOnce
    <2>4. CASE ValidateStep
      BY <2>1, <2>2, <2>4, StepOnce DEF ValidateStep
    <2>5. CASE ValidateNextGroup
      BY <2>1, <2>2, <2>5, NextGroupOnce DEF ValidateNextGroup
    <2>6. CASE ReturnFromTemplate
      <3>1. stack # <<>> /\ IsList(stack)
        BY <2>1, <2>2, <2>6 DEF ReturnFromTemplate, Walk, WalkAt, Frames, IsList
      <3> QED
        BY <2>6, <3>1, PopOnce DEF ReturnFromTemplate, Reject
    <2>7. CASE Accept
      BY <2>7 DEF Accept
    <2> QED
      BY <1>1, <2>3, <2>4, <2>5, <2>6, <2>7 DEF Validate
  <1>2. CASE Run \/ UNCHANGED vars
    BY <1>2 DEF Run, vars, validation
  <1> QED
    BY <1>1, <1>2 DEF Next

(* Validation ends: for every workflow, whatever circles its templates     *)
(* call each other in, the walk is never in the same template twice (the   *)
(* map results, validate.go:91), so it is never deeper than there are      *)
(* templates.                                                              *)
THEOREM NoneUnderWayTwice == Spec => []VisitedOnce
  <1>1. Init => Once(stack)
    BY EmptyOnce DEF Init, ValidationInit
  <1>2. Walk /\ Once(stack) /\ [Next]_vars => Walk' /\ Once(stack)'
    BY WalkNext, NextOnce
  <1>3. Once(stack) => VisitedOnce
    BY DEF Once, VisitedOnce
  <1> QED
    BY WalkInit, <1>1, <1>2, <1>3, PTL DEF Spec
-----------------------------------------------------------------------------
(* Where an artifact is put and where it is looked for.                    *)

(* The library's induction rules take an operator; this one does not.      *)
LEMMA LeastElement ==
  ASSUME NEW T, T \subseteq Nat, T # {}
  PROVE  \E k \in T : \A j \in T : k <= j
  <1> DEFINE Upto(k) == 0 .. k
             Family == {Upto(k) : k \in T}
  <1>1. \A k \in T : Upto(k) \subseteq Nat /\ IsFiniteSet(Upto(k))
    BY FS_Interval
  <1>2. Family \subseteq FiniteSubsetsOf(Nat) /\ Family # {}
    BY <1>1 DEF FiniteSubsetsOf
  <1>3. PICK A \in Family : \A B \in Family : <<B, A>> \notin StrictSubsetOrdering(Nat)
    BY <1>2, FS_StrictSubsetOrderingWellFounded, WFMin
  <1>4. PICK k \in T : A = Upto(k)
    BY <1>3
  <1>5. ASSUME NEW j \in T PROVE k <= j
    <2> SUFFICES ASSUME j < k PROVE FALSE
      OBVIOUS
    <2>1. Upto(j) \subseteq Upto(k) /\ k \in Upto(k) /\ k \notin Upto(j)
      OBVIOUS
    <2>2. Upto(j) \in SUBSET Nat /\ Upto(k) \in SUBSET Nat /\ Upto(j) # Upto(k)
      BY <1>1, <2>1
    <2> HIDE DEF Upto
    <2>3. <<Upto(j), Upto(k)>> \in StrictSubsetOrdering(Nat)
      BY <2>1, <2>2 DEF StrictSubsetOrdering
    <2> QED
      BY <1>3, <1>4, <2>3
  <1> QED
    BY <1>5

(* Lists and their elements. *)
LEMMA ListTwo ==
  ASSUME NEW s, NEW t, IsList(s), IsList(t)
  PROVE  \E S : s \in Seq(S) /\ t \in Seq(S) /\ "/" \in S
  <1> DEFINE S == {s[i] : i \in DOMAIN s} \cup {t[i] : i \in DOMAIN t} \cup {"/"}
  <1>1. s \in Seq(S) /\ t \in Seq(S)
    BY DEF IsList
  <1> HIDE DEF S
  <1>2. "/" \in S
    BY DEF S
  <1> QED
    BY <1>1, <1>2

LEMMA ListLength ==
  ASSUME NEW s, IsList(s)
  PROVE  Len(s) \in Nat /\ DOMAIN s = 1 .. Len(s)
  BY DEF IsList

LEMMA ListConcat ==
  ASSUME NEW s, NEW t, IsList(s), IsList(t)
  PROVE  /\ IsList(s \o t) /\ Len(s \o t) = Len(s) + Len(t)
         /\ \A i \in 1 .. Len(s) : (s \o t)[i] = s[i]
         /\ \A i \in 1 .. Len(t) : (s \o t)[Len(s) + i] = t[i]
         /\ ToSet(s \o t) = ToSet(s) \cup ToSet(t)
  <1>1. PICK S : s \in Seq(S) /\ t \in Seq(S)
    BY ListTwo
  <1>2. /\ s \o t \in Seq(S) /\ Len(s \o t) = Len(s) + Len(t)
        /\ Len(s) \in Nat /\ Len(t) \in Nat
        /\ DOMAIN s = 1 .. Len(s) /\ DOMAIN t = 1 .. Len(t)
        /\ DOMAIN (s \o t) = 1 .. Len(s) + Len(t)
        /\ \A i \in 1 .. Len(s) : (s \o t)[i] = s[i]
        /\ \A i \in 1 .. Len(t) : (s \o t)[Len(s) + i] = t[i]
    BY <1>1
  <1> DEFINE p == s \o t
  <1>3. IsList(p)
    <2>1. p \in Seq(S)
      BY <1>2
    <2> HIDE DEF p
    <2> QED
      BY <2>1, OwnElements DEF IsList
  <1> HIDE DEF p
  <1>4. ASSUME NEW k \in DOMAIN p
        PROVE  \/ k \in DOMAIN s /\ p[k] = s[k]
               \/ k - Len(s) \in DOMAIN t /\ p[k] = t[k - Len(s)]
    <2>1. k \in 1 .. Len(s) + Len(t)
      BY <1>2 DEF p
    <2>2. CASE k <= Len(s)
      BY <1>2, <2>1, <2>2 DEF p
    <2>3. CASE k > Len(s)
      <3>1. k - Len(s) \in 1 .. Len(t) /\ k = Len(s) + (k - Len(s))
        BY <1>2, <2>1, <2>3
      <3> QED
        BY <1>2, <3>1 DEF p
    <2> QED
      BY <1>2, <2>1, <2>2, <2>3
  <1>5. ToSet(p) \subseteq ToSet(s) \cup ToSet(t)
    BY <1>4 DEF ToSet
  <1>6. ASSUME NEW k \in DOMAIN s PROVE k \in DOMAIN p /\ p[k] = s[k]
    BY <1>2 DEF p
  <1>7. ASSUME NEW k \in DOMAIN t PROVE Len(s) + k \in DOMAIN p /\ p[Len(s) + k] = t[k]
    BY <1>2 DEF p
  <1>8. ToSet(s) \cup ToSet(t) \subseteq ToSet(p)
    BY <1>6, <1>7 DEF ToSet
  <1> QED
    BY <1>2, <1>3, <1>5, <1>8 DEF p

LEMMA ListMade ==
  ASSUME NEW n \in Nat, NEW s, NEW S, s \in [1 .. n -> S]
  PROVE  IsList(s) /\ Len(s) = n
  <1>1. s \in Seq(S) /\ Len(s) = n
    BY IsASeq, LenProperties, SeqDef
  <1> QED
    BY <1>1, OwnElements DEF IsList

LEMMA ListOne == ASSUME NEW x PROVE IsList(<<x>>) /\ ToSet(<<x>>) = {x} /\ Len(<<x>>) = 1
  <1>1. <<x>> \in Seq({x}) /\ DOMAIN <<x>> = {1} /\ <<x>>[1] = x /\ Len(<<x>>) = 1
    OBVIOUS
  <1>2. IsList(<<x>>)
    BY <1>1, OwnElements DEF IsList
  <1> QED
    BY <1>1, <1>2 DEF ToSet

LEMMA ListNone == IsList(<<>>) /\ ToSet(<<>>) = {}
  BY DEF IsList, ToSet

LEMMA PrefixIs ==
  ASSUME NEW s, NEW t, IsList(s), IsList(t)
  PROVE  IsPrefix(s, t) <=> Len(s) <= Len(t) /\ \A i \in 1 .. Len(s) : s[i] = t[i]
  <1>1. PICK S : s \in Seq(S) /\ t \in Seq(S)
    BY ListTwo
  <1>2. Len(s) \in Nat /\ Len(t) \in Nat
    BY <1>1
  <1>3. CASE Len(s) <= Len(t)
    <2> DEFINE a == SubSeq(s, 1, Len(s))
               b == SubSeq(t, 1, Len(s))
    <2>1. /\ a \in Seq(S) /\ b \in Seq(S) /\ Len(a) = Len(s) /\ Len(b) = Len(s)
          /\ \A i \in 1 .. Len(s) : a[i] = s[i] /\ b[i] = t[i]
      BY <1>1, <1>2, <1>3
    <2> HIDE DEF a, b
    <2>2. a = b <=> \A i \in 1 .. Len(s) : a[i] = b[i]
      BY <2>1, SeqEqual
    <2> QED
      BY <1>3, <2>1, <2>2 DEF IsPrefix, a, b
  <1>4. CASE ~(Len(s) <= Len(t))
    BY <1>4 DEF IsPrefix
  <1> QED
    BY <1>3, <1>4

LEMMA ListEqual ==
  ASSUME NEW s, NEW t, IsList(s), IsList(t), Len(s) = Len(t),
         \A i \in 1 .. Len(s) : s[i] = t[i]
  PROVE  s = t
  <1>1. PICK S : s \in Seq(S) /\ t \in Seq(S)
    BY ListTwo
  <1> QED
    BY <1>1, SeqEqual

LEMMA Enumerated ==
  ASSUME NEW S, IsFiniteSet(S)
  PROVE  IsList(SetToSeq(S)) /\ ToSet(SetToSeq(S)) = S
  <1> DEFINE n == Cardinality(S)
             e == SetToSeq(S)
  <1>1. n \in Nat /\ Bijection(1 .. n, S) # {} /\ Cardinality(1 .. n) = n
    <2>1. n \in Nat /\ Bijection(1 .. n, S) # {}
      BY FS_CardinalityType DEF ExistsBijection
    <2> HIDE DEF n
    <2>2. Cardinality(1 .. n) = n
      BY <2>1, FS_Interval
    <2> QED
      BY <2>1, <2>2
  <1>2. \E f \in [1 .. n -> S] : IsInjective(f)
    BY <1>1 DEF Bijection, Injection
  <1>3. e \in [1 .. n -> S] /\ IsInjective(e)
    BY <1>2 DEF SetToSeq
  <1>4. e \in Injection(1 .. n, S)
    BY <1>3 DEF Injection
  <1> HIDE DEF e
  <1>5. e \in Surjection(1 .. n, S)
    BY <1>1, <1>4, FS_Injection
  <1> QED
    BY <1>1, <1>3, <1>5, ListMade DEF ToSet, Surjection, e
-----------------------------------------------------------------------------
(* Paths. *)

(* A path lies in a directory. *)
LEMMA UnderIs ==
  ASSUME NEW path, NEW dir, IsList(path), IsList(dir)
  PROVE  Under(path, dir) <=>
           \/ path = dir
           \/ /\ Len(dir) < Len(path) /\ path[Len(dir) + 1] = "/"
              /\ \A i \in 1 .. Len(dir) : dir[i] = path[i]
  <1> DEFINE s == dir \o <<"/">>
  <1>1. IsList(<<"/">>) /\ Len(<<"/">>) = 1 /\ <<"/">>[1] = "/"
    BY ListOne
  <1>2. /\ IsList(s) /\ Len(s) = Len(dir) + 1 /\ Len(dir) \in Nat /\ Len(path) \in Nat
        /\ \A i \in 1 .. Len(dir) : s[i] = dir[i]
        /\ s[Len(dir) + 1] = "/"
    BY <1>1, ListConcat, ListLength
  <1> HIDE DEF s
  <1>3. IsPrefix(s, path) <=> Len(s) <= Len(path) /\ \A i \in 1 .. Len(s) : s[i] = path[i]
    BY <1>2, PrefixIs
  <1>4. (\A i \in 1 .. Len(s) : s[i] = path[i]) <=>
          path[Len(dir) + 1] = "/" /\ \A i \in 1 .. Len(dir) : dir[i] = path[i]
    <2>1. \A i \in 1 .. Len(s) : i \in 1 .. Len(dir) \/ i = Len(dir) + 1
      BY <1>2
    <2>2. Len(dir) + 1 \in 1 .. Len(s) /\ \A i \in 1 .. Len(dir) : i \in 1 .. Len(s)
      BY <1>2
    <2> QED
      BY <1>2, <2>1, <2>2
  <1> QED
    BY <1>2, <1>3, <1>4 DEF Under, s

LEMMA UnderAgrees ==
  ASSUME NEW path, NEW dir, IsList(path), IsList(dir), Under(path, dir), NEW i \in 1 .. Len(dir)
  PROVE  dir[i] = path[i]
  BY UnderIs

LEMMA UnderPrefix ==
  ASSUME NEW path, NEW dir, IsList(path), IsList(dir), Under(path, dir)
  PROVE  /\ IsPrefix(dir, path) /\ Len(dir) <= Len(path)
         /\ Len(dir) = Len(path) => dir = path
  BY UnderIs, PrefixIs, ListLength

(* Two prefixes of a path: the shorter is one of the longer. *)
LEMMA PrefixesOfOne ==
  ASSUME NEW path, NEW s, NEW t, IsList(path), IsList(s), IsList(t),
         IsPrefix(s, path), IsPrefix(t, path), Len(s) <= Len(t)
  PROVE  IsPrefix(s, t) /\ (Len(s) = Len(t) => s = t)
  <1>1. Len(s) \in Nat /\ Len(t) \in Nat
    BY ListLength
  <1>2. \A i \in 1 .. Len(s) : s[i] = path[i] /\ t[i] = path[i]
    BY <1>1, PrefixIs
  <1> QED
    BY <1>1, <1>2, PrefixIs, ListEqual

LEMMA MainPath ==
  ASSUME NEW path, IsList(path)
  PROVE  /\ IsList(MainFilesystem \o path) /\ Len(MainFilesystem \o path) = 2 + Len(path)
         /\ (MainFilesystem \o path)[2] = "mainctrfs"
         /\ \A i \in 1 .. 2 : (MainFilesystem \o path)[i] = MainFilesystem[i]
         /\ \A i \in 1 .. Len(path) : (MainFilesystem \o path)[2 + i] = path[i]
  <1> DEFINE m == MainFilesystem
  <1>1. m \in Seq({"/", "mainctrfs"}) /\ Len(m) = 2 /\ m[2] = "mainctrfs"
    BY DEF MainFilesystem
  <1> HIDE DEF m
  <1>2. IsList(m)
    BY <1>1, OwnElements DEF IsList
  <1>3. /\ IsList(m \o path) /\ Len(m \o path) = Len(m) + Len(path)
        /\ \A i \in 1 .. Len(m) : (m \o path)[i] = m[i]
        /\ \A i \in 1 .. Len(path) : (m \o path)[Len(m) + i] = path[i]
    BY <1>2, ListConcat
  <1>4. 2 \in 1 .. Len(m)
    BY <1>1
  <1> QED
    BY <1>1, <1>3, <1>4 DEF m

LEMMA BelowMain ==
  ASSUME NEW path, NEW dir, IsList(path), IsList(dir)
  PROVE  Under(MainFilesystem \o path, MainFilesystem \o dir) <=> Under(path, dir)
  <1> DEFINE p == MainFilesystem \o path
             d == MainFilesystem \o dir
  <1>2. /\ IsList(p) /\ Len(p) = 2 + Len(path) /\ Len(path) \in Nat
        /\ \A i \in 1 .. 2 : p[i] = MainFilesystem[i]
        /\ \A i \in 1 .. Len(path) : p[2 + i] = path[i]
    BY MainPath, ListLength
  <1>3. /\ IsList(d) /\ Len(d) = 2 + Len(dir) /\ Len(dir) \in Nat
        /\ \A i \in 1 .. 2 : d[i] = MainFilesystem[i]
        /\ \A i \in 1 .. Len(dir) : d[2 + i] = dir[i]
    BY MainPath, ListLength
  <1> HIDE DEF p, d
  <1>4. ASSUME Len(dir) <= Len(path)
        PROVE  (\A i \in 1 .. Len(d) : d[i] = p[i]) <=> \A i \in 1 .. Len(dir) : dir[i] = path[i]
    <2>1. ASSUME \A i \in 1 .. Len(d) : d[i] = p[i], NEW i \in 1 .. Len(dir)
          PROVE  dir[i] = path[i]
      <3>1. 2 + i \in 1 .. Len(d) /\ i \in 1 .. Len(path)
        BY <1>2, <1>3, <1>4
      <3>2. d[2 + i] = p[2 + i]
        BY <2>1, <3>1
      <3> QED
        BY <1>2, <1>3, <3>1, <3>2
    <2>2. ASSUME \A i \in 1 .. Len(dir) : dir[i] = path[i], NEW i \in 1 .. Len(d)
          PROVE  d[i] = p[i]
      <3>1. CASE i \in 1 .. 2
        BY <1>2, <1>3, <3>1
      <3>2. CASE i \notin 1 .. 2
        <4>1. i - 2 \in 1 .. Len(dir) /\ i - 2 \in 1 .. Len(path) /\ 2 + (i - 2) = i
          BY <1>2, <1>3, <1>4, <3>2
        <4>2. d[2 + (i - 2)] = dir[i - 2] /\ p[2 + (i - 2)] = path[i - 2]
          BY <1>2, <1>3, <4>1
        <4> QED
          BY <2>2, <4>1, <4>2
      <3> QED
        BY <3>1, <3>2
    <2> QED
      BY <2>1, <2>2
  <1>5. path = dir <=> p = d
    <2>1. ASSUME p = d PROVE path = dir
      <3>1. Len(path) = Len(dir)
        BY <1>2, <1>3, <2>1
      <3> QED
        BY <1>2, <1>3, <1>4, <2>1, <3>1, ListEqual
    <2> QED
      BY <2>1 DEF p, d
  <1>6. Len(dir) < Len(path) => p[Len(d) + 1] = path[Len(dir) + 1]
    <2> SUFFICES ASSUME Len(dir) < Len(path) PROVE p[Len(d) + 1] = path[Len(dir) + 1]
      OBVIOUS
    <2>1. Len(dir) + 1 \in 1 .. Len(path) /\ 2 + (Len(dir) + 1) = Len(d) + 1
      BY <1>2, <1>3
    <2>2. p[2 + (Len(dir) + 1)] = path[Len(dir) + 1]
      BY <1>2, <2>1
    <2> QED
      BY <2>1, <2>2
  <1>7. Len(d) < Len(p) <=> Len(dir) < Len(path)
    BY <1>2, <1>3
  <1>8. Under(path, dir) <=>
           \/ path = dir
           \/ /\ Len(dir) < Len(path) /\ path[Len(dir) + 1] = "/"
              /\ \A i \in 1 .. Len(dir) : dir[i] = path[i]
    BY UnderIs
  <1>9. Under(p, d) <=>
           \/ p = d
           \/ /\ Len(d) < Len(p) /\ p[Len(d) + 1] = "/"
              /\ \A i \in 1 .. Len(d) : d[i] = p[i]
    BY <1>2, <1>3, UnderIs
  <1>10. Len(dir) < Len(path) => Len(dir) <= Len(path)
    BY <1>2, <1>3
  <1> QED
    BY <1>4, <1>5, <1>6, <1>7, <1>8, <1>9, <1>10 DEF p, d

(* What follows a directory in a path, seen from the main file system. *)
LEMMA RestBelowMain ==
  ASSUME NEW path, NEW n, IsList(path), n \in 0 .. Len(path)
  PROVE  SubSeq(MainFilesystem \o path, 2 + n + 1, Len(MainFilesystem \o path))
           = SubSeq(path, n + 1, Len(path))
  <1> DEFINE p == MainFilesystem \o path
             a == SubSeq(p, 2 + n + 1, Len(p))
             b == SubSeq(path, n + 1, Len(path))
  <1>1. IsList(p) /\ Len(p) = 2 + Len(path) /\ \A i \in 1 .. Len(path) : p[2 + i] = path[i]
    BY MainPath
  <1> HIDE DEF p
  <1>2. PICK S : path \in Seq(S) /\ p \in Seq(S)
    BY <1>1, ListTwo
  <1>3. Len(path) \in Nat
    BY <1>2
  <1>4. /\ a \in Seq(S) /\ Len(a) = Len(path) - n
        /\ \A i \in 1 .. Len(path) - n : a[i] = p[2 + n + i]
    BY <1>1, <1>2, <1>3
  <1>5. /\ b \in Seq(S) /\ Len(b) = Len(path) - n
        /\ \A i \in 1 .. Len(path) - n : b[i] = path[n + i]
    BY <1>2, <1>3
  <1> HIDE DEF a, b
  <1>6. ASSUME NEW i \in 1 .. Len(path) - n PROVE a[i] = b[i]
    <2>1. n + i \in 1 .. Len(path) /\ 2 + n + i = 2 + (n + i)
      BY <1>3
    <2> QED
      BY <1>1, <1>3, <1>4, <1>5, <2>1
  <1>7. a = b
    BY <1>4, <1>5, <1>6, SeqEqual
  <1> QED
    BY <1>7 DEF a, b, p
-----------------------------------------------------------------------------
(* The mounts of a pod. *)

LEMMA Deepest ==
  ASSUME NEW C, C # {}, NEW bound \in Nat, \A m \in C : Len(m.path) \in 0 .. bound
  PROVE  \E m \in C : \A o \in C : Len(o.path) <= Len(m.path)
  <1> DEFINE T == {bound - Len(m.path) : m \in C}
  <1>1. T # {} /\ T \subseteq Nat
    OBVIOUS
  <1>2. PICK k \in T : \A j \in T : k <= j
    BY <1>1, LeastElement
  <1>3. PICK m \in C : k = bound - Len(m.path)
    BY <1>2
  <1>4. ASSUME NEW o \in C PROVE Len(o.path) <= Len(m.path)
    <2>1. bound - Len(o.path) \in T
      OBVIOUS
    <2>2. k <= bound - Len(o.path)
      BY <1>2, <2>1
    <2> HIDE DEF T
    <2> QED
      BY <1>3, <2>2
  <1> QED
    BY <1>4

LEMMA OverlapIs ==
  ASSUME NEW t, \A m \in ToSet(t.mounts) : IsMount(m), NEW path, IsList(path)
  PROVE  FindOverlappingVolume(t, path) = NoValue
           <=> \A m \in ToSet(t.mounts) : ~IsPrefix(m.path, path)
  <1> DEFINE found == {m \in ToSet(t.mounts) : IsPrefix(m.path, path)}
  <1>1. CASE found = {}
    BY <1>1 DEF FindOverlappingVolume
  <1>2. CASE found # {}
    <2>1. Len(path) \in Nat
      BY ListLength
    <2>2. \A m \in found : Len(m.path) \in 0 .. Len(path)
      BY <2>1, PrefixIs, ListLength DEF IsMount
    <2>3. \E m \in found : \A o \in found : Len(o.path) <= Len(m.path)
      BY <1>2, <2>1, <2>2, Deepest
    <2>4. FindOverlappingVolume(t, path)
            = CHOOSE m \in found : \A o \in found : Len(o.path) <= Len(m.path)
      BY <1>2 DEF FindOverlappingVolume
    <2>5. FindOverlappingVolume(t, path) \in found
      BY <2>3, <2>4
    <2> QED
      BY <1>2, <2>5 DEF IsMount
  <1> QED
    BY <1>1, <1>2

(* A place in the innermost of the mounts around it. *)
LEMMA PlaceIs ==
  ASSUME NEW mounts, NEW path, NEW m \in Covering(mounts, path),
         \A o \in Covering(mounts, path) :
           o = m \/ (Len(o.path) <= Len(m.path) /\ Len(o.path) # Len(m.path)),
         \A o \in Covering(mounts, path) : Len(o.path) \in Nat
  PROVE  Place(mounts, path)
           = [vol |-> m.vol, at |-> m.sub \o SubSeq(path, Len(m.path) + 1, Len(path))]
  <1> DEFINE C == Covering(mounts, path)
             c == CHOOSE x \in C : \A o \in C : Len(o.path) <= Len(x.path)
  <1>1. m \in C /\ C # {} /\ \A o \in C : Len(o.path) <= Len(m.path)
    OBVIOUS
  <1>2. c \in C /\ \A o \in C : Len(o.path) <= Len(c.path)
    BY <1>1
  <1>3. c = m
    <2> HIDE DEF c
    <2> QED
      BY <1>1, <1>2
  <1> QED
    BY <1>1, <1>3 DEF Place

ArtMount(art) == [vol |-> "input-artifacts", path |-> art.path, sub |-> <<"/", art.name>>]

Free(t) == {i \in DOMAIN t.arts : FindOverlappingVolume(t, t.arts[i].path) = NoValue}

LEMMA ArtifactMountsAre ==
  ASSUME NEW t, IsList(t.arts)
  PROVE  /\ IsList(ArtifactMounts(t))
         /\ ToSet(ArtifactMounts(t)) = {ArtMount(t.arts[i]) : i \in Free(t)}
  <1> DEFINE e == SetToSeq(Free(t))
             M == {ArtMount(t.arts[i]) : i \in Free(t)}
             mounts == [k \in DOMAIN e |-> ArtMount(t.arts[e[k]])]
  <1>1. IsFiniteSet(Free(t))
    <2>1. Len(t.arts) \in Nat /\ DOMAIN t.arts = 1 .. Len(t.arts)
      BY ListLength
    <2>2. IsFiniteSet(DOMAIN t.arts) /\ Free(t) \subseteq DOMAIN t.arts
      BY <2>1, FS_Interval DEF Free
    <2> QED
      BY <2>2, FS_Subset
  <1>2. IsList(e) /\ ToSet(e) = Free(t)
    BY <1>1, Enumerated
  <1>3. Len(e) \in Nat /\ DOMAIN e = 1 .. Len(e)
    BY <1>2, ListLength
  <1>4. ArtifactMounts(t) = mounts
    BY DEF ArtifactMounts, ArtMount, Free
  <1> HIDE DEF e
  <1>5. mounts \in [1 .. Len(e) -> M] /\ DOMAIN mounts = DOMAIN e
        /\ \A k \in DOMAIN e : mounts[k] = ArtMount(t.arts[e[k]])
    BY <1>2, <1>3 DEF ToSet
  <1>6. ToSet(mounts) = M
    <2> HIDE DEF mounts
    <2> QED
      BY <1>2, <1>5 DEF ToSet
  <1> HIDE DEF mounts, M
  <1>7. IsList(mounts)
    BY <1>3, <1>5, ListMade
  <1> QED
    BY <1>4, <1>6, <1>7 DEF M

(* A template as a pod is made of it. *)
Buildable(t) ==
  /\ IsList(t.arts)
  /\ \A i \in DOMAIN t.arts : IsList(t.arts[i].path)
  /\ IsList(t.mounts) /\ \A i \in DOMAIN t.mounts : IsMount(t.mounts[i])
  /\ t.mounts # <<>> => "resource" \notin t.types /\ "script" \notin t.types

Staging(t) == IF "script" \in t.types THEN {Mount("kubetasker-staging", StagingDir)} ELSE {}

LEMMA StagingIs ==
  ASSUME NEW t
  PROVE  LET s == If("script" \in t.types, <<Mount("kubetasker-staging", StagingDir)>>)
         IN  IsList(s) /\ ToSet(s) = Staging(t)
  <1>1. CASE "script" \in t.types
    BY <1>1, ListOne DEF If, Staging
  <1>2. CASE "script" \notin t.types
    BY <1>2, ListNone DEF If, Staging
  <1> QED
    BY <1>1, <1>2

LEMMA MainMountsAre ==
  ASSUME NEW t, Buildable(t)
  PROVE  /\ IsList(MainMounts(t))
         /\ ToSet(MainMounts(t)) = ToSet(OwnMounts(t)) \cup {ArtMount(t.arts[i]) : i \in Free(t)}
                                   \cup Staging(t)
  <1>1. IsList(OwnMounts(t))
    BY ListOne DEF OwnMounts, Buildable
  <1>2. /\ IsList(ArtifactMounts(t))
        /\ ToSet(ArtifactMounts(t)) = {ArtMount(t.arts[i]) : i \in Free(t)}
    BY ArtifactMountsAre DEF Buildable
  <1> DEFINE s == If("script" \in t.types, <<Mount("kubetasker-staging", StagingDir)>>)
  <1>3. IsList(s) /\ ToSet(s) = Staging(t)
    BY StagingIs
  <1>4. MainMounts(t) = (OwnMounts(t) \o ArtifactMounts(t)) \o s
    BY DEF MainMounts
  <1> HIDE DEF s
  <1> DEFINE p == OwnMounts(t) \o ArtifactMounts(t)
  <1>5. IsList(p) /\ ToSet(p) = ToSet(OwnMounts(t)) \cup ToSet(ArtifactMounts(t))
    BY <1>1, <1>2, ListConcat
  <1> HIDE DEF p
  <1>6. IsList(p \o s) /\ ToSet(p \o s) = ToSet(p) \cup ToSet(s)
    BY <1>3, <1>5, ListConcat
  <1> QED
    BY <1>2, <1>3, <1>4, <1>5, <1>6 DEF p

Below(m) == [m EXCEPT !.path = MainFilesystem \o @]

LEMMA InitMountsAre ==
  ASSUME NEW t, Buildable(t), t.arts # <<>>
  PROVE  ToSet(InitMounts(t)) =
           {Mount("podmetadata", MetadataDir), Mount("input-artifacts", ArtifactBase)}
           \cup {Below(m) : m \in ToSet(t.mounts)} \cup Staging(t)
  <1> DEFINE a == <<Mount("podmetadata", MetadataDir)>>
             b == <<Mount("input-artifacts", ArtifactBase)>>
             c == [i \in DOMAIN t.mounts |-> Below(t.mounts[i])]
             d == If("script" \in t.types, <<Mount("kubetasker-staging", StagingDir)>>)
  <1>1. IsList(a) /\ ToSet(a) = {Mount("podmetadata", MetadataDir)}
    BY ListOne
  <1>2. IsList(b) /\ ToSet(b) = {Mount("input-artifacts", ArtifactBase)}
    BY ListOne
  <1>3. IsList(c) /\ ToSet(c) = {Below(m) : m \in ToSet(t.mounts)}
    <2> DEFINE M == {Below(m) : m \in ToSet(t.mounts)}
    <2>1. Len(t.mounts) \in Nat /\ DOMAIN t.mounts = 1 .. Len(t.mounts)
      BY ListLength DEF Buildable
    <2>2. c \in [1 .. Len(t.mounts) -> M] /\ DOMAIN c = DOMAIN t.mounts
          /\ \A i \in DOMAIN t.mounts : c[i] = Below(t.mounts[i])
      BY <2>1 DEF ToSet
    <2> HIDE DEF c
    <2>3. ToSet(c) = M
      BY <2>2 DEF ToSet
    <2> HIDE DEF M
    <2>4. IsList(c)
      BY <2>1, <2>2, ListMade
    <2> QED
      BY <2>3, <2>4 DEF M
  <1>4. IsList(d) /\ ToSet(d) = Staging(t)
    BY StagingIs
  <1>5. InitMounts(t) = (a \o If(t.arts # <<>>, b \o c)) \o d
    BY DEF InitMounts, Below
  <1>6. If(t.arts # <<>>, b \o c) = b \o c
    BY DEF If
  <1> HIDE DEF a, b, c, d
  <1> DEFINE bc == b \o c
             abc == a \o bc
  <1>7. IsList(bc) /\ ToSet(bc) = ToSet(b) \cup ToSet(c)
    BY <1>2, <1>3, ListConcat
  <1> HIDE DEF bc
  <1>8. IsList(abc) /\ ToSet(abc) = ToSet(a) \cup ToSet(bc)
    BY <1>1, <1>7, ListConcat
  <1> HIDE DEF abc
  <1>9. ToSet(abc \o d) = ToSet(abc) \cup ToSet(d)
    BY <1>4, <1>8, ListConcat
  <1>10. InitMounts(t) = abc \o d
    BY <1>5, <1>6 DEF abc, bc
  <1> QED
    BY <1>1, <1>2, <1>3, <1>4, <1>7, <1>8, <1>9, <1>10
-----------------------------------------------------------------------------
(* Where an artifact is loaded to and where it is found. *)

LEMMA InternalPaths ==
  /\ IsList(MetadataDir) /\ Len(MetadataDir) = 4
  /\ MetadataDir[2] = "kubetasker" /\ MetadataDir[4] = "podmetadata"
  /\ IsList(StagingDir) /\ Len(StagingDir) = 4
  /\ StagingDir[2] = "kubetasker" /\ StagingDir[4] = "staging"
  /\ IsList(ArtifactBase) /\ Len(ArtifactBase) = 6
  /\ ArtifactBase[2] = "kubetasker" /\ ArtifactBase[4] = "inputs"
  <1>1. /\ MetadataDir \in Seq({"/", "kubetasker", "podmetadata"}) /\ Len(MetadataDir) = 4
        /\ MetadataDir[2] = "kubetasker" /\ MetadataDir[4] = "podmetadata"
    BY DEF MetadataDir
  <1>2. /\ StagingDir \in Seq({"/", "kubetasker", "staging"}) /\ Len(StagingDir) = 4
        /\ StagingDir[2] = "kubetasker" /\ StagingDir[4] = "staging"
    BY DEF StagingDir
  <1>3. /\ ArtifactBase \in Seq({"/", "kubetasker", "inputs", "artifacts"}) /\ Len(ArtifactBase) = 6
        /\ ArtifactBase[2] = "kubetasker" /\ ArtifactBase[4] = "inputs"
    BY DEF ArtifactBase
  <1>4. \A p : (\E S : p \in Seq(S)) => IsList(p)
    BY OwnElements DEF IsList
  <1>5. IsList(MetadataDir) /\ IsList(StagingDir) /\ IsList(ArtifactBase)
    BY <1>1, <1>2, <1>3, <1>4
  <1> QED
    BY <1>1, <1>2, <1>3, <1>5

(* The path an artifact has below the base of all artifacts. *)
LEMMA BasePath ==
  ASSUME NEW name
  PROVE  LET path == ArtifactBase \o <<"/", name>>
         IN  /\ IsList(path) /\ Len(path) = 8 /\ path[2] = "kubetasker" /\ path[4] = "inputs"
             /\ Under(path, ArtifactBase)
             /\ SubSeq(path, 7, 8) = <<"/", name>>
  <1> DEFINE S == {"/", "kubetasker", "inputs", "artifacts", name}
             end == <<"/", name>>
             path == ArtifactBase \o end
  <1>1. ArtifactBase \in Seq(S) /\ end \in Seq(S)
    BY DEF ArtifactBase
  <1>2. IsList(end) /\ Len(end) = 2 /\ end[1] = "/" /\ end[2] = name
    <2>1. Len(end) = 2 /\ end[1] = "/" /\ end[2] = name
      OBVIOUS
    <2> HIDE DEF end
    <2> QED
      BY <1>1, <2>1, OwnElements DEF IsList
  <1> HIDE DEF S, end
  <1>3. /\ IsList(path) /\ Len(path) = 8
        /\ \A i \in 1 .. 6 : path[i] = ArtifactBase[i]
        /\ path[7] = "/" /\ path[8] = name
    <2> DEFINE b == ArtifactBase
    <2>1. IsList(b) /\ Len(b) = 6
      BY InternalPaths
    <2> HIDE DEF b
    <2>2. IsList(end)
      BY <1>2
    <2>3. /\ IsList(b \o end) /\ Len(b \o end) = Len(b) + Len(end)
          /\ \A i \in 1 .. Len(b) : (b \o end)[i] = b[i]
          /\ \A i \in 1 .. Len(end) : (b \o end)[Len(b) + i] = end[i]
      <3>1. IsList(b)
        BY <2>1
      <3>2. IsList(b \o end)
        BY <2>2, <3>1, ListConcat
      <3>3. Len(b \o end) = Len(b) + Len(end)
        BY <2>2, <3>1, ListConcat
      <3>4. \A i \in 1 .. Len(b) : (b \o end)[i] = b[i]
        BY <2>2, <3>1, ListConcat
      <3>5. \A i \in 1 .. Len(end) : (b \o end)[Len(b) + i] = end[i]
        BY <2>2, <3>1, ListConcat
      <3> QED
        BY <3>2, <3>3, <3>4, <3>5
    <2>4. path = b \o end
      BY DEF b
    <2> HIDE DEF path
    <2>5. path[6 + 1] = "/" /\ path[6 + 2] = name
      BY <1>2, <2>1, <2>3, <2>4
    <2> QED
      BY <1>2, <2>1, <2>3, <2>4, <2>5 DEF b
  <1>4. path \in Seq(S)
    BY <1>1
  <1> HIDE DEF path
  <1>5. Under(path, ArtifactBase)
    <2>1. IsList(ArtifactBase) /\ Len(ArtifactBase) = 6
      BY InternalPaths
    <2>2. Len(ArtifactBase) < Len(path) /\ path[Len(ArtifactBase) + 1] = "/"
      BY <1>3, <2>1
    <2>3. \A i \in 1 .. Len(ArtifactBase) : ArtifactBase[i] = path[i]
      BY <1>3, <2>1
    <2> QED
      BY <1>3, <2>1, <2>2, <2>3, UnderIs
  <1>6. SubSeq(path, 7, 8) = end
    <2> DEFINE s == SubSeq(path, 7, 8)
    <2>0. Len(path) = 8
      BY <1>3
    <2>1. s \in Seq(S) /\ Len(s) = 2 /\ \A i \in 1 .. 2 : s[i] = path[6 + i]
      <3>1. Len(s) = 8 - 7 + 1 /\ s \in Seq(S)
        <4>1. Len(s) = 8 - 7 + 1
          BY <1>4, <2>0
        <4>2. \A i \in 7 .. 8 : path[i] \in S
          <5>1. \A i \in 1 .. Len(path) : path[i] \in S
            BY <1>4
          <5>2. \A i \in 7 .. 8 : i \in 1 .. Len(path)
            BY <2>0
          <5> QED
            BY <5>1, <5>2
        <4>3. 7 \in Int /\ 8 \in Int
          OBVIOUS
        <4> HIDE DEF S
        <4>4. s \in Seq(S)
          BY <4>2, <4>3, SubSeqProperties
        <4> QED
          BY <4>1, <4>4
      <3>2. \A i \in 1 .. 8 - 7 + 1 : s[i] = path[7 + i - 1]
        BY <1>4, <2>0
      <3> QED
        BY <3>1, <3>2
    <2> HIDE DEF s
    <2>2. \A i \in 1 .. Len(s) : s[i] = end[i]
      <3>1. \A i \in 1 .. 2 : i = 1 \/ i = 2
        OBVIOUS
      <3>2. s[1] = path[6 + 1] /\ s[2] = path[6 + 2] /\ 6 + 1 = 7 /\ 6 + 2 = 8
        BY <2>1
      <3> QED
        BY <1>2, <1>3, <2>1, <3>1, <3>2
    <2>3. s = end
      BY <1>1, <1>2, <2>1, <2>2, SeqEqual
    <2> QED
      BY <2>3 DEF s
  <1> QED
    BY <1>3, <1>5, <1>6, InternalPaths DEF path, end

LEMMA PathsDiffer ==
  ASSUME NEW t, PodAccepted(createWorkflowPod(t))
  PROVE  \A m, o \in ToSet(MainMounts(t)) : m.path = o.path => m = o
  <1> DEFINE mounts == MainMounts(t)
             paths == [i \in DOMAIN mounts |-> mounts[i].path]
  <1>1. createWorkflowPod(t).main = mounts
    BY DEF createWorkflowPod
  <1>2. IsInjective(paths)
    BY <1>1 DEF PodAccepted
  <1> HIDE DEF mounts
  <1>3. \A i, j \in DOMAIN mounts : mounts[i].path = mounts[j].path => i = j
    BY <1>2 DEF IsInjective
  <1> QED
    BY <1>3 DEF ToSet, mounts

LEMMA MainLengths ==
  ASSUME NEW t, Buildable(t), NEW m \in ToSet(MainMounts(t))
  PROVE  IsList(m.path) /\ Len(m.path) \in Nat
  <1>1. /\ Mount("podmetadata", MetadataDir).path = MetadataDir
        /\ Mount("kubetasker-staging", StagingDir).path = StagingDir
        /\ \A art : ArtMount(art).path = art.path
    BY DEF Mount, ArtMount
  <1>2. ToSet(OwnMounts(t)) \subseteq ToSet(t.mounts) \cup {Mount("podmetadata", MetadataDir)}
    BY ListOne DEF OwnMounts
  <1>3. IsList(m.path)
    <2>1. CASE m \in ToSet(t.mounts)
      BY <2>1 DEF Buildable, ToSet, IsMount
    <2>2. CASE \E i \in Free(t) : m = ArtMount(t.arts[i])
      BY <2>2, <1>1 DEF Free, Buildable
    <2>3. CASE m \in {Mount("podmetadata", MetadataDir), Mount("kubetasker-staging", StagingDir)}
      BY <2>3, <1>1, InternalPaths
    <2> QED
      BY <1>2, <2>1, <2>2, <2>3, MainMountsAre DEF Staging
  <1> QED
    BY <1>3, ListLength

(* Without an overlap: both containers see the volume of the artifacts. *)
LEMMA InItsVolume ==
  ASSUME NEW t, Buildable(t), PodAccepted(createWorkflowPod(t)), NEW i \in Free(t)
  PROVE  LET loaded == ArtifactBase \o <<"/", t.arts[i].name>>
         IN  /\ Covering(InitMounts(t), loaded) # {}
             /\ Place(InitMounts(t), loaded) = Place(MainMounts(t), t.arts[i].path)
  <1> DEFINE art == t.arts[i]
             path == art.path
             loaded == ArtifactBase \o <<"/", art.name>>
             base == Mount("input-artifacts", ArtifactBase)
             there == [vol |-> "input-artifacts", at |-> <<"/", art.name>>]
  <1>1. /\ i \in DOMAIN t.arts /\ t.arts # <<>> /\ IsList(path) /\ Len(path) \in Nat
    BY ListLength DEF Free, Buildable
  <1>2. Place(MainMounts(t), path) = there
    <2> DEFINE m == ArtMount(art)
    <2>1. m.path = path /\ m.vol = "input-artifacts" /\ m.sub = <<"/", art.name>>
      BY DEF ArtMount
    <2>2. m \in ToSet(MainMounts(t))
      BY MainMountsAre
    <2> HIDE DEF m
    <2>3. m \in Covering(MainMounts(t), path)
      BY <2>1, <2>2 DEF Covering, Under
    <2>4. ASSUME NEW o \in Covering(MainMounts(t), path)
          PROVE  /\ Len(o.path) \in Nat
                 /\ o = m \/ (Len(o.path) <= Len(m.path) /\ Len(o.path) # Len(m.path))
      <3>1. o \in ToSet(MainMounts(t)) /\ Under(path, o.path)
        BY DEF Covering
      <3>2. IsList(o.path) /\ Len(o.path) \in Nat
        BY <3>1, MainLengths
      <3>3. Len(o.path) <= Len(path) /\ (Len(o.path) = Len(path) => o.path = path)
        BY <1>1, <3>1, <3>2, UnderPrefix
      <3> QED
        BY <2>1, <2>2, <3>1, <3>2, <3>3, PathsDiffer
    <2>5. Place(MainMounts(t), path)
            = [vol |-> m.vol, at |-> m.sub \o SubSeq(path, Len(m.path) + 1, Len(path))]
      BY <2>3, <2>4, PlaceIs
    <2>6. SubSeq(path, Len(path) + 1, Len(path)) = <<>>
      BY <1>1 DEF IsList
    <2>7. <<"/", art.name>> \o <<>> = <<"/", art.name>>
      OBVIOUS
    <2> QED
      BY <2>1, <2>5, <2>6, <2>7
  <1>3. /\ IsList(loaded) /\ Len(loaded) = 8 /\ loaded[2] = "kubetasker" /\ loaded[4] = "inputs"
        /\ Under(loaded, ArtifactBase) /\ SubSeq(loaded, 7, 8) = <<"/", art.name>>
    BY BasePath
  <1> HIDE DEF art, path, loaded
  <1>4. base.path = ArtifactBase /\ base.vol = "input-artifacts" /\ base.sub = <<>>
    BY DEF Mount
  <1>5. base \in Covering(InitMounts(t), loaded)
    BY <1>1, <1>3, <1>4, InitMountsAre DEF Covering
  <1>6. ASSUME NEW o \in Covering(InitMounts(t), loaded)
        PROVE  o = base
    <2>1. o \in ToSet(InitMounts(t)) /\ Under(loaded, o.path)
      BY DEF Covering
    <2>2. CASE o = Mount("podmetadata", MetadataDir)
      <3>1. o.path = MetadataDir
        BY <2>2 DEF Mount
      <3>2. IsList(MetadataDir) /\ Len(MetadataDir) = 4
        BY InternalPaths
      <3>3. 4 \in 1 .. Len(MetadataDir) /\ Under(loaded, MetadataDir)
        BY <2>1, <3>1, <3>2
      <3>4. MetadataDir[4] = loaded[4]
        BY <1>3, <3>2, <3>3, UnderAgrees
      <3> QED
        BY <1>3, <3>4, InternalPaths
    <2>3. CASE o = Mount("kubetasker-staging", StagingDir)
      <3>1. o.path = StagingDir
        BY <2>3 DEF Mount
      <3>2. IsList(StagingDir) /\ Len(StagingDir) = 4
        BY InternalPaths
      <3>3. 4 \in 1 .. Len(StagingDir) /\ Under(loaded, StagingDir)
        BY <2>1, <3>1, <3>2
      <3>4. StagingDir[4] = loaded[4]
        BY <1>3, <3>2, <3>3, UnderAgrees
      <3> QED
        BY <1>3, <3>4, InternalPaths
    <2>4. CASE \E m \in ToSet(t.mounts) : o = Below(m)
      <3>1. PICK m \in ToSet(t.mounts) : o = Below(m)
        BY <2>4
      <3>2. IsMount(m)
        BY <3>1 DEF Buildable, ToSet
      <3>3. o.path = MainFilesystem \o m.path
        BY <3>1, <3>2 DEF Below, IsMount
      <3>4. /\ IsList(o.path) /\ Len(o.path) = 2 + Len(m.path) /\ o.path[2] = "mainctrfs"
            /\ Len(m.path) \in Nat
        BY <3>2, <3>3, MainPath, ListLength DEF IsMount
      <3>5. o.path[2] = loaded[2]
        BY <1>3, <2>1, <3>4, UnderIs
      <3> QED
        BY <1>3, <3>4, <3>5
    <2> QED
      BY <1>1, <2>1, <2>2, <2>3, <2>4, InitMountsAre DEF Staging
  <1>7. Len(base.path) = 6
    BY <1>4, InternalPaths
  <1> HIDE DEF base
  <1>8. Place(InitMounts(t), loaded)
          = [vol |-> base.vol, at |-> base.sub \o SubSeq(loaded, Len(base.path) + 1, Len(loaded))]
    <2>1. \A o \in Covering(InitMounts(t), loaded) : Len(o.path) \in Nat
      BY <1>6, <1>7
    <2> QED
      BY <1>5, <1>6, <2>1, PlaceIs
  <1>9. <<>> \o <<"/", art.name>> = <<"/", art.name>>
    OBVIOUS
  <1>10. Len(base.path) + 1 = 7 /\ Len(loaded) = 8
    BY <1>3, <1>7
  <1>11. Place(InitMounts(t), loaded) = there
    BY <1>3, <1>4, <1>8, <1>9, <1>10
  <1> QED
    BY <1>2, <1>5, <1>11 DEF art, path, loaded

LEMMA BelowIs ==
  ASSUME NEW m, IsMount(m)
  PROVE  /\ Below(m).path = MainFilesystem \o m.path /\ Below(m).vol = m.vol
         /\ Below(m).sub = m.sub
         /\ Len(Below(m).path) = 2 + Len(m.path) /\ Len(m.path) \in Nat
         /\ \A path : IsList(path) =>
              (Under(MainFilesystem \o path, Below(m).path) <=> Under(path, m.path))
  <1>1. /\ Below(m).path = MainFilesystem \o m.path /\ Below(m).vol = m.vol
        /\ Below(m).sub = m.sub
    BY DEF Below, IsMount
  <1>2. IsList(m.path)
    BY DEF IsMount
  <1> QED
    BY <1>1, <1>2, MainPath, BelowMain, ListLength

(* The internal mounts of the init container are not below its mount of    *)
(* the user's volumes.                                                     *)
LEMMA NotInternal ==
  ASSUME NEW path, IsList(path), NEW vol, NEW dir \in {MetadataDir, ArtifactBase, StagingDir}
  PROVE  ~Under(MainFilesystem \o path, Mount(vol, dir).path)
  <1>1. Mount(vol, dir).path = dir
    BY DEF Mount
  <1>2. IsList(dir) /\ Len(dir) \in Nat /\ 2 <= Len(dir) /\ dir[2] = "kubetasker"
    BY InternalPaths
  <1> DEFINE p == MainFilesystem \o path
  <1>3. IsList(p) /\ p[2] = "mainctrfs"
    BY MainPath
  <1> HIDE DEF p
  <1>4. 2 \in 1 .. Len(dir)
    BY <1>2
  <1>5. ~Under(p, dir)
    BY <1>2, <1>3, <1>4, UnderIs
  <1> QED
    BY <1>1, <1>5 DEF p

(* With an overlap: the user's volume that the main container sees at the  *)
(* path is the one that the init container sees below its own mount of it, *)
(* and no other artifact is mounted deeper, or it would overlap as well.   *)
LEMMA InTheUsersVolume ==
  ASSUME NEW t, Buildable(t), PodAccepted(createWorkflowPod(t)),
         NEW i \in DOMAIN t.arts, i \notin Free(t),
         \A m \in ToSet(t.mounts) :
           IsPrefix(m.path, t.arts[i].path) => Under(t.arts[i].path, m.path)
  PROVE  LET loaded == MainFilesystem \o t.arts[i].path
         IN  /\ Covering(InitMounts(t), loaded) # {}
             /\ Place(InitMounts(t), loaded) = Place(MainMounts(t), t.arts[i].path)
  <1> DEFINE path == t.arts[i].path
             loaded == MainFilesystem \o path
             found == {m \in ToSet(t.mounts) : IsPrefix(m.path, path)}
  <1>1. IsList(path) /\ Len(path) \in Nat
    BY ListLength DEF Buildable
  <1>2. \A m \in ToSet(t.mounts) : IsMount(m) /\ IsList(m.path) /\ Len(m.path) \in Nat
    BY ListLength DEF Buildable, ToSet, IsMount
  <1>3. found # {}
    BY <1>1, <1>2, OverlapIs DEF Free
  <1>4. PICK d \in found : \A o \in found : Len(o.path) <= Len(d.path)
    <2>1. \A m \in found : Len(m.path) \in 0 .. Len(path)
      BY <1>1, <1>2, PrefixIs
    <2> HIDE DEF found
    <2> QED
      BY <1>1, <1>3, <2>1, Deepest
  <1>5. /\ d \in ToSet(t.mounts) /\ IsMount(d) /\ IsList(d.path) /\ Len(d.path) \in Nat
        /\ IsPrefix(d.path, path) /\ Under(path, d.path) /\ Len(d.path) <= Len(path)
    BY <1>1, <1>2, <1>4, UnderPrefix
  <1>6. OwnMounts(t) = t.mounts /\ Staging(t) = {} /\ t.arts # <<>>
    <2>1. t.mounts # <<>>
      BY <1>5, ListNone
    <2> QED
      BY <2>1 DEF Buildable, OwnMounts, Staging
  <1>7. \A m \in ToSet(t.mounts) : Under(path, m.path) =>
          m = d \/ (Len(m.path) <= Len(d.path) /\ Len(m.path) # Len(d.path))
    <2> SUFFICES ASSUME NEW m \in ToSet(t.mounts), Under(path, m.path), Len(m.path) = Len(d.path)
                 PROVE  m = d
      <3>1. \A m \in ToSet(t.mounts) : Under(path, m.path) => m \in found
        BY <1>1, <1>2, UnderPrefix
      <3> QED
        BY <1>4, <3>1
    <2>1. IsPrefix(m.path, path)
      BY <1>1, <1>2, UnderPrefix
    <2>2. m.path = d.path
      BY <1>1, <1>2, <1>5, <2>1, PrefixesOfOne
    <2>3. m \in ToSet(MainMounts(t)) /\ d \in ToSet(MainMounts(t))
      BY <1>5, <1>6, MainMountsAre
    <2> QED
      BY <2>2, <2>3, PathsDiffer
  <1> HIDE DEF path, found
  <1>8. Place(MainMounts(t), path)
          = [vol |-> d.vol, at |-> d.sub \o SubSeq(path, Len(d.path) + 1, Len(path))]
    <2>1. d \in Covering(MainMounts(t), path)
      BY <1>5, <1>6, MainMountsAre DEF Covering
    <2>2. ASSUME NEW o \in Covering(MainMounts(t), path)
          PROVE  o = d \/ (Len(o.path) <= Len(d.path) /\ Len(o.path) # Len(d.path))
      <3>1. o \in ToSet(MainMounts(t)) /\ Under(path, o.path)
        BY DEF Covering
      <3>2. CASE o \in ToSet(t.mounts)
        BY <1>7, <3>1, <3>2
      <3>3. CASE \E k \in Free(t) : o = ArtMount(t.arts[k])
        <4>1. PICK k \in Free(t) : o.path = t.arts[k].path
          BY <3>3 DEF ArtMount
        <4>2. IsList(o.path) /\ Len(o.path) \in Nat
          BY <4>1, ListLength DEF Free, Buildable
        <4>3. ~IsPrefix(d.path, o.path)
          BY <1>2, <1>5, <4>1, <4>2, OverlapIs DEF Free
        <4>4. IsPrefix(o.path, path)
          BY <1>1, <3>1, <4>2, UnderPrefix
        <4>5. ~(Len(d.path) <= Len(o.path))
          BY <1>1, <1>5, <4>2, <4>3, <4>4, PrefixesOfOne
        <4> QED
          BY <1>5, <4>2, <4>5
      <3> QED
        BY <1>6, <3>1, <3>2, <3>3, MainMountsAre
    <2>3. \A o \in Covering(MainMounts(t), path) : Len(o.path) \in Nat
      BY MainLengths DEF Covering
    <2> QED
      BY <2>1, <2>2, <2>3, PlaceIs
  <1> DEFINE e == Below(d)
  <1>9. /\ e \in Covering(InitMounts(t), loaded)
        /\ Place(InitMounts(t), loaded)
             = [vol |-> e.vol, at |-> e.sub \o SubSeq(loaded, Len(e.path) + 1, Len(loaded))]
    <2>1. e \in Covering(InitMounts(t), loaded)
      <3>1. Under(loaded, e.path)
        BY <1>1, <1>5, BelowIs
      <3>2. e \in ToSet(InitMounts(t))
        BY <1>5, <1>6, InitMountsAre
      <3> QED
        BY <3>1, <3>2 DEF Covering
    <2>2. ASSUME NEW o \in Covering(InitMounts(t), loaded)
          PROVE  /\ o = e \/ (Len(o.path) <= Len(e.path) /\ Len(o.path) # Len(e.path))
                 /\ Len(o.path) \in Nat
      <3>1. o \in ToSet(InitMounts(t)) /\ Under(loaded, o.path)
        BY DEF Covering
      <3>2. /\ ~Under(loaded, Mount("podmetadata", MetadataDir).path)
            /\ ~Under(loaded, Mount("input-artifacts", ArtifactBase).path)
        BY <1>1, NotInternal
      <3>3. PICK m \in ToSet(t.mounts) : o = Below(m)
        BY <1>6, <3>1, <3>2, InitMountsAre
      <3>4. Under(path, m.path)
        BY <1>1, <1>2, <3>1, <3>3, BelowIs
      <3>5. m = d \/ (Len(m.path) <= Len(d.path) /\ Len(m.path) # Len(d.path))
        BY <1>7, <3>4
      <3>6. Len(o.path) = 2 + Len(m.path) /\ Len(m.path) \in Nat /\ Len(e.path) = 2 + Len(d.path)
        BY <1>2, <1>5, <3>3, BelowIs
      <3> QED
        BY <1>5, <3>3, <3>5, <3>6
    <2> HIDE DEF e, loaded
    <2>3. \A o \in Covering(InitMounts(t), loaded) : Len(o.path) \in Nat
      BY <2>2
    <2>4. \A o \in Covering(InitMounts(t), loaded) :
            o = e \/ (Len(o.path) <= Len(e.path) /\ Len(o.path) # Len(e.path))
      BY <2>2
    <2> QED
      BY <2>1, <2>3, <2>4, PlaceIs
  <1>10. e.vol = d.vol /\ e.sub = d.sub /\ Len(e.path) = 2 + Len(d.path)
    BY <1>5, BelowIs
  <1>11. SubSeq(loaded, 2 + Len(d.path) + 1, Len(loaded)) = SubSeq(path, Len(d.path) + 1, Len(path))
    <2>1. Len(d.path) \in 0 .. Len(path)
      BY <1>1, <1>5
    <2> QED
      BY <1>1, <2>1, RestBelowMain
  <1> HIDE DEF e, loaded
  <1>12. Place(InitMounts(t), loaded) = Place(MainMounts(t), path)
    BY <1>8, <1>9, <1>10, <1>11
  <1> QED
    BY <1>9, <1>12 DEF path, loaded
-----------------------------------------------------------------------------
(* Templates and steps on their way into the operation: substitution       *)
(* leaves alone what they call, mount and where their artifacts go.        *)

(* A step as far as it says what is called. *)
IsCall(step) ==
  /\ DOMAIN step = {"name", "template", "args", "items", "withParam", "when"}
  /\ IsList(step.items)

LEMMA ReplacedStep ==
  ASSUME NEW step, IsCall(step), NEW map
  PROVE  LET r == ReplaceInStep(step, map)
         IN  IsCall(r) /\ r.template = step.template /\ r.items = step.items
  BY DEF ReplaceInStep, IsCall

ReplaceInGroups(groups, map) ==
  [i \in DOMAIN groups |-> [j \in DOMAIN groups[i] |-> ReplaceInStep(groups[i][j], map)]]

LEMMA ReplacedTemplate ==
  ASSUME NEW t, NEW map,
         DOMAIN t = {"name", "types", "params", "arts", "outParams", "outArts", "body", "steps",
                     "daemon", "mounts", "sidecars", "archive", "deadline"}
  PROVE  LET r == ReplaceInTemplate(t, map)
         IN  /\ DOMAIN r = DOMAIN t
             /\ r.types \subseteq t.types /\ r.arts = t.arts /\ r.mounts = t.mounts
             /\ r.steps = ReplaceInGroups(t.steps, map)
  BY DEF ReplaceInTemplate, ReplaceInGroups

(* Groups of steps that call templates of a set only. *)
CallsOnly(s, set) == IsList(s) /\ \A i \in DOMAIN s : IsCall(s[i]) /\ s[i].template \in set

GroupsCallOnly(groups, set) == IsList(groups) /\ \A g \in DOMAIN groups : CallsOnly(groups[g], set)

(* A list that is made from another, element by element. *)
LEMMA ListFrom ==
  ASSUME NEW s, IsList(s), NEW r, r = [i \in DOMAIN s |-> r[i]]
  PROVE  IsList(r) /\ Len(r) = Len(s) /\ DOMAIN r = DOMAIN s
  <1>1. Len(s) \in Nat /\ DOMAIN s = 1 .. Len(s)
    BY ListLength
  <1>2. r \in [1 .. Len(s) -> {r[i] : i \in DOMAIN s}] /\ DOMAIN r = DOMAIN s
    BY <1>1
  <1> QED
    BY <1>1, <1>2, ListMade

LEMMA ReplacedGroups ==
  ASSUME NEW groups, NEW set, GroupsCallOnly(groups, set), NEW map
  PROVE  GroupsCallOnly(ReplaceInGroups(groups, map), set)
  <1> DEFINE group(i) == [j \in DOMAIN groups[i] |-> ReplaceInStep(groups[i][j], map)]
             r == ReplaceInGroups(groups, map)
  <1>1. ASSUME NEW i \in DOMAIN groups PROVE CallsOnly(group(i), set)
    <2>1. /\ IsList(groups[i])
          /\ \A j \in DOMAIN groups[i] : IsCall(groups[i][j]) /\ groups[i][j].template \in set
      BY DEF GroupsCallOnly, CallsOnly
    <2> DEFINE c == group(i)
    <2>2. c = [j \in DOMAIN groups[i] |-> c[j]]
      OBVIOUS
    <2>3. \A j \in DOMAIN groups[i] : c[j] = ReplaceInStep(groups[i][j], map)
      OBVIOUS
    <2> HIDE DEF c
    <2>4. IsList(c) /\ DOMAIN c = DOMAIN groups[i]
      BY <2>1, <2>2, ListFrom
    <2>5. \A j \in DOMAIN c : IsCall(c[j]) /\ c[j].template \in set
      BY <2>1, <2>3, <2>4, ReplacedStep
    <2>6. CallsOnly(c, set)
      BY <2>4, <2>5 DEF CallsOnly
    <2> QED
      BY <2>6 DEF c
  <1>2. r = [i \in DOMAIN groups |-> r[i]] /\ \A i \in DOMAIN groups : r[i] = group(i)
    BY DEF ReplaceInGroups
  <1>3. IsList(groups)
    BY DEF GroupsCallOnly
  <1> HIDE DEF group, r
  <1>4. IsList(r) /\ DOMAIN r = DOMAIN groups
    BY <1>2, <1>3, ListFrom
  <1> QED
    BY <1>1, <1>2, <1>4 DEF GroupsCallOnly, r

LEMMA ProcessedTemplate ==
  ASSUME NEW T, IsTemplate(T), NEW args, NEW globs,
         NEW t, t = ProcessArgs(T, args, globs)
  PROVE  /\ t.types \subseteq T.types /\ t.mounts = T.mounts
         /\ IsList(t.arts) /\ DOMAIN t.arts = DOMAIN T.arts
         /\ \A i \in DOMAIN t.arts : t.arts[i].path = T.arts[i].path
         /\ \A set : GroupsCallOnly(T.steps, set) => GroupsCallOnly(t.steps, set)
  <1> DEFINE Fields == {"name", "types", "params", "arts", "outParams", "outArts", "body", "steps",
                        "daemon", "mounts", "sidecars", "archive", "deadline"}
             w == WithInputs(T, args)
             g == ReplaceInTemplate(w, globs)
             inputs == [tag \in {InputParameter(p) : p \in Names(g.params)} |->
                          ByName(g.params, tag[3]).value]
             h == ReplaceInTemplate(g, inputs)
             arts == [i \in DOMAIN h.arts |-> InputArtifactOf(h.arts[i], args)]
  <1>1. /\ DOMAIN w = Fields /\ w.types = T.types /\ w.mounts = T.mounts
        /\ w.arts = T.arts /\ w.steps = T.steps
    BY DEF WithInputs, IsTemplate
  <1>2. t = [h EXCEPT !.arts = arts]
    BY DEF ProcessArgs, substituteParams
  <1> HIDE DEF w
  <1>3. /\ DOMAIN g = Fields /\ g.types \subseteq T.types /\ g.mounts = T.mounts
        /\ g.arts = T.arts
        /\ \A set : GroupsCallOnly(T.steps, set) => GroupsCallOnly(g.steps, set)
    <2>1. /\ DOMAIN g = DOMAIN w
          /\ g.types \subseteq w.types /\ g.arts = w.arts /\ g.mounts = w.mounts
          /\ g.steps = ReplaceInGroups(w.steps, globs)
      BY <1>1, ReplacedTemplate
    <2> HIDE DEF g
    <2>2. ASSUME NEW set, GroupsCallOnly(w.steps, set) PROVE GroupsCallOnly(g.steps, set)
      BY <2>1, <2>2, ReplacedGroups
    <2> QED
      BY <1>1, <2>1, <2>2
  <1> HIDE DEF g, inputs
  <1>4. /\ DOMAIN h = Fields /\ h.types \subseteq T.types /\ h.mounts = T.mounts
        /\ h.arts = T.arts
        /\ \A set : GroupsCallOnly(T.steps, set) => GroupsCallOnly(h.steps, set)
    <2>1. /\ DOMAIN h = DOMAIN g
          /\ h.types \subseteq g.types /\ h.arts = g.arts /\ h.mounts = g.mounts
          /\ h.steps = ReplaceInGroups(g.steps, inputs)
      BY <1>3, ReplacedTemplate
    <2> HIDE DEF h
    <2>2. ASSUME NEW set, GroupsCallOnly(g.steps, set) PROVE GroupsCallOnly(h.steps, set)
      BY <2>1, <2>2, ReplacedGroups
    <2> QED
      BY <1>3, <2>1, <2>2
  <1> HIDE DEF h
  <1>5. /\ t.types \subseteq T.types /\ t.mounts = T.mounts /\ t.steps = h.steps
        /\ t.arts = arts
    BY <1>2, <1>4
  <1>6. /\ arts = [i \in DOMAIN T.arts |-> arts[i]]
        /\ \A i \in DOMAIN T.arts : arts[i] = InputArtifactOf(T.arts[i], args)
    BY <1>4
  <1> HIDE DEF arts
  <1>7. IsList(arts) /\ DOMAIN arts = DOMAIN T.arts
    BY <1>6, ListFrom DEF IsTemplate
  <1>8. \A i \in DOMAIN T.arts : InputArtifactOf(T.arts[i], args).path = T.arts[i].path
    BY DEF InputArtifactOf, IsTemplate, IsArtifact
  <1> QED
    BY <1>4, <1>5, <1>6, <1>7, <1>8

LEMMA ProcessedLeaf ==
  ASSUME NEW T, IsTemplate(T), OneType(T), NEW args, NEW globs,
         NEW t, t = ProcessArgs(T, args, globs), LeafError(t) = "none"
  PROVE  Buildable(t) /\ PodAccepted(createWorkflowPod(t))
  <1>2. /\ t.types \subseteq T.types /\ t.mounts = T.mounts
        /\ IsList(t.arts) /\ DOMAIN t.arts = DOMAIN T.arts
        /\ \A i \in DOMAIN t.arts : t.arts[i].path = T.arts[i].path
    BY ProcessedTemplate
  <1>3. PodError(wf, t) = "none" /\ PodAccepted(createWorkflowPod(t))
    BY DEF LeafError
  <1>4. \A i \in DOMAIN t.arts : t.arts[i].path # NoValue
    BY <1>3 DEF PodError
  <1>5. \A i \in DOMAIN t.arts : IsList(t.arts[i].path)
    BY <1>2, <1>4 DEF IsTemplate, IsArtifact
  <1>6. IsList(t.mounts) /\ \A i \in DOMAIN t.mounts : IsMount(t.mounts[i])
    BY <1>2 DEF IsTemplate
  <1>7. t.mounts # <<>> => "resource" \notin t.types /\ "script" \notin t.types
    BY <1>2 DEF IsTemplate, OneType
  <1> QED
    BY <1>2, <1>3, <1>5, <1>6, <1>7 DEF Buildable

(* The pod of a template as it is checked by the API server. *)
PodOk(p) ==
  Buildable(p.tmpl) /\ p.spec = createWorkflowPod(p.tmpl) /\ PodAccepted(p.spec)

LEMMA PodReaches ==
  ASSUME NEW p, PodOk(p), NEW art \in ToSet(p.tmpl.arts)
  PROVE  InPlace(p, art) \/ MisledByPrefix(p, art)
  <1> DEFINE t == p.tmpl
  <1>1. PICK i \in DOMAIN t.arts : art = t.arts[i]
    BY DEF ToSet
  <1>2. Buildable(t) /\ p.spec = createWorkflowPod(t) /\ PodAccepted(createWorkflowPod(t))
    BY DEF PodOk
  <1>3. t.arts # <<>>
    BY <1>1
  <1>4. p.spec.init = InitMounts(t) /\ p.spec.main = MainMounts(t)
    BY <1>2, <1>3 DEF createWorkflowPod, HasInit, If
  <1> SUFFICES ASSUME ~MisledByPrefix(p, art) PROVE InPlace(p, art)
    OBVIOUS
  <1>5. \A m \in ToSet(t.mounts) : IsPrefix(m.path, art.path) => Under(art.path, m.path)
    BY DEF MisledByPrefix
  <1>6. CASE i \in Free(t)
    <2>1. LoadPath(t, art) = ArtifactBase \o <<"/", art.name>>
      BY <1>1, <1>6 DEF LoadPath, Free
    <2> QED
      BY <1>1, <1>2, <1>4, <1>6, <2>1, InItsVolume DEF InPlace
  <1>7. CASE i \notin Free(t)
    <2>1. LoadPath(t, art) = MainFilesystem \o art.path
      BY <1>1, <1>7 DEF LoadPath, Free
    <2> QED
      BY <1>1, <1>2, <1>4, <1>5, <1>7, <2>1, InTheUsersVolume DEF InPlace
  <1> QED
    BY <1>6, <1>7
-----------------------------------------------------------------------------
(* The steps under way.                                                    *)

LEMMA ListTail ==
  ASSUME NEW s, IsList(s), s # <<>>
  PROVE  /\ 1 \in DOMAIN s /\ Head(s) = s[1]
         /\ IsList(Tail(s))
         /\ \A k \in DOMAIN Tail(s) : k \in Nat \ {0} /\ k + 1 \in DOMAIN s /\ Tail(s)[k] = s[k + 1]
  <1> DEFINE S == {s[i] : i \in DOMAIN s}
             p == Tail(s)
  <1>1. s \in Seq(S) /\ Len(s) \in Nat \ {0} /\ DOMAIN s = 1 .. Len(s)
    BY DEF IsList
  <1>2. /\ p \in Seq(S) /\ Len(p) = Len(s) - 1 /\ DOMAIN p = 1 .. Len(s) - 1
        /\ \A k \in 1 .. Len(s) - 1 : p[k] = s[k + 1]
        /\ Head(s) = s[1]
    BY <1>1
  <1> HIDE DEF p, S
  <1>3. IsList(p)
    <2>1. p \in Seq({p[k] : k \in DOMAIN p})
      BY <1>2, OwnElements
    <2> QED
      BY <2>1 DEF IsList
  <1> QED
    BY <1>1, <1>2, <1>3 DEF p

LEMMA ListPush ==
  ASSUME NEW f, NEW s, IsList(s)
  PROVE  /\ IsList(<<f>> \o s)
         /\ \A k \in DOMAIN (<<f>> \o s) :
              \/ k = 1 /\ (<<f>> \o s)[k] = f
              \/ k # 1 /\ k - 1 \in DOMAIN s /\ (<<f>> \o s)[k] = s[k - 1]
         /\ <<f>> \o s # <<>> /\ Head(<<f>> \o s) = f
  <1> DEFINE p == <<f>> \o s
             S == {s[k] : k \in DOMAIN s}
  <1>1. s \in Seq(S) /\ Len(s) \in Nat /\ DOMAIN s = 1 .. Len(s)
    BY DEF IsList
  <1>2. <<f>> \in Seq(S \cup {f}) /\ s \in Seq(S \cup {f})
    BY <1>1
  <1>3. /\ p \in Seq(S \cup {f}) /\ DOMAIN p = 1 .. Len(s) + 1
        /\ p[1] = f /\ \A k \in 1 .. Len(s) : p[k + 1] = s[k]
        /\ p # <<>> /\ Head(p) = f
    BY <1>1, <1>2
  <1> HIDE DEF p
  <1>4. IsList(p)
    <2>1. p \in Seq({p[k] : k \in DOMAIN p})
      BY <1>3, OwnElements
    <2> QED
      BY <2>1 DEF IsList
  <1>5. \A k \in DOMAIN p : (k = 1 /\ p[k] = f) \/ (k # 1 /\ k - 1 \in DOMAIN s /\ p[k] = s[k - 1])
    BY <1>1, <1>3
  <1> QED
    BY <1>3, <1>4, <1>5 DEF p

LEMMA CallsTail ==
  ASSUME NEW s, NEW set, CallsOnly(s, set), s # <<>>
  PROVE  CallsOnly(Tail(s), set) /\ IsCall(Head(s)) /\ Head(s).template \in set
  BY ListTail DEF CallsOnly

(* The steps of a template under way call templates that were validated.   *)
RunningOk(f, set) ==
  /\ DOMAIN f = {"tmpl", "group", "todo", "done", "params", "arts"}
  /\ f.group \in Nat \ {0}
  /\ GroupsCallOnly(f.tmpl.steps, set)
  /\ f.todo # NoValue =>
       DOMAIN f.todo \subseteq Nat /\ \A i \in DOMAIN f.todo : CallsOnly(f.todo[i], set)

(* All but the innermost of them wait for a step that was launched.        *)
Nested(s, set) ==
  /\ IsList(s)
  /\ \A k \in DOMAIN s : RunningOk(s[k], set) /\ (k # 1 => Waiting(s[k]) # {})

Awaits(s) == s # <<>> => Waiting(Head(s)) # {}

Operation ==
  /\ Nested(frames, results)
  /\ pod # NoValue => PodOk(pod)
  /\ stage = "exiting" => wf.onExit # NoValue

LEMMA NestedTail ==
  ASSUME NEW s, NEW set, Nested(s, set), s # <<>>
  PROVE  RunningOk(Head(s), set) /\ Nested(Tail(s), set) /\ Awaits(Tail(s))
  <1>1. /\ 1 \in DOMAIN s /\ Head(s) = s[1] /\ IsList(Tail(s))
        /\ \A k \in DOMAIN Tail(s) : k \in Nat \ {0} /\ k + 1 \in DOMAIN s /\ Tail(s)[k] = s[k + 1]
    BY ListTail DEF Nested
  <1>2. RunningOk(Head(s), set)
    BY <1>1 DEF Nested
  <1>3. \A k \in DOMAIN Tail(s) : RunningOk(Tail(s)[k], set) /\ Waiting(Tail(s)[k]) # {}
    <2>1. ASSUME NEW k \in DOMAIN Tail(s) PROVE k + 1 # 1
      BY <1>1
    <2> QED
      BY <1>1, <2>1 DEF Nested
  <1>4. Awaits(Tail(s))
    BY <1>1, <1>3, ListTail DEF Awaits
  <1> QED
    BY <1>1, <1>2, <1>3, <1>4 DEF Nested

LEMMA NestedPush ==
  ASSUME NEW s, NEW set, Nested(s, set), Awaits(s), NEW f, RunningOk(f, set)
  PROVE  Nested(<<f>> \o s, set)
  <1> DEFINE p == <<f>> \o s
  <1>1. /\ IsList(p)
        /\ \A k \in DOMAIN p :
             (k = 1 /\ p[k] = f) \/ (k # 1 /\ k - 1 \in DOMAIN s /\ p[k] = s[k - 1])
    BY ListPush DEF Nested
  <1> HIDE DEF p
  <1>2. ASSUME NEW k \in DOMAIN s PROVE Waiting(s[k]) # {}
    <2>1. s # <<>> /\ IsList(s)
      BY DEF Nested
    <2> QED
      BY <2>1, ListTail DEF Nested, Awaits
  <1>3. \A k \in DOMAIN p : RunningOk(p[k], set) /\ (k # 1 => Waiting(p[k]) # {})
    BY <1>1, <1>2 DEF Nested
  <1> QED
    BY <1>1, <1>3 DEF Nested, p

LEMMA NextStepIs ==
  ASSUME NEW f, NEW set, RunningOk(f, set), Waiting(f) # {}
  PROVE  /\ FirstOf(f) \in DOMAIN f.todo /\ f.todo # NoValue
         /\ f.todo[FirstOf(f)] # <<>>
         /\ CallsOnly(f.todo[FirstOf(f)], set)
         /\ Upcoming(f).template \in set
  <1>1. f.todo # NoValue /\ Waiting(f) = {i \in DOMAIN f.todo : f.todo[i] # <<>>}
    BY DEF Waiting
  <1>2. Waiting(f) \subseteq Nat
    BY <1>1 DEF RunningOk
  <1>3. FirstOf(f) \in Waiting(f)
    <2>1. \E i \in Waiting(f) : \A j \in Waiting(f) : i <= j
      BY <1>2, LeastElement
    <2> QED
      BY <2>1 DEF FirstOf
  <1>4. FirstOf(f) \in DOMAIN f.todo /\ f.todo[FirstOf(f)] # <<>>
    BY <1>1, <1>3
  <1>5. CallsOnly(f.todo[FirstOf(f)], set)
    BY <1>1, <1>4 DEF RunningOk
  <1> QED
    BY <1>1, <1>4, <1>5, CallsTail DEF Upcoming

LEMMA StepDone ==
  ASSUME NEW f, NEW set, RunningOk(f, set), Waiting(f) # {}, NEW done
  PROVE  RunningOk([f EXCEPT !.todo[FirstOf(f)] = Tail(@), !.done = done], set)
  <1> DEFINE k == FirstOf(f)
             todo == [f.todo EXCEPT ![k] = Tail(@)]
             g == [f EXCEPT !.todo[k] = Tail(@), !.done = done]
  <1>1. k \in DOMAIN f.todo /\ f.todo # NoValue /\ CallsOnly(Tail(f.todo[k]), set)
    BY NextStepIs, CallsTail
  <1>2. /\ DOMAIN g = DOMAIN f /\ g.group = f.group /\ g.tmpl = f.tmpl /\ g.todo = todo
    BY DEF RunningOk
  <1> HIDE DEF k
  <1>3. /\ DOMAIN todo = DOMAIN f.todo
        /\ \A i \in DOMAIN f.todo : todo[i] = IF i = k THEN Tail(f.todo[k]) ELSE f.todo[i]
    OBVIOUS
  <1> HIDE DEF g, todo
  <1>4. DOMAIN todo \subseteq Nat /\ \A i \in DOMAIN todo : CallsOnly(todo[i], set)
    BY <1>1, <1>3 DEF RunningOk
  <1>5. RunningOk(g, set)
    BY <1>2, <1>4 DEF RunningOk
  <1> QED
    BY <1>5 DEF g, k

LEMMA ReturnNested ==
  ASSUME NEW below, NEW set, Nested(below, set), Awaits(below), NEW outputs, NEW part,
         Return(below, outputs, part), part = "exiting" => wf.onExit # NoValue
  PROVE  Nested(frames', set) /\ (stage' = "exiting" => wf.onExit # NoValue)
  <1>1. CASE below = <<>>
    <2>1. frames' = <<>>
      BY <1>1 DEF Return
    <2>2. Nested(<<>>, set)
      BY ListNone DEF Nested
    <2> QED
      BY <1>1, <2>1, <2>2 DEF Return
  <1>2. CASE below # <<>>
    <2> DEFINE f == Head(below)
               done == f.done \cup {[name |-> Upcoming(f).name, outputs |-> outputs]}
               g == [f EXCEPT !.todo[FirstOf(f)] = Tail(@), !.done = done]
    <2>1. frames' = <<g>> \o Tail(below) /\ stage' = part
      BY <1>2 DEF Return
    <2>2. RunningOk(f, set) /\ Nested(Tail(below), set) /\ Awaits(Tail(below)) /\ Waiting(f) # {}
      BY <1>2, NestedTail DEF Awaits
    <2> HIDE DEF f, done
    <2>3. RunningOk(g, set)
      BY <2>2, StepDone
    <2> HIDE DEF g
    <2> QED
      BY <2>1, <2>2, <2>3, NestedPush
  <1> QED
    BY <1>1, <1>2

(* What validation left behind: the templates that a run can reach. *)
LEMMA ValidatedTemplate ==
  ASSUME Walk, ~Validating, stage # "rejected", NEW n \in results
  PROVE  /\ IsTemplate(Called(n)) /\ OneType(Called(n))
         /\ GroupsCallOnly(Called(n).steps, results)
  <1>1. /\ TemplatesOk(results) /\ Settled(stack, results) /\ stack = <<>> /\ wf \in Workflows
    BY DEF Walk, WalkAt, Validating
  <1>2. PICK i \in DOMAIN wf.templates : Called(n) = wf.templates[i]
    BY <1>1, NamedTemplate DEF TemplatesOk
  <1>3. IsTemplate(Called(n)) /\ OneType(Called(n))
    BY <1>1, <1>2, WorkflowsAssumption DEF TemplatesOk, Sound
  <1>4. Closed(n, results)
    BY <1>1, EmptyFrames DEF Settled
  <1> QED
    BY <1>3, <1>4 DEF Closed, GroupsCallOnly, CallsOnly, IsTemplate, IsStep, IsCall

LEMMA FailKeeps ==
  ASSUME Operation, NEW why, Fail(why), UNCHANGED results
  PROVE  Operation'
  BY DEF Operation, Fail

LEMMA FromParts ==
  ASSUME Nested(frames', results), results' = results, wf' = wf,
         pod' = pod \/ PodOk(pod'), pod # NoValue => PodOk(pod),
         stage' = "exiting" => wf.onExit # NoValue
  PROVE  Operation'
  BY DEF Operation

LEMMA ExecuteKeeps ==
  ASSUME Walk, Operation, ~Validating, stage # "rejected", results' = results, wf' = wf,
         NEW n \in results, NEW args, NEW known, NEW below, NEW part,
         executeTemplate(n, args, known, below, part), Nested(below, results), Awaits(below),
         part = "exiting" => wf.onExit # NoValue
  PROVE  Operation'
  <1> DEFINE T == Called(n)
             globs == GlobalTexts(known)
             t == ProcessArgs(T, args, globs)
  <1>1. IsTemplate(T) /\ OneType(T) /\ GroupsCallOnly(T.steps, results)
    BY ValidatedTemplate
  <1>2. CASE \E why : Fail(why)
    BY <1>2, FailKeeps
  <1>3. CASE ~\E why : Fail(why)
    <2>1. IF "steps" \in t.types
          THEN frames' = <<NewFrame(t)>> \o below /\ stage' = part /\ pod' = pod
          ELSE /\ LeafError(t) = "none"
               /\ pod' = [tmpl |-> t, spec |-> createWorkflowPod(t)]
               /\ Return(below, LeafOutputs(t), part)
      BY <1>3 DEF executeTemplate, Called
    <2> HIDE DEF globs
    <2>2. CASE "steps" \in t.types
      <3>1. GroupsCallOnly(t.steps, results)
        BY <1>1, <2>1, ProcessedTemplate
      <3> HIDE DEF t
      <3>2. RunningOk(NewFrame(t), results)
        BY <3>1 DEF RunningOk, NewFrame
      <3>3. Nested(frames', results)
        BY <2>1, <2>2, <3>2, NestedPush
      <3> QED
        BY <2>1, <2>2, <3>3, FromParts DEF Operation
    <2>3. CASE "steps" \notin t.types
      <3>1. Buildable(t) /\ PodAccepted(createWorkflowPod(t))
        BY <1>1, <2>1, <2>3, ProcessedLeaf
      <3> HIDE DEF t
      <3>2. PodOk(pod')
        BY <2>1, <2>3, <3>1 DEF PodOk
      <3>3. Nested(frames', results) /\ (stage' = "exiting" => wf.onExit # NoValue)
        BY <2>1, <2>3, ReturnNested
      <3> QED
        BY <3>2, <3>3, FromParts DEF Operation
    <2> QED
      BY <2>2, <2>3
  <1> QED
    BY <1>2, <1>3

LEMMA OperateKeeps ==
  ASSUME Walk, Operation, Operate \/ OperateOnExit, results' = results, wf' = wf
  PROVE  Operation'
  <1>1. stage \in {"accepted", "exiting"} /\ ~Validating
    BY DEF Operate, OperateOnExit, Validating
  <1>2. /\ wf.entrypoint \in results
        /\ wf.onExit # NoValue => wf.onExit \in results
    BY <1>1 DEF Walk, WalkAt, RootsOk
  <1>3. Nested(<<>>, results) /\ Awaits(<<>>)
    BY ListNone DEF Nested, Awaits
  <1>4. CASE Operate
    <2>1. \/ \E why : Fail(why)
          \/ \E args, known : executeTemplate(wf.entrypoint, args, known, <<>>, "operating")
      BY <1>4 DEF Operate
    <2> QED
      BY <1>1, <1>2, <1>3, <2>1, FailKeeps, ExecuteKeeps
  <1>5. CASE OperateOnExit
    <2>1. /\ stage = "exiting"
          /\ \E args, known : executeTemplate(wf.onExit, args, known, <<>>, "exit")
      BY <1>5 DEF OperateOnExit
    <2>2. wf.onExit \in results
      BY <1>2, <2>1 DEF Operation
    <2> QED
      BY <1>1, <1>3, <2>1, <2>2, ExecuteKeeps
  <1> QED
    BY <1>4, <1>5

(* The steps that a group expands to call what the group calls. *)
LEMMA ExpandedCalls ==
  ASSUME NEW f, NEW group, NEW set, CallsOnly(group, set), NEW param \in ParamItems
  PROVE  LET todo == expandStepGroup(resolveReferences(f, group), param)
         IN  DOMAIN todo \subseteq Nat /\ \A i \in DOMAIN todo : CallsOnly(todo[i], set)
  <1> DEFINE steps == resolveReferences(f, group)
             todo == expandStepGroup(steps, param)
  <1>1. IsList(param)
    <2>1. IsList(<<>>) /\ IsList(<<[type |-> "scalar", keys |-> {}]>>)
      BY ListNone, ListOne
    <2>2. IsList(<<[type |-> "map", keys |-> {"k"}]>>)
      BY ListOne
    <2> QED
      BY <2>1, <2>2 DEF ParamItems
  <1>2. DOMAIN steps = DOMAIN group /\ DOMAIN group \subseteq Nat
    <2>1. DOMAIN group \subseteq Nat
      BY ListLength DEF CallsOnly
    <2> QED
      BY <2>1 DEF resolveReferences, Substituted
  <1>3. ASSUME NEW i \in DOMAIN group
        PROVE  IsCall(steps[i]) /\ steps[i].template \in set
    <2> DEFINE r == ReplaceInStep(group[i], f.params)
    <2>1. IsCall(r) /\ r.template \in set
      BY ReplacedStep DEF CallsOnly
    <2>2. PICK arts : steps[i] = [r EXCEPT !.args.arts = arts]
      BY DEF resolveReferences, Substituted
    <2> HIDE DEF r, steps
    <2> QED
      BY <2>1, <2>2 DEF IsCall
  <1> HIDE DEF steps
  <1>4. /\ DOMAIN todo = DOMAIN group
        /\ \A i \in DOMAIN group :
             \/ todo[i] = <<steps[i]>>
             \/ \E items : IsList(items) /\ todo[i] = ExpandedSteps(steps[i], items)
    BY <1>1, <1>2, <1>3 DEF expandStepGroup, IsCall
  <1> HIDE DEF todo
  <1>5. ASSUME NEW i \in DOMAIN group, todo[i] = <<steps[i]>>
        PROVE  CallsOnly(todo[i], set)
    <2>1. IsList(todo[i]) /\ ToSet(todo[i]) = {steps[i]}
      BY <1>5, ListOne
    <2> QED
      BY <1>3, <2>1 DEF CallsOnly, ToSet
  <1>6. ASSUME NEW i \in DOMAIN group, NEW items, IsList(items),
               todo[i] = ExpandedSteps(steps[i], items)
        PROVE  CallsOnly(todo[i], set)
    <2>1. /\ todo[i] = [k \in DOMAIN items |-> todo[i][k]]
          /\ \A k \in DOMAIN items :
               \E name, withParam : todo[i][k] =
                 [ReplaceInStep(steps[i], ItemMap(items[k])) EXCEPT
                    !.name = name, !.items = <<>>, !.withParam = withParam]
      BY <1>6 DEF ExpandedSteps
    <2>2. IsList(todo[i]) /\ DOMAIN todo[i] = DOMAIN items
      BY <1>6, <2>1, ListFrom
    <2>3. ASSUME NEW k \in DOMAIN items
          PROVE  IsCall(todo[i][k]) /\ todo[i][k].template \in set
      <3> DEFINE r == ReplaceInStep(steps[i], ItemMap(items[k]))
      <3>1. IsCall(r) /\ r.template \in set
        BY <1>3, ReplacedStep
      <3>2. PICK name, withParam : todo[i][k] =
              [r EXCEPT !.name = name, !.items = <<>>, !.withParam = withParam]
        BY <2>1
      <3> HIDE DEF r
      <3> QED
        BY <3>1, <3>2, ListNone DEF IsCall
    <2> QED
      BY <2>2, <2>3 DEF CallsOnly
  <1>7. \A i \in DOMAIN todo : CallsOnly(todo[i], set)
    BY <1>4, <1>5, <1>6
  <1> QED
    BY <1>2, <1>4, <1>7 DEF todo, steps

(* The innermost steps move on. *)
LEMMA MoveKeeps ==
  ASSUME Operation, frames # <<>>, NEW f, RunningOk(f, results),
         frames' = <<f>> \o Tail(frames), stage' = stage, pod' = pod, results' = results, wf' = wf
  PROVE  Operation'
  <1>1. Nested(Tail(frames), results) /\ Awaits(Tail(frames))
    BY NestedTail DEF Operation
  <1>2. Nested(frames', results)
    BY <1>1, NestedPush
  <1> QED
    BY <1>2 DEF Operation

LEMMA StartKeeps ==
  ASSUME Operation, StartStepGroup, results' = results, wf' = wf
  PROVE  Operation'
  <1> DEFINE f == Head(frames)
             group == f.tmpl.steps[f.group]
  <1>1. CASE \E why : Fail(why)
    BY <1>1, FailKeeps
  <1>2. CASE ~\E why : Fail(why)
    <2>1. /\ frames # <<>> /\ f.group <= Len(f.tmpl.steps)
          /\ \E param \in ParamItems :
               frames' = <<[f EXCEPT !.todo = expandStepGroup(resolveReferences(f, group), param)]>>
                         \o Tail(frames)
          /\ stage' = stage /\ pod' = pod
      BY <1>2 DEF StartStepGroup
    <2>2. PICK param \in ParamItems :
            frames' = <<[f EXCEPT !.todo = expandStepGroup(resolveReferences(f, group), param)]>>
                      \o Tail(frames)
      BY <2>1
    <2>3. RunningOk(f, results)
      BY <2>1, NestedTail DEF Operation
    <2> HIDE DEF f
    <2>4. CallsOnly(group, results)
      <3>1. /\ IsList(f.tmpl.steps)
            /\ \A g \in DOMAIN f.tmpl.steps : CallsOnly(f.tmpl.steps[g], results)
        BY <2>3 DEF RunningOk, GroupsCallOnly
      <3>2. f.group \in DOMAIN f.tmpl.steps
        BY <2>1, <2>3, <3>1, ListLength DEF RunningOk
      <3> QED
        BY <3>1, <3>2
    <2> DEFINE todo == expandStepGroup(resolveReferences(f, group), param)
               g == [f EXCEPT !.todo = todo]
    <2> HIDE DEF group
    <2>5. DOMAIN todo \subseteq Nat /\ \A i \in DOMAIN todo : CallsOnly(todo[i], results)
      BY <2>4, ExpandedCalls
    <2>6. frames' = <<g>> \o Tail(frames)
      BY <2>2
    <2> HIDE DEF todo
    <2>7. RunningOk(g, results)
      BY <2>3, <2>5 DEF RunningOk
    <2> HIDE DEF g
    <2> QED
      BY <2>1, <2>6, <2>7, MoveKeeps
  <1> QED
    BY <1>1, <1>2

LEMMA EndKeeps ==
  ASSUME Operation, EndStepGroup, results' = results, wf' = wf
  PROVE  Operation'
  <1> DEFINE f == Head(frames)
  <1>1. CASE \E why : Fail(why)
    BY <1>1, FailKeeps
  <1>2. CASE ~\E why : Fail(why)
    <2>1. /\ frames # <<>> /\ stage' = stage /\ pod' = pod
          /\ \E params, arts :
               frames' = <<[f EXCEPT !.group = @ + 1, !.todo = NoValue, !.done = {},
                                     !.params = params, !.arts = arts]>> \o Tail(frames)
      BY <1>2 DEF EndStepGroup
    <2>2. RunningOk(f, results)
      BY <2>1, NestedTail DEF Operation
    <2> HIDE DEF f
    <2>3. PICK params, arts :
            frames' = <<[f EXCEPT !.group = @ + 1, !.todo = NoValue, !.done = {},
                                  !.params = params, !.arts = arts]>> \o Tail(frames)
      BY <2>1
    <2> DEFINE g == [f EXCEPT !.group = @ + 1, !.todo = NoValue, !.done = {},
                              !.params = params, !.arts = arts]
    <2>4. RunningOk(g, results)
      BY <2>2 DEF RunningOk
    <2>5. frames' = <<g>> \o Tail(frames)
      BY <2>3
    <2> HIDE DEF g
    <2> QED
      BY <2>1, <2>4, <2>5, MoveKeeps
  <1> QED
    BY <1>1, <1>2

LEMMA ReturnKeeps ==
  ASSUME Operation, NEW below, Nested(below, results), Awaits(below), NEW outputs,
         Return(below, outputs, stage), pod' = pod, results' = results, wf' = wf
  PROVE  Operation'
  <1>1. stage = "exiting" => wf.onExit # NoValue
    BY DEF Operation
  <1>2. Nested(frames', results) /\ (stage' = "exiting" => wf.onExit # NoValue)
    BY <1>1, ReturnNested
  <1> QED
    BY <1>2 DEF Operation

LEMMA RunKeeps ==
  ASSUME Walk, Operation, stage # "rejected", Run
  PROVE  Operation'
  <1>1. results' = results /\ wf' = wf
    BY DEF Run
  <1>2. ~Validating
    BY RunsOn DEF Walk
  <1>3. CASE Operate \/ OperateOnExit
    BY <1>1, <1>3, OperateKeeps
  <1>4. CASE StartStepGroup
    BY <1>1, <1>4, StartKeeps
  <1>5. CASE EndStepGroup
    BY <1>1, <1>5, EndKeeps
  <1>6. CASE SkipStep
    <2>1. Nested(frames, results) /\ Awaits(frames)
      BY <1>6 DEF SkipStep, Operation, Awaits
    <2> QED
      BY <1>1, <1>6, <2>1, ReturnKeeps DEF SkipStep
  <1>7. CASE LaunchStep
    <2> DEFINE f == Head(frames)
    <2>1. /\ frames # <<>> /\ Waiting(f) # {}
          /\ executeTemplate(Upcoming(f).template, Upcoming(f).args, globals, frames, stage)
      BY <1>7 DEF LaunchStep
    <2>2. Nested(frames, results) /\ Awaits(frames) /\ RunningOk(f, results)
      BY <2>1, NestedTail DEF Operation, Awaits
    <2> HIDE DEF f
    <2>3. Upcoming(f).template \in results
      BY <2>1, <2>2, NextStepIs
    <2>4. stage = "exiting" => wf.onExit # NoValue
      BY DEF Operation
    <2> QED
      BY <1>1, <1>2, <2>1, <2>2, <2>3, <2>4, ExecuteKeeps
  <1>8. CASE getTemplateOutputsFromScope
    <2>1. \/ \E why : Fail(why)
          \/ frames # <<>> /\ pod' = pod /\ \E outputs : Return(Tail(frames), outputs, stage)
      BY <1>8 DEF getTemplateOutputsFromScope
    <2>2. frames # <<>> => Nested(Tail(frames), results) /\ Awaits(Tail(frames))
      BY NestedTail DEF Operation
    <2> QED
      BY <1>1, <2>1, <2>2, FailKeeps, ReturnKeeps
  <1> QED
    BY <1>3, <1>4, <1>5, <1>6, <1>7, <1>8 DEF Run

LEMMA ValidateKeeps ==
  ASSUME Walk, Operation, Validate, UNCHANGED running
  PROVE  Operation'
  <1>1. frames' = <<>> /\ pod' = pod
    BY DEF Validate, Walk, Validating, running
  <1>2. Nested(<<>>, results')
    BY ListNone DEF Nested
  <1>3. stage' # "exiting"
    BY DEF Validate, ValidateEntrypoint, ValidateOnExit, Accept, ReturnFromTemplate, ValidateStep,
           ValidateNextGroup, validateTemplate, Reject
  <1> QED
    BY <1>1, <1>2, <1>3 DEF Operation

(* For every workflow that is accepted, whatever its templates mount: the  *)
(* executor puts each input artifact where the main container finds it at  *)
(* its path, unless a mount's path starts the same text without being a    *)
(* directory above it, although the controller lays out the volumes        *)
(* (addInputArtifactsVolumes) and the executor picks the place             *)
(* (LoadArtifacts) on their own.                                           *)
THEOREM ArtifactsAreFound == Spec => []ArtifactsReachMain
  <1>1. Init => Operation
    BY ListNone DEF Init, ValidationInit, Operation, Nested
  <1>2. Walk /\ Operation /\ [Next]_vars => Walk' /\ Operation'
    <2> SUFFICES ASSUME Walk, Operation, [Next]_vars PROVE Walk' /\ Operation'
      OBVIOUS
    <2>1. Walk'
      BY WalkNext
    <2>2. UNCHANGED vars => Operation'
      BY DEF vars, validation, running, Operation
    <2>3. Operation'
      BY <2>2, ValidateKeeps, RunKeeps DEF Next
    <2> QED
      BY <2>1, <2>3
  <1>3. Operation => ArtifactsReachMain
    BY PodReaches DEF Operation, ArtifactsReachMain
  <1> QED
    BY WalkInit, <1>1, <1>2, <1>3, PTL DEF Spec
=============================================================================
