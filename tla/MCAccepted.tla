----------------------------- MODULE MCAccepted ------------------------------
(***************************************************************************)
(* Small workflows for TLC: one step "a" and then, or beside it, a step    *)
(* "b", with every reference b may make; templates that call each other;   *)
(* and single pods with mounts, artifacts and sidecars.                    *)
(***************************************************************************)
EXTENDS AcceptedProperties

CONSTANT nil

GoodNames == {"main", "P", "C", "Q", "X", "a", "b", "o", "x", "p", "q", "v"}

NoArgs == [params |-> <<>>, arts |-> <<>>]

Base(name, type) ==
  [name |-> name, types |-> {type}, params |-> <<>>, arts |-> <<>>, outParams |-> <<>>,
   outArts |-> <<>>, body |-> {}, steps |-> <<>>, daemon |-> FALSE, mounts |-> <<>>,
   sidecars |-> <<>>, archive |-> FALSE, deadline |-> "none"]

OutParam(from) == <<[name |-> "o", from |-> from]>>
Art(name, path, from, loc) == [name |-> name, path |-> path, from |-> from, loc |-> loc]
XPath == <<"/", "x">>

Step(name, tmpl, args) ==
  [name |-> name, template |-> tmpl, args |-> args, items |-> <<>>, withParam |-> nil, when |-> nil]

Workflow(templates, args, onExit) ==
  [templates |-> templates, entrypoint |-> "main", onExit |-> onExit, args |-> args,
   volumes |-> <<"v">>, claims |-> {"w"}]

Scalar   == <<[type |-> "scalar", keys |-> {}]>>
OneKey   == <<[type |-> "map", keys |-> {"k"}]>>
Uneven   == <<[type |-> "map", keys |-> {"k"}], [type |-> "map", keys |-> {"l"}]>>
ListItem == <<[type |-> "list", keys |-> {}]>>

(* The producers. *)
ContainerP == [Base("P", "container") EXCEPT !.outParams = OutParam({}),
                 !.outArts = <<Art("x", XPath, nil, "none")>>, !.archive = TRUE]
ScriptP    == Base("P", "script")
DaemonP    == [ContainerP EXCEPT !.daemon = TRUE]
ResourceP  == [Base("P", "resource") EXCEPT !.outParams = OutParam({}),
                 !.outArts = <<Art("x", nil, nil, "none")>>, !.archive = TRUE]
StepsP     == [Base("P", "steps") EXCEPT
                 !.steps = <<<<Step("a", "Q", NoArgs)>>>>,
                 !.outParams = OutParam({StepParameter("a", "o")}),
                 !.outArts = <<Art("x", nil, {StepArtifact("a", "x")}, "none")>>]
SkippingP  == [StepsP EXCEPT !.steps = <<<<[Step("a", "Q", NoArgs) EXCEPT !.when = {}]>>>>]
SourcelessP == [ContainerP EXCEPT !.outParams = OutParam(nil)]
EmptyP      == Base("P", "steps")
Q == [ContainerP EXCEPT !.name = "Q"]

Producers == {ContainerP, ScriptP, DaemonP, ResourceP, StepsP}

(* What a step may refer to. *)
TagsAbout(s) == {StepIP(s), StepResult(s), StepParameter(s, "o"), StepArtifact(s, "x")}
Universe == TagsAbout("a") \cup {ItemTag, ItemKey("k"), GlobalVarWorkflowName,
                                 GlobalVarWorkflowStatus, InputArtifact("q"),
                                 WorkflowParameter("p")}

Consumer(body) == [Base("C", "container") EXCEPT
                     !.params = <<[name |-> "p", default |-> nil, value |-> nil]>>,
                     !.body = body]
Given(text) == [params |-> <<[name |-> "p", value |-> text]>>, arts |-> <<>>]
Exit == [Base("X", "container") EXCEPT !.body = {GlobalVarWorkflowStatus}]

TwoSteps(producer, a, b, consumer, together) ==
  Workflow(<<[Base("main", "steps") EXCEPT
                !.steps = IF together THEN <<<<a, b>>>> ELSE <<<<a>>, <<b>>>>],
             producer, consumer, Q, Exit>>,
           Given({}), "X")

StepA == Step("a", "P", NoArgs)

(* Every producer, run once, with items or under a condition, and every    *)
(* reference of the step after it or beside it.                            *)
References ==
  {TwoSteps(producer, a, [Step("b", "C", Given({tag})) EXCEPT !.items = items],
            Consumer({InputParameter("p")}), together) :
     producer \in Producers,
     a \in {StepA, [StepA EXCEPT !.items = OneKey], [StepA EXCEPT !.when = {}]},
     tag \in Universe, items \in {<<>>, OneKey}, together \in BOOLEAN}

(* Artifacts from the step before, a parameter of it, nowhere, or in place.*)
Artifacts ==
  {TwoSteps(producer, a,
            Step("b", "C", [Given({}) EXCEPT !.arts = args]),
            [Consumer({}) EXCEPT !.arts = <<Art("q", XPath, nil, loc)>>], together) :
     producer \in Producers \cup {SkippingP}, a \in {StepA, [StepA EXCEPT !.when = {}]},
     args \in {<<>>} \cup {<<Art("q", nil, from, "none")>> :
                             from \in {{StepArtifact("a", "x")}, {StepParameter("a", "o")},
                                       {StepArtifact("b", "x")}, {InputArtifact("q")}, {}}},
     loc \in {"none", "s3", "git without repo"}, together \in BOOLEAN}

(* Conditions, items and parameters that the steps use themselves. *)
Clauses ==
  {TwoSteps(producer, StepA,
            [Step("b", "C", Given(text)) EXCEPT !.items = items, !.when = when, !.withParam = param],
            Consumer(body), FALSE) :
     producer \in {ScriptP, SourcelessP, EmptyP}, text \in {nil, {}, {ItemTag}, {ItemKey("k")}},
     items \in {<<>>, Scalar, OneKey, Uneven, ListItem},
     when \in {nil, {StepResult("a")}}, param \in {nil, {StepResult("a")}},
     body \in {{}, {ItemTag}, {GlobalVarWorkflowStatus}}}

(* Steps that call templates already visited, or each other in a circle.   *)
Calls ==
  {Workflow(<<[Base("main", "steps") EXCEPT !.steps = <<<<Step("a", "P", NoArgs), Step("b", "C", args)>>>>],
              [Base("P", "steps") EXCEPT !.steps = <<<<Step("a", first, Given({}))>>,
                                                     <<Step(name, second, NoArgs)>>>>],
              Consumer({}), [Q EXCEPT !.types = types]>>, Given(value), exit) :
     args \in {NoArgs, Given({})}, first \in {"C", "P", "none"}, second \in {"Q", "main", "C"},
     name \in {"b", "a", "no name"}, types \in {{"container"}, {"container", "script"}, {}},
     value \in {{}, nil}, exit \in {nil, "Q", "none"}}

(* Inputs with texts of their own, arguments of the workflow, and exit      *)
(* handlers that were called before.                                       *)
Inputs ==
  LET input(default, value) == <<[name |-> "p", default |-> default, value |-> value]>>
      main(type, p) == [Base("main", type) EXCEPT !.params = p]
      used(p, body) == [Consumer(body) EXCEPT !.params = p, !.arts = <<Art("q", XPath, nil, "s3")>>]
      file(from)    == [Given({}) EXCEPT !.arts = <<Art("q", nil, from, "none")>>]
  IN  {Workflow(<<[main("steps", p) EXCEPT !.steps = <<<<Step("b", "C", args)>>>>],
                  used(q, body)>>, given, exit) :
         p \in {input(default, nil) : default \in {nil, {ItemTag}, {GlobalVarWorkflowStatus}}}
               \cup {input(nil, value) : value \in {{}, {ItemTag}}},
         q \in {input(default, nil) : default \in {nil, {InputParameter("p")}, {GlobalVarWorkflowName}}},
         args \in {NoArgs, Given({InputParameter("p")})},
         body \in {{InputParameter("p")}, {InputArtifact("q")}},
         given \in {NoArgs, Given({}), Given({InputParameter("p")})}, exit \in {nil, "main", "C"}}
      \cup
      {Workflow(<<[used(input(default, value), {tag}) EXCEPT !.name = "main", !.arts[1].loc = "none"]>>,
                given, nil) :
         default \in {nil, {GlobalVarWorkflowName}}, value \in {nil, {}, {InputParameter("p")}},
         tag \in {InputParameter("p"), WorkflowParameter("p")},
         given \in {NoArgs, file(nil), file({ItemTag}), [file({}) EXCEPT !.params[1].value = {ItemTag}]}}

(* Single pods. *)
Paths == {<<"/", "s">>, <<"/", "s", "/", "t">>, <<"/", "s", "t">>, <<"/", "x">>}
UserMount(vol, path) == [vol |-> vol, path |-> path, sub |-> <<>>]
MountLists == {<<>>} \cup {<<UserMount(vol, path)>> : vol \in {"v", "w", "none"}, path \in Paths}
              \cup {<<UserMount("v", <<"/", "s">>), UserMount("w", path)>> : path \in Paths}
ArtLists == {<<>>} \cup {<<Art("p", path, nil, "s3")>> : path \in Paths}
            \cup {<<Art("p", <<"/", "s", "/", "t">>, nil, "s3"), Art("q", path, nil, "s3")>> : path \in Paths}
SidecarLists == {<<>>} \cup {<<[mounts |-> mounts, mirror |-> mirror]>> :
                               mounts \in {<<>>, <<UserMount("w", <<"/", "s">>)>>}, mirror \in BOOLEAN}
Pods ==
  {Workflow(<<[Base("main", type) EXCEPT !.mounts = IF type = "container" THEN mounts ELSE <<>>,
                 !.arts = arts, !.sidecars = sidecars]>>, NoArgs, nil) :
     type \in {"container", "script"}, mounts \in MountLists, arts \in ArtLists,
     sidecars \in SidecarLists}
  \cup
  {Workflow(<<[Base("main", type) EXCEPT !.outArts = <<Art("x", path, nil, loc)>>, !.archive = archive,
                 !.deadline = deadline, !.arts = arts]>>, NoArgs, nil) :
     type \in {"container", "resource"}, path \in {nil, XPath}, loc \in {"none", "s3"},
     archive \in BOOLEAN, deadline \in {"none", "not positive"},
     arts \in {<<>>, <<Art("p", nil, nil, "s3")>>}}

MCWorkflows == References \cup Artifacts \cup Clauses \cup Calls \cup Inputs \cup Pods
MCPods == Pods
=============================================================================
