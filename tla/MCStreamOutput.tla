--------------------------- MODULE MCStreamOutput ---------------------------
(* Small workflows of every shape the stream has to cope with.             *)
EXTENDS StreamOutput

Lit == [node |-> "", field |-> ""]
Var(n) == [node |-> n, field |-> "output"]
Reason(n) == [node |-> n, field |-> "reasoning_content"]
E(f, t) == [from |-> f, to |-> t, label |-> ""]
L(f, l, t) == [from |-> f, to |-> t, label |-> l]
W(order, kind, edges, template, reasoning, guarded) ==
  [order |-> order, kind |-> kind, edges |-> edges, template |-> template,
   reasoning |-> reasoning, guarded |-> guarded, start |-> "s",
   manner |-> [n \in {m \in DOMAIN kind : kind[m] = "llm"} |-> "turns"]]
KindOf(models, branches, ends, rest) ==
  [n \in models \cup branches \cup ends \cup rest \cup {"s"} |->
     IF n = "s" THEN "start" ELSE IF n \in models THEN "llm"
     ELSE IF n \in branches THEN "branch" ELSE IF n \in ends THEN "end"
     ELSE IF n = "h" THEN "human" ELSE "plain"]

\* A branch decides between two answers; one shows a model's reasoning, too.
Branching ==
  W(<<"s", "if", "a", "x", "E1", "E2">>, KindOf({"a"}, {"if"}, {"E1", "E2"}, {"x"}),
    {E("s", "if"), L("if", "T", "a"), L("if", "F", "x"), L("a", "SUCCESS", "E1"), E("x", "E2")},
    [E1 |-> <<Lit, Reason("a"), Lit, Var("a")>>, E2 |-> <<Var("sys"), Lit, Var("x")>>],
    {"a"}, {})

\* Two models in parallel, joined in one answer.
Joining ==
  W(<<"s", "a", "b", "E1">>, KindOf({"a", "b"}, {}, {"E1"}, {}),
    {E("s", "a"), E("s", "b"), L("a", "SUCCESS", "E1"), L("b", "SUCCESS", "E1")},
    [E1 |-> <<Lit, Var("a"), Lit, Var("b")>>], {}, {})

\* Two answers in parallel.
Twofold ==
  W(<<"s", "a", "b", "E1", "E2">>, KindOf({"a", "b"}, {}, {"E1", "E2"}, {}),
    {E("s", "a"), E("s", "b"), L("a", "SUCCESS", "E1"), L("b", "SUCCESS", "E2")},
    [E1 |-> <<Lit, Var("a")>>, E2 |-> <<Lit, Var("b"), Lit>>], {}, {})

\* An Output node on the way to the End node.
Staged ==
  W(<<"s", "a", "E1", "b", "E2">>, KindOf({"a", "b"}, {}, {"E1", "E2"}, {}),
    {E("s", "a"), L("a", "SUCCESS", "E1"), E("E1", "b"), L("b", "SUCCESS", "E2")},
    [E1 |-> <<Var("a"), Lit>>, E2 |-> <<Lit, Var("b"), Lit>>], {}, {})

\* An Output node on one of two branches that join before the End node.
Optional ==
  W(<<"s", "if", "E1", "x", "E2">>, KindOf({}, {"if"}, {"E1", "E2"}, {"x"}),
    {E("s", "if"), L("if", "T", "E1"), L("if", "F", "x"), E("E1", "E2"), E("x", "E2")},
    [E1 |-> <<Lit>>, E2 |-> <<Lit, Var("x"), Lit>>], {}, {})

\* A model with an error branch.
Guarded ==
  W(<<"s", "a", "E1", "E2">>, KindOf({"a"}, {}, {"E1", "E2"}, {}),
    {E("s", "a"), L("a", "SUCCESS", "E1"), L("a", "ERROR", "E2")},
    [E1 |-> <<Lit, Var("a")>>, E2 |-> <<Lit>>], {}, {"a"})

\* A branch that is resolved while a model already writes for the End behind it.
Midway ==
  W(<<"s", "a", "if", "x", "E1", "E2">>, KindOf({"a"}, {"if"}, {"E1", "E2"}, {"x"}),
    {E("s", "a"), E("s", "if"), L("if", "T", "E1"), L("if", "F", "E2"), L("a", "SUCCESS", "x")},
    [E1 |-> <<Lit, Var("a")>>, E2 |-> <<Lit, Var("a")>>], {}, {})

\* An answer that becomes active while another one is written.
Crossing ==
  W(<<"s", "a", "if", "E2", "E1">>, KindOf({"a"}, {"if"}, {"E1", "E2"}, {}),
    {E("s", "a"), E("s", "if"), L("a", "SUCCESS", "E1"), L("if", "T", "E2"), L("if", "F", "E1")},
    [E1 |-> <<Lit, Var("a"), Lit>>, E2 |-> <<Lit, Var("sys")>>], {}, {})

\* An intermediate answer, a person's approval, and the answer behind it.
Approved ==
  W(<<"s", "a", "E0", "h", "b", "E1", "E2">>, KindOf({"a", "b"}, {}, {"E0", "E1", "E2"}, {"h"}),
    {E("s", "a"), L("a", "SUCCESS", "E0"), E("E0", "h"), L("h", "CASE1", "b"),
     L("h", "TIMEOUT", "E2"), L("b", "SUCCESS", "E1")},
    [E0 |-> <<Lit, Var("a")>>, E1 |-> <<Lit, Var("a"), Var("h"), Var("b")>>, E2 |-> <<Lit>>],
    {}, {})

\* An answer that has begun when a person is asked.
Begun ==
  W(<<"s", "a", "h", "E1">>, KindOf({"a"}, {}, {"E1"}, {"h"}),
    {E("s", "a"), L("a", "SUCCESS", "h"), L("a", "SUCCESS", "E1"), L("h", "CASE1", "E1")},
    [E1 |-> <<Lit, Var("a"), Var("h"), Reason("a")>>], {"a"}, {})

\* A variable that is used twice.
Quoted ==
  W(<<"s", "a", "E1", "E2">>, KindOf({"a"}, {}, {"E1", "E2"}, {}),
    {E("s", "a"), L("a", "SUCCESS", "E1"), E("E1", "E2")},
    [E1 |-> <<Var("a"), Lit, Var("a")>>, E2 |-> <<Lit, Var("a")>>], {}, {})

\* An answer that names the second model first.
Reversed ==
  W(<<"s", "a", "b", "E1">>, KindOf({"a", "b"}, {}, {"E1"}, {}),
    {E("s", "a"), L("a", "SUCCESS", "b"), L("b", "SUCCESS", "E1")},
    [E1 |-> <<Lit, Var("b"), Lit, Var("a")>>], {}, {})

\* A model whose chunks are not what it puts into the pool, with its reasoning and
\* without; there is text before, between and behind the variables.
Written(manner, reasoning, segments) ==
  [W(<<"s", "a", "E1">>, KindOf({"a"}, {}, {"E1"}, {}),
     {E("s", "a"), L("a", "SUCCESS", "E1")}, [E1 |-> segments], reasoning, {})
   EXCEPT !.manner = [a |-> manner]]
Thinking == {Written(manner, {"a"}, <<Lit, Reason("a"), Lit, Var("a"), Lit>>) :
               manner \in {"mixed", "inline", "stopped"}}
Stopped  == Written("stopped", {}, <<Lit, Var("a"), Lit>>)

MCWorkflows == {Reversed, Begun, Quoted, Branching, Joining, Twofold, Staged, Optional, Guarded,
                Midway, Crossing, Approved, Stopped} \cup Thinking
=============================================================================
