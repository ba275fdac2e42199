---------------------------- MODULE MCInference ----------------------------
(* A registry and diagrams for Inference, and its instances for TLC *)
EXTENDS Inference, TLC

MCTypes == {"json", "script", "f64", "str", "result", "pair", "keys", "request", "both"}
MCCloneable == MCTypes \ {"keys"}
MCSerializable == {"json", "f64", "str"}
MCScriptable == {"script", "f64"}
MCInto == {<<"f64", "str">>, <<"json", "str">>}

\* Result<f64, str>, (f64, str), Value
MCResultOf == "result" :> <<"f64", "str">>
MCUnzipOf == "pair" :> <<"f64", "str">>
MCSplitOf == "json" :> "json"

Static(hints) == [dynamic |-> FALSE, hints |-> hints]
Dynamic(members) == [dynamic |-> TRUE, members |-> members, hint |-> NoType]

MCJoinOf == "result" :> Static("a" :> "f64") @@ "both" :> Static("a" :> "f64" @@ "b" :> "str") @@ "json" :> Dynamic({"a", "b"})
MCListenOf == "keys" :> Static("a" :> "f64")
MCAccessOf == "keys" :> Static("a" :> "f64")
MCRequestOf == "keys" :> "request"

NodeOp(request, response, next) ==
    [op |-> "node", request |-> request, response |-> response, next |-> next,
     streams |-> <<>>, stream_out |-> <<>>]
Cloning(next) == [op |-> "fork_clone", next |-> next]
Forking(ok, err) == [op |-> "fork_result", ok |-> ok, err |-> err]
Unzipping(next) == [op |-> "unzip", next |-> next]
Splitting(next) == [op |-> "split", next |-> next]
Buffering == [op |-> "buffer", serialize |-> FALSE]
Using(op, buffers, next) == [op |-> op, serialize |-> FALSE, buffers |-> buffers, next |-> next]
ScopeOp(start, terminate, next) ==
    [op |-> "scope", start |-> start, terminate |-> terminate, next |-> next, streams |-> {}]

Section(inputs, outputs, next) ==
    [op |-> "template", inputs |-> inputs, outputs |-> outputs, terminate |-> "terminate''", next |-> next]

D(ops, start, request, response) ==
    [ops |-> ops, start |-> start, request |-> request, response |-> response, streams |-> <<>>]

\* test_split_type_inference
SplitAndJoin ==
    D("split" :> Splitting("0" :> "x" @@ "1" :> "b") @@ "x" :> NodeOp("json", "f64", "a")
      @@ "a" :> Buffering @@ "b" :> Buffering
      @@ "join" :> Using("join", "a" :> "a" @@ "b" :> "b", "terminate"),
      "split", "json", "json")

\* test_fork_clone_type_inference
CloneAndJoin ==
    D("clone" :> Cloning(<<"x", "b">>) @@ "x" :> NodeOp("f64", "f64", "a")
      @@ "a" :> Buffering @@ "b" :> Buffering
      @@ "join" :> Using("join", "a" :> "a" @@ "b" :> "b", "sum")
      @@ "sum" :> NodeOp("both", "f64", "terminate"),
      "clone", "str", "json")

\* The parts of what an operation gives: their types are known from upstream only.
Parts ==
    D("unzip" :> Unzipping(<<"clone", "terminate">>) @@ "clone" :> Cloning(<<"a", "x">>)
      @@ "a" :> Buffering @@ "x" :> NodeOp("str", "str", "terminate"),
      "unzip", "pair", "json")

Branches ==
    D("fork" :> Forking("x", "b") @@ "x" :> NodeOp("f64", "result", "again")
      @@ "again" :> Forking("terminate", "b") @@ "b" :> Buffering,
      "fork", "result", "f64")

\* A fork of a result that is known from downstream only
Backwards ==
    D("join" :> Using("join", "a" :> "a", "fork") @@ "fork" :> Forking("x", "y") @@ "a" :> Buffering
      @@ "x" :> NodeOp("f64", "f64", "terminate") @@ "y" :> NodeOp("str", "str", "terminate"),
      "x", "f64", "str")

\* Several types come into one clone: one that suits the targets is chosen.
Converging(request, targets) ==
    D("start'" :> NodeOp(request, request, "clone") @@ "y" :> NodeOp("str", "f64", "clone")
      @@ "clone" :> Cloning(targets) @@ "x" :> NodeOp("str", "str", "terminate"),
      "start'", request, "json")

\* Several types come into one buffer.
Ambiguous ==
    D("x" :> NodeOp("json", "f64", "b") @@ "y" :> NodeOp("json", "str", "b") @@ "b" :> Buffering
      @@ "c" :> Cloning(<<"x", "y">>),
      "c", "json", "json")

\* Other operations that know their types, and a stream
Known ==
    [D("t" :> [op |-> "transform", next |-> "s"] @@ "s" :> [op |-> "script", next |-> "in", stream_out |-> "k" :> "o"]
      @@ "o" :> [op |-> "stream_out", stream |-> "stream"]
      @@ "section" :> [op |-> "builder", inputs |-> "in" :> "f64", outputs |-> "k" :> "f64", connect |-> "k" :> "b",
                       terminate |-> "terminate'", next |-> "terminate"]
      @@ "b" :> [op |-> "buffer", serialize |-> TRUE]
      @@ "j" :> [op |-> "join", serialize |-> TRUE, buffers |-> "a" :> "b", next |-> "terminate"],
      "t", "json", "json") EXCEPT !.streams = "stream" :> "script"]

\* Two names that stand for each other, and an output of a section that has the
\* name of an operation inside
Circle ==
    D("section" :> Section({<<"in", "out">>}, {<<"out", "in">>}, "terminate"), "in", "json", "json")
SameName ==
    D("section" :> Section({<<"in", "out">>}, {<<"out", "terminate">>}, "terminate") @@ "out" :> Buffering,
      "in", "json", "json")

\* Hints come from downstream: nothing but the types of their users is known.
Hinted ==
    D("access" :> Using("access", "a" :> "a", "x") @@ "listen" :> Using("listen", "a" :> "b", "y")
      @@ "a" :> Buffering @@ "b" :> Buffering @@ "x" :> NodeOp("keys", "json", "terminate")
      @@ "y" :> NodeOp("keys", "json", "terminate"),
      "access", "request", "json")

\* A scope and a section around nodes
Nested ==
    D("scope" :> ScopeOp("clone", "terminate'", "y") @@ "clone" :> Cloning(<<"a", "terminate'">>)
      @@ "a" :> Buffering @@ "y" :> NodeOp("str", "str", "in")
      @@ "section" :> Section({<<"in", "x">>}, {<<"out", "terminate">>}, "terminate")
      @@ "x" :> NodeOp("str", "f64", "out"),
      "scope", "f64", "json")

\* What a fork of a result gives is cloned by the scope behind it.
CloneBehindRedirect ==
    D("fork" :> Forking("scope", "terminate") @@ "scope" :> ScopeOp("clone", "terminate'", "terminate")
      @@ "clone" :> Cloning(<<"a", "b">>) @@ "a" :> Buffering @@ "b" :> Buffering,
      "fork", "result", "str")

\* An error that is disposed of: the built-in target has no port to ask.
Disposed ==
    D("c" :> Cloning(<<"fork", "b">>) @@ "fork" :> Forking("x", "dispose") @@ "b" :> Buffering
      @@ "x" :> NodeOp("f64", "f64", "terminate"),
      "c", "result", "f64")

MCDiagrams ==
    "split" :> SplitAndJoin @@ "join" :> CloneAndJoin @@ "parts" :> Parts @@ "branches" :> Branches
        @@ "backwards" :> Backwards @@ "hints" :> Hinted @@ "nested" :> Nested @@ "known" :> Known
        @@ "converted" :> Converging("json", <<"x", "x">>)
        @@ "serialized" :> Converging("str", <<"terminate", "x">>)
        @@ "refused" :> Converging("keys", <<"x", "x">>)
        @@ "ambiguous" :> Ambiguous @@ "circle" :> Circle @@ "same_name" :> SameName
MCRedirected == "redirected" :> CloneBehindRedirect
MCDisposed == "disposed" :> Disposed
=============================================================================
