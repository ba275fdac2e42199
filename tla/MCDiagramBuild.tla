--------------------------- MODULE MCDiagramBuild ---------------------------
(***************************************************************************)
(* Diagrams that together build every kind of operation, and those that    *)
(* cannot be built.                                                        *)
(***************************************************************************)
EXTENDS DiagramBuild, TLC

MCTypes == {"json", "script", "str", "f64", "result", "pair", "keys", "failure"}
MCInto == {<<"f64", "str">>}
MCFallible ==
    ({"f64", "str", "script"} \X {"json"}) \union ({"f64", "str", "json"} \X {"script"})
        \union ({"json", "script"} \X {"f64", "str"})
MCStringifiable == {"f64", "failure"}

-----------------------------------------------------------------------------
(* Schemas *)

NodeOp(request, response, next) ==
    [op |-> "node", request |-> request, response |-> response, next |-> next, streams |-> <<>>, stream_out |-> <<>>]
Streaming(node, stream, type, target) == [node EXCEPT !.streams = stream :> type, !.stream_out = stream :> target]
Cloning(type, next) == [op |-> "fork_clone", type |-> type, next |-> next]
Forking(ok, err) == [op |-> "fork_result", type |-> "result", types |-> <<"f64", "str">>, ok |-> ok, err |-> err]
Unzipping(next) == [op |-> "unzip", type |-> "pair", types |-> <<"f64", "str">>, next |-> next]
Splitting(next) == [op |-> "split", type |-> "json", item |-> "json", next |-> next]
Buffering(type) == [op |-> "buffer", type |-> type]
Using(op, bufs, next) == [op |-> op, request |-> "f64", response |-> "keys", buffers |-> bufs, next |-> next]
Transforming(next, on_error) == [op |-> "transform", failure |-> "failure", next |-> next, on_error |-> on_error]
Scripting(next, on_error, streams) ==
    [op |-> "script", next |-> next, on_error |-> on_error, stream_out |-> streams]
ScopeOp(children, start, next) ==
    [op |-> "scope", request |-> "f64", response |-> "f64", start |-> start, next |-> next, children |-> children,
     terminate |-> "scope:terminate", cancel |-> "scope:cancel", implicit_cancel |-> "scope:implicit_cancel",
     streams |-> "scope:log" :> "f64", stream_out |-> "scope:log" :> "dispose"]
Section(children, inputs, bufs, outs, connect) ==
    [op |-> "template", children |-> children, inputs |-> inputs, buffers |-> bufs, outputs |-> outs,
     connect |-> connect, terminate |-> "section:terminate", outer |-> "terminate"]

D(roots, ops, start, request) ==
    [roots |-> roots, ops |-> ops, start |-> start, request |-> request, response |-> "json",
     streams |-> "log" :> "f64", on_implicit_error |-> "implicit_cancel"]
Flat(ops, start, request) == D(DOMAIN ops, ops, start, request)

-----------------------------------------------------------------------------
(* Diagrams that can be built *)

Forks ==
    Flat("clone" :> Cloning("f64", <<"fork", "unzip">>) @@ "fork" :> NodeOp("f64", "result", "result")
         @@ "result" :> Forking("terminate", "cancel") @@ "unzip" :> NodeOp("f64", "pair", "parts")
         @@ "parts" :> Unzipping(<<"terminate", "dispose">>),
         "clone", "f64")

\* The key is used before the buffer is there, if the order says so.
Keyed ==
    Flat("b" :> Buffering("f64") @@ "access" :> Using("access", {"b"}, "x") @@ "x" :> NodeOp("keys", "json", "b")
         @@ "join" :> Using("join", {"b"}, "cancel") @@ "listen" :> Using("listen", {"b"}, "dispose"),
         "access", "f64")

Converted ==
    [Flat("t" :> Transforming("s", "cancel") @@ "s" :> Scripting("x", "log'", "out" :> "o")
          @@ "o" :> [op |-> "stream_out", stream |-> "log"] @@ "x" :> Streaming(NodeOp("f64", "str", "terminate"), "k", "f64", "t")
          @@ "log'" :> NodeOp("json", "f64", "terminate"),
          "t", "str") EXCEPT !.on_implicit_error = "log'"]

\* Everything that can be cancelled with: a text, a json, something to serialize
Cancelled ==
    Flat("split" :> Splitting("0" :> "cancel" @@ "1" :> "x") @@ "x" :> NodeOp("f64", "script", "cancel"), "split", "json")

\* A scope whose nodes write to a buffer outside and read it
Scoped ==
    D({"b", "scope"},
      "b" :> Buffering("f64") @@ "scope" :> ScopeOp({"y", "join'"}, "y", "terminate")
      @@ "y" :> Streaming(NodeOp("f64", "f64", "scope:terminate"), "k", "f64", "scope:log")
      @@ "join'" :> Using("join", {"b"}, "scope:cancel"),
      "scope", "f64")

\* A section that exposes an input, a buffer and an output
Sectioned ==
    D({"section", "join"},
      "section" :> Section({"inner", "y"}, {<<"section:in", "y">>}, {<<"section:b", "inner">>}, {"section:out", "section:log"},
                           "section:out" :> "dispose")
      @@ "inner" :> Buffering("f64") @@ "y" :> Streaming(NodeOp("f64", "f64", "section:out"), "k", "f64", "section:log")
      @@ "join" :> Using("join", {"section:b"}, "section:terminate"),
      "section:in", "f64")

Built ==
    Flat("section" :> [op |-> "builder", slots |-> "section:in" :> "f64" @@ "section:b" :> "f64",
                       outputs |-> "section:out" :> "f64" @@ "section:log" :> "f64", buffers |-> {"section:b"},
                       connect |-> "section:out" :> "section:b", terminate |-> "section:terminate", outer |-> "terminate"]
         @@ "listen" :> Using("listen", {"section:b"}, "section:terminate'")
         @@ "section:terminate'" :> NodeOp("keys", "json", "terminate"),
         "section:in", "f64")

-----------------------------------------------------------------------------
(* Diagrams that cannot *)

NoBuffers == Flat("join" :> Using("join", {}, "terminate") @@ "x" :> NodeOp("f64", "f64", "terminate"), "x", "f64")
WrongWidth == Flat("parts" :> Unzipping(<<"terminate">>), "parts", "pair")
Twice == D({"scope"}, "scope" :> ScopeOp({"y", "scope:log"}, "y", "terminate") @@ "y" :> NodeOp("f64", "f64", "scope:log")
                      @@ "scope:log" :> NodeOp("f64", "f64", "scope:terminate"), "scope", "f64")
Nowhere == Flat("x" :> NodeOp("f64", "f64", "y"), "x", "f64")
Around ==
    D({"section"},
      "section" :> Section({"x"}, {<<"section:in", "section:out">>}, {}, {"section:out"}, "section:out" :> "section:in")
      @@ "x" :> NodeOp("f64", "f64", "terminate"),
      "section:in", "f64")
Mismatched == Flat("x" :> NodeOp("f64", "result", "y") @@ "y" :> NodeOp("f64", "f64", "terminate"), "x", "f64")

\* Buffers that stand for each other, and one that is none
AroundBuffers ==
    D({"section", "join"},
      "section" :> Section({}, {}, {<<"section:a", "section:b">>, <<"section:b", "section:a">>}, {}, <<>>)
      @@ "join" :> Using("join", {"section:a"}, "terminate"),
      "terminate", "f64")
NoBuffer == Flat("join" :> Using("join", {"x"}, "terminate") @@ "x" :> NodeOp("f64", "f64", "join"), "x", "f64")

\* An output that is converted and one that is not go to an operation that is
\* built in the second iteration.
Reported ==
    [Flat("b" :> Buffering("str") @@ "errors" :> [Using("access", {"b"}, "dispose") EXCEPT !.request = "str"]
          @@ "t" :> Scripting("x", "errors", <<>>) @@ "x" :> NodeOp("f64", "f64", "terminate"),
          "t", "script") EXCEPT !.on_implicit_error = "errors"]

MCDiagrams ==
    "forks" :> Forks @@ "keyed" :> Keyed @@ "converted" :> Converted @@ "cancelled" :> Cancelled @@ "scoped" :> Scoped
        @@ "sectioned" :> Sectioned @@ "built" :> Built @@ "no_buffers" :> NoBuffers @@ "wrong_width" :> WrongWidth
        @@ "twice" :> Twice @@ "nowhere" :> Nowhere @@ "around" :> Around @@ "mismatched" :> Mismatched
        @@ "around_buffers" :> AroundBuffers @@ "no_buffer" :> NoBuffer
MCReported == "reported" :> Reported
=============================================================================
