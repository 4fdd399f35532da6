----------------------------- MODULE MCArguments -----------------------------
(* Schemas and values that nest twice, and paths of up to three segments. *)
EXTENDS Arguments

\* Functions from some of the keys K.
Partial(K, S) == UNION {[D -> S] : D \in SUBSET K}

Leaves == {Leaf(t) : t \in {Absent, "string", "integer", "number", "weird"}}
          \cup {Bounded("integer", 1, 2), Bounded(Absent, 1, 1),
                [Leaf("string") EXCEPT !.enum = {Str(<<"a">>)}]}
NoValue == [Leaf(Absent) EXCEPT !.enum = {}]
Required == {<<>>, <<"path">>, <<"query", "path">>}
Inner == {Schema(t, p, r, c) :
            t \in {"object", Absent},
            p \in Partial({"path"}, {Leaf("string")}),
            r \in {<<>>, <<"path">>}, c \in BOOLEAN}
MCSchemas ==
  Leaves \cup Inner \cup {NoValue, Schema("object", [k \in {"path"} |-> NoValue], <<>>, FALSE)}
  \cup {Schema("object", p, r, c) :
          p \in Partial({"path", "query"}, Leaves), r \in Required, c \in BOOLEAN}
  \cup {Schema("object", p, <<>>, c) : p \in [{"path"} -> Inner], c \in BOOLEAN}

Ref(name) == Str(<<"$secret:", name>>)
Scalars == {Num(0), Num(2), <<"number", 3>>, Str(<<"a">>), Ref("known"), Ref("unknown"),
            <<"null", 0>>}
Nested == {Obj(f) : f \in Partial({"path"}, {Num(2), Str(<<"a">>), Ref("known")})}
Arrays == {<<"array", <<v>>>> : v \in Scalars}
Flat == Nested \cup Arrays \cup {Obj(f) : f \in Partial({"path", "query"}, Scalars)}
Deep == {Obj(f) : f \in Partial({"path", "limit"}, {Num(2)} \cup Nested \cup Arrays)}
MCValues == Scalars \cup Flat \cup Deep

Segments == {"", ".", "..", "a", "a..b"}
MCStrings == UNION {[1..n -> Segments] : n \in 1..3}
MCMemoryArgs ==
  {Obj(f) : f \in Partial({"path"}, {Str(s) : s \in MCStrings} \cup {Num(1)})}
  \cup {Obj(f) : f \in Partial({"path", "content", "query", "collection", "limit"},
                              {Str(<<"a">>), Str(<<"..">>), Num(1)})}

MCLayers ==
  <<Scalars \cup {Str(s) : s \in MCStrings \cup {<<"..">>}} \cup {Num(1)},
    Flat \cup MCMemoryArgs, Deep>>

MCSecretOf == [n \in {"known"} |-> <<"value">>]
=============================================================================
