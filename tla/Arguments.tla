------------------------------ MODULE Arguments ------------------------------
(***************************************************************************)
(* What happens to the arguments of a tool call before a tool acts on them: *)
(* the validator for the JSON schemas of tools                              *)
(* (crates/tool-registry/src/validate.rs), the handlers of the memory tools *)
(* with their schemas and path rules (memory/tools.rs), and the resolution  *)
(* of $secret: references (crates/secrets/src/resolver.rs).                 *)
(* A behaviour is one call: it arrives, is validated against the schema of  *)
(* its tool, and reaches the handler only if it conforms                    *)
(* (ToolRegistry::execute).  What the functions that descend into a value   *)
(* compute is checked against what is found at the end of each path into    *)
(* it, in no order.                                                         *)
(*                                                                         *)
(* A JSON value is a pair <<type, contents>>: an object holds a function    *)
(* from keys, an array a sequence, a number is counted in halves, and a     *)
(* string is a sequence of tokens: for a path its segments, with "" in      *)
(* front when it is absolute.                                               *)
(***************************************************************************)
EXTENDS Naturals, SequencesExt

CONSTANTS Schemas,    \* schemas of tools of other servers
          Layers,     \* JSON values by how deep they nest, scalars first
          Values,     \* arguments of calls of those tools
          MemoryArgs, \* arguments of calls of the memory tools
          Absent,     \* a keyword that a schema does not have
          SecretOf    \* the store: the string each secret's name resolves to

VARIABLES
  schema,   \* the schema of the tool that is called
  args,     \* the arguments
  verdict,  \* what the validator said, or Unchecked
  handled   \* what the handler did, or Nothing

vars == <<schema, args, verdict, handled>>

Str(s) == <<"string", s>>
Num(n) == <<"integer", 2 * n>>
Obj(f) == <<"object", f>>
IsObject(v) == v[1] = "object"
Holds(v) == v[1] \in {"object", "array"}
IsNumber(v) == v[1] \in {"integer", "number"}

\* Keys in the order in which a map is walked.
KeyOrder == <<"collection", "content", "limit", "path", "pattern", "query">>
Key == ToSet(KeyOrder)

NoProps == [k \in {} |-> Absent]
Schema(type, props, required, closed) ==
  [type |-> type, enum |-> Absent, min |-> Absent, max |-> Absent,
   props |-> props, required |-> required, closed |-> closed]
Leaf(type) == Schema(type, NoProps, <<>>, FALSE)

JsonTypes == {"object", "string", "integer", "number", "boolean", "array", "null"}

\* The values of the first n layers, and all: serde_json bounds how deep they nest.
UpTo(n) == UNION {Layers[m] : m \in 1..n}
Json == UpTo(Len(Layers))

ASSUME ValuesAssumption ==
  /\ Layers \in Seq(SUBSET Json)
  /\ \A v \in Json :
       /\ v[1] \in JsonTypes /\ v = <<v[1], v[2]>>
       /\ v[1] = "string" => v[2] \in Seq(STRING)
       /\ Holds(v) => v[2] = [k \in DOMAIN v[2] |-> v[2][k]]
  /\ \A n \in 1..Len(Layers) : \A v \in Layers[n] :
       Holds(v) => \A k \in DOMAIN v[2] : v[2][k] \in UpTo(n - 1)
  /\ Values \cup MemoryArgs \subseteq Json

-----------------------------------------------------------------------------
(* validate_inner *)

HasType(v, type) == v[1] = type \/ (type = "number" /\ IsNumber(v))

\* Whether a keyword of a schema refuses a value, each by itself.
Refuses(keyword, s, v) ==
  CASE keyword = "unknown" -> s.type # Absent /\ s.type \notin JsonTypes
    [] keyword = "type" -> s.type \in JsonTypes /\ ~HasType(v, s.type)
    [] keyword = "enum" -> s.enum # Absent /\ v \notin s.enum
    [] keyword = "minimum" -> s.min # Absent /\ IsNumber(v) /\ v[2] < s.min[2]
    [] keyword = "maximum" -> s.max # Absent /\ IsNumber(v) /\ v[2] > s.max[2]
    [] keyword = "required" ->
         IsObject(v) /\ \E i \in DOMAIN s.required : s.required[i] \notin DOMAIN v[2]
    [] keyword = "additional" ->
         IsObject(v) /\ s.closed /\ \E k \in DOMAIN v[2] : k \notin DOMAIN s.props

Keywords == <<"unknown", "type", "enum", "minimum", "maximum", "required", "additional">>

Conforms == <<>>
Field(k) == <<"object", k>>

\* Mutant: a property is not looked into.
ViolationFlat(s, v, at) ==
  LET here == {i \in DOMAIN Keywords : Refuses(Keywords[i], s, v)}
  IN IF here # {} THEN <<<<>>, Keywords[Min(here)]>> ELSE Conforms

\* The first violation, <<where, keyword>>, if there is one: of the value by itself
\* or in a property, for which `at` says what is found there.
Violation(s, v, at) ==
  LET here == {i \in DOMAIN Keywords : Refuses(Keywords[i], s, v)}
      In(k) == at[<<s.props[k], v[2][k]>>]
      inside == {i \in DOMAIN KeyOrder :
                   /\ IsObject(v) /\ KeyOrder[i] \in DOMAIN s.props \cap DOMAIN v[2]
                   /\ In(KeyOrder[i]) # Conforms}
      first == KeyOrder[Min(inside)]
  IN IF here # {} THEN <<<<>>, Keywords[Min(here)]>>
     ELSE IF inside # {} THEN <<<<Field(first)>> \o In(first)[1], In(first)[2]>>
     ELSE Conforms

-----------------------------------------------------------------------------
(* The memory tools *)

\* The components that are names, in their order.
Keep(names, seg) == IF seg \in {"", ".", ".."} THEN names ELSE Append(names, seg)
Names(raw) ==
  LET upTo[n \in 0..Len(raw)] == IF n = 0 THEN <<>> ELSE Keep(upTo[n - 1], raw[n])
  IN upTo[Len(raw)]

\* Mutant: a path may start at the root.
NormalizeAnywhere(raw) == IF ".." \in ToSet(raw) THEN <<>> ELSE Names(raw)

\* The components of a relative path without `.`; nothing for one that is
\* absolute, goes up or names nothing.
NormalizePath(raw) ==
  IF raw # <<>> /\ raw[1] = "" /\ Len(raw) > 1 THEN <<>>
  ELSE IF ".." \in ToSet(raw) THEN <<>>
  ELSE Names(raw)

Bounded(type, low, high) == [Leaf(type) EXCEPT !.min = Num(low), !.max = Num(high)]

SearchSchema ==
  Schema("object",
         [k \in {"query", "collection", "limit"} |->
            IF k = "limit" THEN Bounded("integer", 1, 100) ELSE Leaf("string")],
         <<"query">>, TRUE)

GetSchema == Schema("object", [k \in {"path"} |-> Leaf("string")], <<"path">>, TRUE)

\* Mutant: the content may be left out.
StoreSchemaLoose ==
  Schema("object", [k \in {"path", "content"} |-> Leaf("string")], <<"path">>, TRUE)

StoreSchema ==
  Schema("object", [k \in {"path", "content"} |-> Leaf("string")], <<"path", "content">>, TRUE)

ListSchema == Schema("object", [k \in {"pattern"} |-> Leaf("string")], <<>>, TRUE)

\* args[key].as_str(): the string under a key, if there is one.
HasStr(a, k) == IsObject(a) /\ k \in DOMAIN a[2] /\ a[2][k][1] = "string"
StrOf(a, k) == a[2][k][2]

Missing == <<"missing">>
Refused == <<"refused">>
Request(name, path) == <<name, path>>

Search(a) ==
  IF ~HasStr(a, "query") THEN Missing
  ELSE IF ~HasStr(a, "collection") THEN Request("search", <<>>)
  ELSE LET dir == NormalizePath(StrOf(a, "collection"))
       IN IF dir = <<>> THEN Refused ELSE Request("search", dir)

Get(a) ==
  IF ~HasStr(a, "path") THEN Missing
  ELSE LET path == NormalizePath(StrOf(a, "path"))
       IN IF path = <<>> THEN Refused ELSE Request("get", path)

Store(a) ==
  IF ~HasStr(a, "path") \/ ~HasStr(a, "content") THEN Missing
  ELSE LET path == NormalizePath(StrOf(a, "path"))
       IN IF path = <<>> THEN Refused ELSE Request("store", path)

\* A pattern is refused for two dots anywhere, in a name too.
List(a) ==
  IF HasStr(a, "pattern") /\ ToSet(StrOf(a, "pattern")) \cap {"..", "a..b"} # {}
  THEN Refused
  ELSE Request("list", IF HasStr(a, "pattern") THEN StrOf(a, "pattern") ELSE <<>>)

MemorySchemas == {SearchSchema, GetSchema, StoreSchema, ListSchema}

\* The schemas that validation comes by.
AllSchemas ==
  Schemas \cup MemorySchemas
    \cup UNION {{s.props[k] : k \in DOMAIN s.props} : s \in MemorySchemas}

ASSUME SchemasAssumption ==
  \A s \in Schemas : DOMAIN s.props \subseteq Key /\ \A k \in DOMAIN s.props : s.props[k] \in Schemas

Validate(s, v) ==
  LET at[c \in AllSchemas \X Json] == Violation(c[1], c[2], at)
  IN at[<<s, v>>]

\* The handler registered with a schema.
Handle(a) ==
  CASE schema = SearchSchema -> Search(a)
    [] schema = GetSchema -> Get(a)
    [] schema = StoreSchema -> Store(a)
    [] schema = ListSchema -> List(a)

-----------------------------------------------------------------------------
(* Secret references *)

IsRef(v) == v[1] = "string" /\ v[2] # <<>> /\ v[2][1] = "$secret:"

\* Mutant: references inside an array are not looked for.
HasRefsOutsideArrays(v) ==
  \/ IsRef(v)
  \/ IsObject(v) /\ \E k \in DOMAIN v[2] : IsRef(v[2][k])

HasRefs(v) ==
  LET has[w \in Json] == IsRef(w) \/ (Holds(w) /\ \E k \in DOMAIN w[2] : has[w[2][k]])
  IN has[v]

Unresolved == <<"unresolved", 0>>

\* The string that a reference stands for.
Secret(v) == IF v[2][2] \in DOMAIN SecretOf THEN Str(SecretOf[v[2][2]]) ELSE Unresolved

\* A value whose contents have become those of f.
Rebuilt(v, f) == IF \E k \in DOMAIN f : f[k] = Unresolved THEN Unresolved ELSE <<v[1], f>>

\* The value with every reference replaced, or Unresolved when one of them names
\* no secret.
Resolve(v) ==
  LET to[w \in Json] == IF IsRef(w) THEN Secret(w)
                        ELSE IF ~Holds(w) THEN w
                        ELSE Rebuilt(w, [k \in DOMAIN w[2] |-> to[w[2][k]]])
  IN to[v]

-----------------------------------------------------------------------------
(* A call *)

Unchecked == <<"unchecked">>
Nothing == <<>>

\* Values of the variables that change; a handler runs for a call that conforms.
TypeOK ==
  /\ verdict \in {Unchecked, Conforms} \/ verdict[2] \in ToSet(Keywords)
  /\ handled \in {Nothing, Missing, Refused} \/ handled[1] \in {"search", "get", "store", "list"}
  /\ handled # Nothing => verdict = Conforms

Init ==
  /\ \/ schema \in Schemas /\ args \in Values
     \/ schema \in MemorySchemas /\ args \in MemoryArgs
  /\ verdict = Unchecked
  /\ handled = Nothing

CheckArguments ==
  /\ verdict = Unchecked
  /\ verdict' = Validate(schema, args)
  /\ UNCHANGED <<schema, args, handled>>

Execute ==
  /\ verdict = Conforms
  /\ schema \in MemorySchemas
  /\ handled = Nothing
  /\ handled' = Handle(args)
  /\ UNCHANGED <<schema, args, verdict>>

Next == CheckArguments \/ Execute

Spec == Init /\ [][Next]_vars

-----------------------------------------------------------------------------
(* Properties *)

\* A path into a value is a sequence of the fields and items to enter.  At its end
\* is one value, or none.
Doors == UNION {{<<v[1], k>> : k \in DOMAIN v[2]} : v \in {w \in Json : Holds(w)}}
Paths == UNION {[1..n -> Doors] : n \in 0..(Len(Layers) - 1)}

Enter(found, door) == {v[2][door[2]] : v \in {w \in found : w[1] = door[1] /\ door[2] \in DOMAIN w[2]}}
At(v, path) ==
  LET found[n \in 0..Len(path)] == IF n = 0 THEN {v} ELSE Enter(found[n - 1], path[n])
  IN found[Len(path)]

\* The same for a value and its schema, <<schema, value>>.
EnterBoth(found, door) ==
  {<<c[1].props[door[2]], c[2][2][door[2]]>> :
     c \in {d \in found : /\ IsObject(d[2]) /\ door[1] = "object"
                         /\ door[2] \in DOMAIN d[1].props \cap DOMAIN d[2][2]}}
Under(s, v, path) ==
  LET found[n \in 0..Len(path)] == IF n = 0 THEN {<<s, v>>} ELSE EnterBoth(found[n - 1], path[n])
  IN found[Len(path)]

\* The validator accepts exactly the values in which nothing that the schema speaks
\* of breaks a keyword, in whatever order it looks, and the violation it reports to
\* the agent is one.
ValidatorAgrees ==
  LET Breaks(path, kw) == \E c \in Under(schema, args, path) : Refuses(kw, c[1], c[2])
  IN CASE verdict = Unchecked -> TRUE
       [] verdict = Conforms -> \A path \in Paths, kw \in ToSet(Keywords) : ~Breaks(path, kw)
       [] OTHER -> Breaks(verdict[1], verdict[2])

\* Schema and handler of a memory tool are written apart and have to agree: what
\* the schema lets through, the handler never finds incomplete.
SchemasFitHandlers == handled # Missing

\* Where a path leads from the directory of the store, component by component: how
\* many directories up, and then down through which.
Move(at, name) ==
  CASE name \in {"", "."} -> at
    [] name = ".." /\ at.down # <<>> -> [at EXCEPT !.down = Front(@)]
    [] name = ".." /\ at.down = <<>> -> [at EXCEPT !.up = @ + 1]
    [] OTHER -> [at EXCEPT !.down = Append(@, name)]
LeadsTo(raw) ==
  LET at[n \in 0..Len(raw)] == IF n = 0 THEN [up |-> 0, down |-> <<>>] ELSE Move(at[n - 1], raw[n])
  IN at[Len(raw)]

\* What the backend is asked for, a document or the directory to search, is what the
\* argument leads to from the directory of the store, and lies inside it.  (A list
\* has no such promise: its pattern is looked at for two dots only, tools.rs:294.)
RequestsStayInside ==
  LET Inside(raw) == raw[1] # "" /\ LeadsTo(raw) = [up |-> 0, down |-> handled[2]]
  IN handled \notin {Nothing, Missing, Refused} =>
       /\ handled[1] \in {"get", "store"} => Inside(StrOf(args, "path"))
       /\ handled[1] = "search" =>
            IF HasStr(args, "collection") THEN Inside(StrOf(args, "collection"))
                                          ELSE handled[2] = <<>>

\* References are found exactly where they are, in whatever object or array; a value
\* resolves unless one of them names no secret, to one that differs from it only
\* there.  So has_secret_refs may decide whether resolution is needed.
RefsAgree ==
  LET Ref(path) == \E v \in At(args, path) : IsRef(v)
      Alike(v, r) == v[1] = r[1] /\ IF Holds(v) THEN DOMAIN v[2] = DOMAIN r[2] ELSE v = r
  IN /\ HasRefs(args) <=> \E path \in Paths : Ref(path)
     /\ ~HasRefs(args) => Resolve(args) = args
     /\ Resolve(args) = Unresolved <=>
          \E path \in Paths : \E v \in At(args, path) : IsRef(v) /\ Secret(v) = Unresolved
     /\ Resolve(args) # Unresolved =>
          \A path \in Paths :
            \/ At(args, path) = {} /\ At(Resolve(args), path) = {}
            \/ \E v \in At(args, path), r \in At(Resolve(args), path) :
                 IF IsRef(v) THEN r = Secret(v) ELSE Alike(v, r)
=============================================================================
