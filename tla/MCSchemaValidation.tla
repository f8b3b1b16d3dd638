-------------------------- MODULE MCSchemaValidation --------------------------
(***************************************************************************)
(* SchemaValidation of objects with two members s and t: every pair of     *)
(* small object schemas combined by a keyword, with a part around it, in an *)
(* array, behind a reference.                                              *)
(***************************************************************************)
EXTENDS SchemaValidation

SmallComponents ==
    "Name" :> [type |-> "string", enum |-> {"a"}]
      @@ "Alias" :> [ref |-> "Name"]
      @@ "Count" :> [type |-> "int64"]

Members ==
    {[ref |-> "Alias"], [ref |-> "Count"], [type |-> "string"],
     [type |-> "enum, country", enum |-> {"a", ""}]}

\* An object with a member s, perhaps required, perhaps with t, and perhaps nothing else.
Objects ==
    {o @@ [type |-> "object", properties |-> [s |-> m], required |-> r] :
        m \in Members, r \in {{}, {"s"}, {"t"}}, o \in {[closed |-> TRUE], << >>}}

Demands == {[type |-> "object", required |-> {"t"}], [required |-> {"s"}]}

Open == {o \in Objects : ~Has(o, "closed")}

Pairs ==
    UNION {{[allOf |-> <<a, b>>], [oneOf |-> <<a, b>>], [anyOf |-> <<b, a>>]} :
        a \in Objects, b \in Open \union Demands}

OptionalT == [type |-> "object", properties |-> [t |-> [type |-> "string", enum |-> {"a"}]]]

\* Properties around a choice, two keywords at once, and a choice in a conjunction.
Nested ==
    UNION {{[type |-> "object", properties |-> [t |-> a.properties.s], required |-> {"t"},
             oneOf |-> <<a, b>>],
            [oneOf |-> <<a, b>>, allOf |-> <<[type |-> "object", required |-> {"t"}]>>],
            [oneOf |-> <<a, b>>, anyOf |-> <<b, [type |-> "null"]>>],
            [allOf |-> <<[oneOf |-> <<a, b>>], [type |-> "object", required |-> {"s"}]>>],
            [allOf |-> <<[oneOf |-> <<a, b>>], [type |-> "object", required |-> {"t"}]>>],
            [type |-> "object", allOf |-> <<[oneOf |-> <<a, b>>], OptionalT>>]} :
        a \in {o \in Objects : o.required = {}}, b \in Open}

Wrapped ==
    {[type |-> "array", items |-> o] : o \in Objects}
      \union {[type |-> "array", items |-> [oneOf |-> <<[type |-> "string"], o>>]] : o \in Open}

\* An object in an object, where both have a member s.
Outer(o) == [type |-> "object", required |-> {"s"}, properties |-> [s |-> o]]

Deep ==
    {[allOf |-> <<Outer(a), Outer(b)>>] : a \in {o \in Objects : o.required = {}}, b \in Objects}
      \union {Outer([anyOf |-> <<a, OptionalT>>]) : a \in Objects}

Dangling == {[type |-> "object", properties |-> [s |-> [ref |-> "Gone"]]]}

Values == {Blank, [str |-> "a"], [num |-> "1"]}

Bodies ==
    {[obj |-> f] : f \in [s: Values, t: Values] \union [s: Values]
                            \union {[t |-> [num |-> "1"]]}}

DeepBodies == {[obj |-> [s |-> p]] : p \in Bodies}

Lists == {[arr |-> <<p, q>>] : p \in Bodies, q \in {Blank, [obj |-> [s |-> Blank]]}}

SmallCases ==
    [schema: Objects \union Pairs \union Nested \union Dangling, payload: Bodies]
      \union [schema: Deep, payload: DeepBodies]
      \union [schema: Wrapped, payload: Lists \union {[str |-> "a"]}]

--------------------------------------------------------------------------------

\* S and what Step leads to from there, however often it is taken.
RECURSIVE Closure(_, _)
Closure(Step(_), S) ==
    LET new == (UNION {Step(x) : x \in S}) \ S
    IN  IF new = {} THEN S ELSE S \union Closure(Step, new)

Written ==
    Closure(LAMBDA s : Children(s) \union IF Has(s, "ref") THEN {Deref(s)} ELSE {},
            {c.schema : c \in SmallCases})

RECURSIVE Resolution(_)
Resolution(s) ==
    IF Has(s, "ref") THEN Resolution(Deref(s))
    ELSE Inside([c \in Children(s) |-> Resolution(c)], s)

RECURSIVE Normalization(_)
Normalization(s) == Corrected(Inside([c \in Children(s) |-> Normalization(c)], s))

\* What there is inside a prepared schema, and what merging makes of it.
Seen(s) ==
    Children(s) \union UNION {{Merge(s, b, k) : b \in Range(s[k])} : k \in DOMAIN s \intersect Keywords}

Normalized == {Normalization(Resolution(s)) : s \in Written}

Merged == Closure(Seen, UNION {Seen(s) : s \in Normalized})

PreparedInUse == Normalized \union Merged

SchemataInUse ==
    Written \union {Resolution(s) : s \in Written} \union PreparedInUse

\* Payloads with any of their members gone.
PayloadsInUse ==
    LET gone == UNION {{[obj |-> Restrict(p.obj, D)] : D \in SUBSET DOMAIN p.obj} : p \in Bodies}
        lists == {[arr |-> <<p, q>>] : p \in gone, q \in {Blank} \union {g \in gone : DOMAIN g.obj \subseteq {"s"}}}
    IN  UNION {Values, gone, lists, {[obj |-> [s |-> g]] : g \in gone}}

\* The number of schemas in a schema, or of values in a value.
RECURSIVE Count(_)
Count(x) ==
    IF Has(x, "ref") THEN 1 + Count(Deref(x))
    ELSE 1 + MapThenSumSet(LAMBDA k : SumFunction([i \in DOMAIN x[k] |-> Count(x[k][i])]),
                           DOMAIN x \intersect (Keywords \union {"properties", "obj", "arr"}))
           + IF Has(x, "items") THEN Count(x.items) ELSE 0

Sizes == [x \in SchemataInUse \union PayloadsInUse |-> Count(x)]

\* The values of the constants, under names of their own: TLC evaluates the sets above once,
\* and what a constant is replaced by at every use.
SmallSchemata == SchemataInUse
SmallPrepared == PreparedInUse
SmallPayloads == PayloadsInUse
SmallSize == Sizes
================================================================================
