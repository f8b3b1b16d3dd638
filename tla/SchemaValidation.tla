--------------------------- MODULE SchemaValidation ---------------------------
(***************************************************************************)
(* SchemaValidator.ValidatePayload of schema.go: a schema is prepared (its  *)
(* references resolved, its quirks ironed out), the payload is adjusted to  *)
(* it (blank optional enum members are dropped, and the branch of a choice  *)
(* that fits best decides which), and what is left is validated.           *)
(*                                                                         *)
(* A schema is a record with those of the fields type, enum, properties,    *)
(* required, closed (additionalProperties: false), items, allOf, oneOf,     *)
(* anyOf and ref that it has.  A payload is a record with one field, named  *)
(* for its JSON type; a number keeps its text, which is how enums compare.  *)
(***************************************************************************)
EXTENDS Integers, FiniteSetsExt, SequencesExt

CONSTANTS
    Components, \* what a $ref may point to: a schema for every name
    Cases,      \* the schemas and payloads ValidatePayload is called with
    Schemata,   \* schemas in use, as they are written, resolved and prepared
    Prepared,   \* those that payloads are adjusted to, and what merging makes of them
    Payloads,   \* payloads in use
    Size        \* of each schema and payload: a part is smaller than the whole

VARIABLES
    schema,     \* the schema of the call
    payload,    \* the payload of the call
    pc,         \* where the call is
    prepared,   \* PrepareSchema's result
    normalized, \* NormalizePayloadForSchema's result
    outcome     \* what the call returned

vars == <<schema, payload, pc, prepared, normalized, outcome>>

Has(s, field) == field \in DOMAIN s

Field(s, field, default) == IF Has(s, field) THEN s[field] ELSE default

\* f, and what g has besides.
Over(f, g) == [x \in DOMAIN f \union DOMAIN g |-> IF x \in DOMAIN f THEN f[x] ELSE g[x]]

Keywords == {"allOf", "oneOf", "anyOf"}

\* F applied to every schema directly inside s.
Inside(F, s) ==
    [f \in DOMAIN s |->
        CASE f \in Keywords -> [i \in DOMAIN s[f] |-> F[s[f][i]]]
          [] f = "properties" -> [n \in DOMAIN s[f] |-> F[s[f][n]]]
          [] f = "items" -> F[s[f]]
          [] OTHER -> s[f]]

Children(s) ==
    (UNION {Range(s[k]) : k \in DOMAIN s \intersect Keywords})
      \union Range(Field(s, "properties", << >>))
      \union (IF Has(s, "items") THEN {s.items} ELSE {})

\* A schema and everything inside it.
Parts[s \in Schemata] == {s} \union UNION {Parts[c] : c \in Children(s)}

--------------------------------------------------------------------------------

\* ResolveSchema: what stands beside a $ref overrides the target.  A reference may lead
\* to another; the code does not look for cycles.
Deref(s) == Over(RestrictDomain(s, LAMBDA f : f # "ref"), Field(Components, s.ref, << >>))

Resolvable[s \in Schemata] ==
    IF Has(s, "ref")
    THEN s.ref \in DOMAIN Components /\ Resolvable[Deref(s)]
    ELSE \A c \in Children(s) : Resolvable[c]

ResolveSchema[s \in Schemata] ==
    IF Has(s, "ref") THEN ResolveSchema[Deref(s)] ELSE Inside(ResolveSchema, s)

\* A bug: the spelling of a type is kept.
KeepTypeName(t) == t

\* The spellings of the bundled schemas; one that is not known stays, and is not checked.
NormalizeTypeName(t) ==
    CASE t \in {"Integer", "int64", "long"} -> "integer"
      [] t = "enum, country" -> "string"
      [] OTHER -> t

\* A schema s with its parts, normalized to n: a required name is a property, if any are
\* declared.
Corrected(n) ==
    [f \in DOMAIN n |->
        CASE f = "type" -> NormalizeTypeName(n.type)
          [] f = "properties" -> Over(n.properties, [name \in Field(n, "required", {}) |-> << >>])
          [] OTHER -> n[f]]

NormalizeSchema[s \in Schemata] == Corrected(Inside(NormalizeSchema, s))

--------------------------------------------------------------------------------

IsObject(p) == DOMAIN p = {"obj"}
IsArray(p) == DOMAIN p = {"arr"}
Scalars == {"str", "num", "bool", "null"}

\* How fmt prints a scalar; what it prints of an object or array is in no enum.
Text(p) == IF DOMAIN p \subseteq Scalars THEN p[CHOOSE k \in Scalars : Has(p, k)] ELSE "map"

Blank == [str |-> ""]

\* The kind of payload a type asks for; a type that is not known asks for none.
KindOf(type) ==
    CASE type = "object" -> {"obj"} [] type = "array" -> {"arr"} [] type = "string" -> {"str"}
      [] type \in {"integer", "number"} -> {"num"} [] type = "boolean" -> {"bool"}
      [] OTHER -> Scalars \union {"obj", "arr"}

\* What validateAgainstSchema finds wrong with p, given what it finds under smaller schemas:
\* in the branches of allOf,
BranchErrors(errors, s, p) ==
    SumFunction([i \in DOMAIN Field(s, "allOf", << >>) |-> errors[<<s.allOf[i], p>>]])

\* in choices without a branch that p fits,
Unmatched(errors, s, p) ==
    {k \in DOMAIN s \intersect {"oneOf", "anyOf"} :
        \A i \in DOMAIN s[k] : errors[<<s[k][i], p>>] > 0}

\* in the members of an object,
MemberErrors(errors, s, p) ==
    LET declared == Field(s, "properties", << >>)
    IN  Cardinality(Field(s, "required", {}) \ DOMAIN p.obj)
          + SumFunction([k \in DOMAIN p.obj |->
                            IF k \in DOMAIN declared THEN errors[<<declared[k], p.obj[k]>>]
                            ELSE IF Has(s, "closed") THEN 1 ELSE 0])

\* and in the items of an array.
ItemErrors(errors, s, p) == SumFunction([i \in DOMAIN p.arr |-> errors[<<s.items, p.arr[i]>>]])

TypeErrors(errors, s, p) ==
    LET type == Field(s, "type", "none")
    IN  CASE ~(DOMAIN p \subseteq KindOf(type)) -> 1
          [] type = "object" /\ IsObject(p) -> MemberErrors(errors, s, p)
          [] type = "array" /\ IsArray(p) /\ Has(s, "items") -> ItemErrors(errors, s, p)
          [] OTHER -> 0

ErrorsOf(errors, s, p) ==
    IF Has(s, "enum") /\ Text(p) \notin s.enum THEN 1
    ELSE BranchErrors(errors, s, p) + Cardinality(Unmatched(errors, s, p)) + TypeErrors(errors, s, p)

\* validateAgainstSchema: the number of errors it collects.
Errors[call \in Schemata \X Payloads] == ErrorsOf(Errors, call[1], call[2])

--------------------------------------------------------------------------------

\* mergeSchemaBranch: a branch of keyword k, seen with what stands around the choice.
Merge(s, b, k) ==
    LET rest == RestrictDomain(s, LAMBDA f : f # k)
    IN  [f \in DOMAIN rest \union DOMAIN b |->
            CASE f = "properties" -> Over(Field(b, f, << >>), Field(rest, f, << >>))
              [] f = "required" -> Field(rest, f, {}) \union Field(b, f, {})
              [] OTHER -> Field(b, f, Field(rest, f, << >>))]

\* A bug: any value that is not in the enum is dropped.
DropUnknown(k, v, s) ==
    LET q == s.properties[k]
    IN  /\ k \notin Field(s, "required", {})
        /\ Field(q, "type", "none") = "string"
        /\ Has(q, "enum") /\ Text(v) \notin q.enum

\* shouldDropEmptyOptionalEnumValue
Drops(k, v, s) ==
    LET q == s.properties[k]
    IN  /\ k \notin Field(s, "required", {})
        /\ v = Blank
        /\ Field(q, "type", "none") = "string"
        /\ Has(q, "enum") /\ "" \notin q.enum

\* A bug: the last branch decides.
LastBranch(errors) == Max(DOMAIN errors)

\* The first branch with the fewest errors.
BestBranch(errors) == Min({i \in DOMAIN errors : \A j \in DOMAIN errors : errors[i] <= errors[j]})

\* p adjusted to one schema after the other.
InTurn(adjust, schemas, p) == FoldLeft(LAMBDA q, s : adjust[<<s, q>>], p, schemas)

\* normalizeAllOfPayload, given how payloads are adjusted to smaller schemas
AdjustedAllOf(adjust, s, p) ==
    InTurn(adjust, [i \in DOMAIN s.allOf |-> Merge(s, s.allOf[i], "allOf")], p)

\* normalizeVariantPayload
AdjustedVariant(adjust, s, p, k) ==
    LET merged == [i \in DOMAIN s[k] |-> Merge(s, s[k][i], k)]
        fitted == [i \in DOMAIN s[k] |-> adjust[<<merged[i], p>>]]
    IN  IF DOMAIN s[k] = {} THEN p
        ELSE fitted[BestBranch([i \in DOMAIN s[k] |-> Errors[<<merged[i], fitted[i]>>]])]

AdjustedMembers(adjust, s, p) ==
    LET declared == Field(s, "properties", << >>)
        kept == {k \in DOMAIN p.obj : k \in DOMAIN declared => ~Drops(k, p.obj[k], s)}
    IN  [obj |-> [k \in kept |->
            IF k \in DOMAIN declared THEN adjust[<<declared[k], p.obj[k]>>] ELSE p.obj[k]]]

AdjustedItems(adjust, s, p) == [arr |-> [i \in DOMAIN p.arr |-> adjust[<<s.items, p.arr[i]>>]]]

\* allOf comes before oneOf, and oneOf before anyOf.
Adjusted(adjust, s, p) ==
    LET keywords == DOMAIN s \intersect Keywords
        type == Field(s, "type", "none")
    IN  CASE "allOf" \in keywords -> AdjustedAllOf(adjust, s, p)
          [] "allOf" \notin keywords /\ "oneOf" \in keywords -> AdjustedVariant(adjust, s, p, "oneOf")
          [] keywords = {"anyOf"} -> AdjustedVariant(adjust, s, p, "anyOf")
          [] keywords = {} /\ type = "object" /\ IsObject(p) -> AdjustedMembers(adjust, s, p)
          [] keywords = {} /\ type = "array" /\ IsArray(p) /\ Has(s, "items") ->
                AdjustedItems(adjust, s, p)
          [] OTHER -> p

\* NormalizePayloadForSchema
NormalizePayload[call \in Prepared \X Payloads] == Adjusted(NormalizePayload, call[1], call[2])

--------------------------------------------------------------------------------

\* What is left of p when blank members named in names are dropped, given that of its parts.
Remains(left, names, p) ==
    {q \in Payloads :
        CASE IsObject(p) ->
                /\ IsObject(q) /\ DOMAIN q.obj \subseteq DOMAIN p.obj
                /\ \A k \in DOMAIN q.obj : q.obj[k] \in left[p.obj[k]]
                /\ \A k \in DOMAIN p.obj \ DOMAIN q.obj : k \in names /\ p.obj[k] = Blank
          [] IsArray(p) ->
                /\ IsArray(q) /\ DOMAIN q.arr = DOMAIN p.arr
                /\ \A i \in DOMAIN q.arr : q.arr[i] \in left[p.arr[i]]
          [] OTHER -> q = p}

\* The payloads left when blank members named in names are dropped from p, at any depth.
Dropped(p, names) ==
    LET left[r \in Payloads] == Remains(left, names, r) IN left[p]

Spellings ==
    {"object", "array", "string", "integer", "number", "boolean", "null", "Integer", "int64",
     "long", "enum, country"}

\* A schema whose parts are in use: every $ref leads to something smaller, so that none leads
\* back to itself.
IsSchema(s) ==
    /\ \A k \in DOMAIN s \intersect Keywords : s[k] \in Seq(Schemata)
    /\ \A c \in Children(s) : c \in Schemata /\ Size[c] < Size[s]
    /\ Has(s, "ref") => Deref(s) \in Schemata /\ Size[Deref(s)] < Size[s]
    /\ IsFiniteSet(Field(s, "required", {}))
    /\ Field(s, "type", "null") \in Spellings

\* A JSON value.
IsPayload(p) ==
    /\ \E kind \in Scalars \union {"obj", "arr"} : DOMAIN p = {kind}
    /\ IsObject(p) => IsFiniteSet(DOMAIN p.obj)
    /\ IsArray(p) => IsFiniteSet(DOMAIN p.arr)
    /\ \A q \in (IF IsObject(p) THEN Range(p.obj) ELSE IF IsArray(p) THEN Range(p.arr) ELSE {}) :
        q \in Payloads /\ Size[q] < Size[p]

Names == UNION {DOMAIN p.obj : p \in {q \in Payloads : IsObject(q)}}

\* The sets above are closed: under taking parts, preparing the schemas of the cases, merging
\* branches, and dropping blank members.
ASSUME SchemaAssumption ==
    /\ Size \in [Schemata \union Payloads -> Nat]
    /\ << >> \in Schemata
    /\ \A s \in Schemata : IsSchema(s)
    /\ \A p \in Payloads : IsPayload(p)
    /\ \A c \in Cases :
        /\ c.schema \in Schemata /\ c.payload \in Payloads
        /\ Resolvable[c.schema] =>
            LET resolved == ResolveSchema[c.schema]
            IN  resolved \in Schemata /\ NormalizeSchema[resolved] \in Prepared
    /\ Prepared \subseteq Schemata
    /\ \A s \in Prepared :
        /\ Children(s) \subseteq Prepared
        /\ \A k \in DOMAIN s \intersect Keywords : \A b \in Range(s[k]) :
            Merge(s, b, k) \in Prepared /\ Size[Merge(s, b, k)] < Size[s]
    /\ \A p \in Payloads :
        /\ IsObject(p) =>
            \A D \in SUBSET DOMAIN p.obj :
                \A f \in [D -> UNION {Dropped(v, Names) : v \in Range(p.obj)}] :
                    /\ \A k \in D : f[k] \in Dropped(p.obj[k], Names)
                    /\ \A k \in DOMAIN p.obj \ D : p.obj[k] = Blank
                    => [obj |-> f] \in Payloads
        /\ IsArray(p) =>
            \A f \in [DOMAIN p.arr -> UNION {Dropped(v, Names) : v \in Range(p.arr)}] :
                (\A i \in DOMAIN f : f[i] \in Dropped(p.arr[i], Names)) => [arr |-> f] \in Payloads

--------------------------------------------------------------------------------

TypeOK ==
    /\ pc \in {"called", "prepared", "normalized", "returned"}
    /\ \A s \in Parts[prepared] :
        /\ ~Has(s, "ref")
        /\ Field(s, "type", "null") \in
            {"object", "array", "string", "integer", "number", "boolean", "null"}
    /\ DOMAIN normalized = DOMAIN payload
    /\ outcome \in {"none", "accepted", "rejected", "unresolved"}

Init ==
    /\ \E c \in Cases : schema = c.schema /\ payload = c.payload
    /\ pc = "called"
    /\ prepared = << >>
    /\ normalized = payload
    /\ outcome = "none"

\* PrepareSchema; an unresolvable reference ends the call.
Prepare ==
    /\ pc = "called"
    /\ IF Resolvable[schema]
       THEN /\ prepared' = NormalizeSchema[ResolveSchema[schema]]
            /\ pc' = "prepared"
            /\ UNCHANGED outcome
       ELSE /\ outcome' = "unresolved"
            /\ pc' = "returned"
            /\ UNCHANGED prepared
    /\ UNCHANGED <<schema, payload, normalized>>

Normalize ==
    /\ pc = "prepared"
    /\ normalized' = NormalizePayload[<<prepared, payload>>]
    /\ pc' = "normalized"
    /\ UNCHANGED <<schema, payload, prepared, outcome>>

Validate ==
    /\ pc = "normalized"
    /\ outcome' = IF Errors[<<prepared, normalized>>] = 0 THEN "accepted" ELSE "rejected"
    /\ pc' = "returned"
    /\ UNCHANGED <<schema, payload, prepared, normalized>>

Next == Prepare \/ Normalize \/ Validate

Spec == Init /\ [][Next]_vars

--------------------------------------------------------------------------------

\* What a schema with its references resolved means, read on its own: every part of it
\* holds of p.  A oneOf is an anyOf, a name that is required is permitted, and the fields of
\* an object are looked at only if its type is given.
Meant(meaning, s, p) ==
    LET type == NormalizeTypeName(Field(s, "type", "none"))
        required == Field(s, "required", {})
        declared == Field(s, "properties", << >>)
        permitted == DOMAIN declared \union (IF Has(s, "properties") THEN required ELSE {})
    IN  /\ Has(s, "enum") => Text(p) \in s.enum
        /\ Has(s, "allOf") => \A b \in Range(s.allOf) : meaning[<<b, p>>]
        /\ Has(s, "oneOf") => \E b \in Range(s.oneOf) : meaning[<<b, p>>]
        /\ Has(s, "anyOf") => \E b \in Range(s.anyOf) : meaning[<<b, p>>]
        /\ DOMAIN p \subseteq KindOf(type)
        /\ type = "object" =>
            /\ required \subseteq DOMAIN p.obj
            /\ \A k \in DOMAIN declared \intersect DOMAIN p.obj : meaning[<<declared[k], p.obj[k]>>]
            /\ Has(s, "closed") => DOMAIN p.obj \subseteq permitted
        /\ type = "array" /\ Has(s, "items") => \A v \in Range(p.arr) : meaning[<<s.items, v>>]

Conforms[call \in Schemata \X Payloads] == Meant(Conforms, call[1], call[2])

\* An enum of strings without the blank one.
LacksBlank(s) ==
    /\ NormalizeTypeName(Field(s, "type", "none")) = "string"
    /\ Has(s, "enum") /\ "" \notin s.enum

\* Names that some part of s declares as such an enum.
Excusable(s) ==
    UNION {{k \in DOMAIN q.properties : LacksBlank(q.properties[k])} :
           q \in {r \in Parts[s] : Has(r, "properties")}}

\* Those that s itself does, and does not require.
Optional(s) ==
    {k \in DOMAIN Field(s, "properties", << >>) \ Field(s, "required", {}) :
        LacksBlank(s.properties[k])}

\* p without the blank members that s has an optional enum for, be it in a branch of an
\* allOf.  No branch of a choice is taken, so a choice excuses nothing.
Pardon(pardoned, s, p) ==
    LET type == NormalizeTypeName(Field(s, "type", "none"))
        declared == Field(s, "properties", << >>)
        kept == {k \in DOMAIN p.obj : k \in Optional(s) => p.obj[k] # Blank}
    IN  CASE Has(s, "allOf") -> InTurn(pardoned, s.allOf, p)
          [] DOMAIN s \intersect Keywords = {} /\ type = "object" /\ IsObject(p) ->
                [obj |-> [k \in kept |->
                    IF k \in DOMAIN declared THEN pardoned[<<declared[k], p.obj[k]>>] ELSE p.obj[k]]]
          [] DOMAIN s \intersect Keywords = {} /\ type = "array" /\ IsArray(p) /\ Has(s, "items") ->
                [arr |-> [i \in DOMAIN p.arr |-> pardoned[<<s.items, p.arr[i]>>]]]
          [] OTHER -> p

Pardoned[call \in Schemata \X Payloads] == Pardon(Pardoned, call[1], call[2])

\* q, which is what is left of p, fits s: as Meant has it, but that a branch of a choice may
\* pardon more of p.
Fitting(fits, s, p, q) ==
    LET type == NormalizeTypeName(Field(s, "type", "none"))
        required == Field(s, "required", {})
        declared == Field(s, "properties", << >>)
        permitted == DOMAIN declared \union (IF Has(s, "properties") THEN required ELSE {})
    IN  /\ Has(s, "enum") => Text(q) \in s.enum
        /\ Has(s, "allOf") => \A b \in Range(s.allOf) : fits[<<b, p, q>>]
        /\ \A k \in DOMAIN s \intersect {"oneOf", "anyOf"} :
            \E b \in Range(s[k]) : fits[<<b, p, Pardoned[<<b, p>>]>>]
        /\ DOMAIN q = DOMAIN p /\ DOMAIN q \subseteq KindOf(type)
        /\ type = "object" =>
            /\ required \subseteq DOMAIN q.obj
            /\ \A k \in DOMAIN declared \intersect DOMAIN p.obj \intersect DOMAIN q.obj :
                fits[<<declared[k], p.obj[k], q.obj[k]>>]
            /\ Has(s, "closed") => DOMAIN q.obj \subseteq permitted
        /\ type = "array" /\ Has(s, "items") =>
            \A i \in DOMAIN p.arr \intersect DOMAIN q.arr : fits[<<s.items, p.arr[i], q.arr[i]>>]

Fits[call \in Schemata \X Payloads \X Payloads] == Fitting(Fits, call[1], call[2], call[3])

\* Nothing but blank members is ever forgiven: what is accepted conforms to the schema once
\* some blank enum members of the payload are dropped (schema.go:355-454, 600-698).
OnlyBlanksForgiven ==
    outcome = "accepted" =>
        \E q \in Dropped(payload, Excusable(ResolveSchema[schema])) :
            Conforms[<<ResolveSchema[schema], q>>]

Branches(s) == UNION {Range(s[k]) : k \in DOMAIN s \intersect Keywords}

\* No part of s lets be dropped what a part of t at the same place requires.
Sparing(spares, s, t) ==
    LET declared == DOMAIN Field(s, "properties", << >>) \intersect DOMAIN Field(t, "properties", << >>)
    IN  /\ \A b \in Branches(s) : spares[<<b, t>>]
        /\ \A b \in Branches(t) : spares[<<s, b>>]
        /\ Optional(s) \intersect Field(t, "required", {}) = {}
        /\ \A k \in declared : spares[<<s.properties[k], t.properties[k]>>]
        /\ Has(s, "items") /\ Has(t, "items") => spares[<<s.items, t.items>>]

Spares[pair \in Schemata \X Schemata] == Sparing(Spares, pair[1], pair[2])

\* A keyword stands alone, but for a type that the branches state too.
StandsAlone(s) ==
    \A k \in DOMAIN s \intersect Keywords :
        /\ DOMAIN s \subseteq {k, "type"}
        /\ Has(s, "type") => \A b \in Range(s[k]) : Has(b, "type")

\* So it is in every part of s, and no branch spoils what another is about.
Regular(s) == (\A q \in Parts[s] : StandsAlone(q)) /\ Spares[<<s, s>>]

\* A payload that fits a regular schema, but for blank members it has an optional enum for,
\* is accepted: of the branches of a choice one is found that fits, and neither what one
\* branch has dropped nor what is dropped later is missed by another (schema.go:418-454).
BlanksForgiven ==
    LET resolved == ResolveSchema[schema]
    IN  outcome = "rejected" /\ Regular(resolved) =>
            ~Fits[<<resolved, payload, Pardoned[<<resolved, payload>>]>>]
================================================================================
