-------------------------------- MODULE Surface --------------------------------
(***************************************************************************)
(* From configuration to a call of the generated SDK: settings are layered *)
(* and validated (config.go), NewClient loads the registries and describes *)
(* every operation of the golden inventory by its schema, and a call maps  *)
(* its arguments, is addressed by the settings or the schema, and has its  *)
(* answer held against the schema found for the path it was sent to        *)
(* (sdk.go, client.go).  What happens to the request in between, the module *)
(* Request shows.                                                          *)
(***************************************************************************)
EXTENDS SchemaRegistry

CONSTANTS
    Inventory,      \* golden operations: [template, method, query: sequence of names]
    snakeCase,      \* the function of that name on the names in use
    AccountId,      \* the name account_id
    DefaultURL,     \* a base URL is [host, valid, slash]: it may end in slashes
    Environments,   \* [env, dotenv]: the variables that are set in each layer
    Given,          \* settings a program may pass: [baseURL, accountID, inRange]
    Calls,          \* arguments of calls: [op, path, query, body]
    Statuses,
    Payloads        \* of answers and bodies, named after the schema they conform to

IsURL(u) ==
    /\ u = [host |-> u.host, valid |-> u.valid, slash |-> u.slash]
    /\ {u.valid, u.slash} \subseteq BOOLEAN

\* Names that are spelt alike are the same name.
Apart(names) ==
    /\ Len(names) \in Nat /\ DOMAIN names = 1..Len(names)
    /\ \A i, j \in DOMAIN names :
        {names[i], snakeCase[names[i]]} \intersect {names[j], snakeCase[names[j]]} # {} =>
            names[i] = names[j]

\* The program calls what there is, what it configures has the right form, and neither the
\* schemas nor the inventory have an operation with two query parameters spelt alike: the
\* bundled ones have none.  No schema is called "none".
ASSUME SurfaceAssumption ==
    /\ \A c \in Calls : c.op \in Inventory
    /\ IsURL(DefaultURL) /\ DefaultURL.valid /\ ~DefaultURL.slash
    /\ \A s \in Given :
        /\ s = [baseURL |-> s.baseURL, accountID |-> s.accountID, inRange |-> s.inRange]
        /\ IsURL(s.baseURL)
    /\ \A e \in Environments : \A layer \in {e.env, e.dotenv} :
        "ZOOM_BASE_URL" \in DOMAIN layer => IsURL(layer["ZOOM_BASE_URL"])
    /\ \A o \in Inventory : Apart(o.query)
    /\ \A c \in Corpora : \A i \in DOMAIN c : c[i].family # "webhooks" =>
        \A o \in c[i].entries : Apart(o.query) /\ \A m \in DOMAIN o.request : o.request[m] # "none"

VARIABLES
    settings,   \* of the client
    sdk,        \* what is known of each operation of the inventory
    call,       \* the last call
    request,    \* what was sent for it, if anything
    answer,     \* what was answered
    verdict     \* what became of the call

surfaceVars == <<settings, sdk, call, request, answer, verdict>>
vars == <<registryVars, phase, surfaceVars>>

None == [kind |-> "none"]

TypeOK ==
    /\ corpus \in Corpora
    /\ next \in 1..Len(corpus) + 1
    /\ read \subseteq 1..next - 1
    /\ phase \in {"settings", "configured", "loading", "loaded", "ready", "sent", "failed"}
    /\ phase \in {"loading", "loaded", "ready", "sent"} =>
        settings.baseURL.valid /\ ~settings.baseURL.slash /\ settings.inRange
    /\ phase \in {"ready", "sent"} => DOMAIN sdk = Inventory
    /\ phase = "sent" => request # None /\ verdict = "none"
    /\ verdict \in {"none", "refused", "accepted"}
    /\ verdict = "accepted" => answer # None

Init ==
    /\ RegistryInit
    /\ phase = "settings"
    /\ settings = None
    /\ sdk = None
    /\ call = None
    /\ request = None
    /\ answer = None
    /\ verdict = "none"

--------------------------------------------------------------------------------

\* A program passes settings of its own, raw or changed after loading.
Configure ==
    /\ phase = "settings"
    /\ settings' \in Given
    /\ phase' = "configured"
    /\ UNCHANGED <<registryVars, sdk, call, request, answer, verdict>>

\* envValue: a variable that is set hides the .env file even when it is blank.
EnvValue(e, key, fallback) ==
    IF key \in DOMAIN e.env THEN e.env[key]
    ELSE IF key \in DOMAIN e.dotenv THEN e.dotenv[key]
    ELSE fallback

Valid(s) == s.baseURL.valid /\ s.inRange

\* A bug: the URL is checked but not normalized.
CheckedOnly(s) == s

\* Validate drops the slashes at the end of the path.
Normalized(s) == [s EXCEPT !.baseURL.slash = FALSE]

\* LoadSettingsFromEnvironment
LoadSettings(e) ==
    /\ phase = "settings"
    /\ LET s == [baseURL |-> EnvValue(e, "ZOOM_BASE_URL", DefaultURL),
                 accountID |-> EnvValue(e, "ZOOM_ACCOUNT_ID", Empty),
                 inRange |-> EnvValue(e, "ZOOM_TOKEN_SKEW_SECONDS", TRUE)]
       IN IF Valid(s) THEN settings' = Normalized(s) /\ phase' = "configured"
                      ELSE phase' = "failed" /\ UNCHANGED settings
    /\ UNCHANGED <<registryVars, sdk, call, request, answer, verdict>>

\* NewClient validates whatever settings it is given, and then loads the registries.
NewClient ==
    /\ phase = "configured"
    /\ IF Valid(settings) THEN settings' = Normalized(settings) /\ phase' = "loading"
                          ELSE phase' = "failed" /\ UNCHANGED settings
    /\ UNCHANGED <<registryVars, sdk, call, request, answer, verdict>>

LoadSchemas == Load /\ UNCHANGED surfaceVars

SchemasLoaded == Loaded /\ UNCHANGED surfaceVars

--------------------------------------------------------------------------------

\* enrichFromSchema looks the template up as if it were a path.
Specs(o) ==
    LET found == Candidates(o.method, o.template)
    IN IF found = {} THEN {} ELSE {Found(o.method, o.template)}

\* pickRequestSchema, of an operation that may have no schema
BodySchemas(o) ==
    LET picked == UNION {PickJSONMedia(spec.request) : spec \in Specs(o)}
    IN IF picked = {} THEN {"none"} ELSE picked

\* sdkParametersForOperation, and the golden names where there is nothing better
QueryParameters(o) ==
    IF \E spec \in Specs(o) : spec.query # << >> THEN Found(o.method, o.template).query ELSE o.query

\* NewSDK
NewSDK ==
    /\ phase = "loaded"
    /\ \E body \in [Inventory -> UNION {BodySchemas(o) : o \in Inventory}] :
        /\ \A o \in Inventory : body[o] \in BodySchemas(o)
        /\ sdk' = [o \in Inventory |->
                    [spec |-> Specs(o), body |-> body[o], query |-> QueryParameters(o)]]
    /\ phase' = "ready"
    /\ UNCHANGED <<registryVars, settings, call, request, answer, verdict>>

--------------------------------------------------------------------------------

Placeholders(o) == {o.template[i] : i \in DOMAIN o.template} \intersect Params

\* resolvePathParams: the name as it is in the path, then in snake case, then the default.
PathArguments(c, name) ==
    IF name \in DOMAIN c.path THEN {c.path[name]}
    ELSE IF snakeCase[name] \in DOMAIN c.path THEN {c.path[snakeCase[name]]}
    ELSE IF snakeCase[name] = AccountId /\ settings.accountID # Empty THEN {settings.accountID}
    ELSE {}

PathArgument(c, name) == CHOOSE v \in PathArguments(c, name) : TRUE

\* renderPath
Rendered(c) ==
    [i \in DOMAIN c.op.template |->
        IF c.op.template[i] \in Params THEN PathArgument(c, c.op.template[i]) ELSE c.op.template[i]]

\* A bug: only the spelling of the schema is known.
OriginalNameExact(o, key) == key

\* The aliases of resolveQuery: a later parameter overwrites the spelling of an earlier one.
OriginalName(o, key) ==
    LET names == sdk[o].query
        spelt == {i \in DOMAIN names : key \in {names[i], snakeCase[names[i]]}}
    IN IF spelt = {} THEN key
       ELSE names[CHOOSE i \in spelt : \A j \in spelt : j <= i]

\* resolveQuery: of two spellings of one name, the one that comes last in map order wins.
Queries(c) ==
    LET names == {OriginalName(c.op, key) : key \in DOMAIN c.query}
        given(name) ==
            {c.query[key] : key \in {k \in DOMAIN c.query : OriginalName(c.op, k) = name}}
    IN {q \in [names -> UNION {given(name) : name \in names}] :
            \A name \in names : q[name] \in given(name)}

\* A bug: the server of the schema wins.
ServerOfSchema(method, path) ==
    IF Candidates(method, path) # {} /\ Found(method, path).server # ""
    THEN Found(method, path).server
    ELSE settings.baseURL.host

\* baseURLForRequest: settings that differ from the default are authoritative.
Server(method, path) ==
    IF \/ settings.baseURL # DefaultURL
       \/ Candidates(method, path) = {}
       \/ Found(method, path).server = ""
    THEN settings.baseURL.host
    ELSE Found(method, path).server

--------------------------------------------------------------------------------

MissingParameter(c) == \E name \in Placeholders(c.op) : PathArguments(c, name) = {}

\* A bug: no body is looked at.
BodyLetThrough(c) == FALSE

\* validateRequestBody
BodyRefused(c) == c.body # "none" /\ sdk[c.op].body \notin {"none", c.body}

Refuse(c) ==
    /\ phase = "ready"
    /\ MissingParameter(c) \/ BodyRefused(c)
    /\ call' = c
    /\ request' = None
    /\ answer' = None
    /\ verdict' = "refused"
    /\ UNCHANGED <<registryVars, phase, settings, sdk>>

\* Call hands the operation to Client.Request, which renders the path and builds the URL.
Send(c) ==
    /\ phase = "ready"
    /\ ~MissingParameter(c)
    /\ ~BodyRefused(c)
    /\ call' = c
    /\ \E query \in Queries(c) :
        request' = [kind |-> "request", path |-> Rendered(c), query |-> query,
                    server |-> Server(c.op.method, Rendered(c))]
    /\ answer' = None
    /\ verdict' = "none"
    /\ phase' = "sent"
    /\ UNCHANGED <<registryVars, settings, sdk>>

Documented(op, status) == {status, "default"} \intersect DOMAIN op.responses # {}

\* pickResponseSchema: the schemas that may be picked, none if anything is right.
ResponseSchemas(op, status) ==
    PickJSONMedia(op.responses[IF status \in DOMAIN op.responses THEN status ELSE "default"])

\* A bug: a status that is not documented is let through.
JudgementsLax(method, path, status, payload) ==
    IF Candidates(method, path) = {} THEN {"refused"}
    ELSE LET op == Found(method, path)
         IN IF ~Documented(op, status) \/ ResponseSchemas(op, status) = {} THEN {"accepted"}
            ELSE {IF payload = s THEN "accepted" ELSE "refused" : s \in ResponseSchemas(op, status)}

\* ValidateResponse, by the operation that the path sent leads to
Judgements(method, path, status, payload) ==
    IF Candidates(method, path) = {} \/ ~Documented(Found(method, path), status) THEN {"refused"}
    ELSE LET schemas == ResponseSchemas(Found(method, path), status)
         IN IF schemas = {} THEN {"accepted"}
            ELSE {IF payload = s THEN "accepted" ELSE "refused" : s \in schemas}

\* The provider answers with any successful status and any payload.
Answer ==
    /\ phase = "sent"
    /\ \E status \in Statuses, payload \in Payloads :
        /\ answer' = [kind |-> "answer", status |-> status, payload |-> payload]
        /\ verdict' \in Judgements(call.op.method, request.path, status, payload)
    /\ phase' = "ready"
    /\ UNCHANGED <<registryVars, settings, sdk, call, request>>

\* A program has nothing more to do after a failed start.
Next ==
    \/ Configure \/ NewClient \/ LoadSchemas \/ SchemasLoaded \/ NewSDK \/ Answer
    \/ \E e \in Environments : LoadSettings(e)
    \/ \E c \in Calls : Refuse(c) \/ Send(c)

Spec == Init /\ [][Next]_vars

--------------------------------------------------------------------------------

Sent == request # None

\* One path may match both templates.
Overlap(s, t) ==
    /\ DOMAIN s = DOMAIN t
    /\ \A i \in DOMAIN s : s[i] = t[i] \/ {s[i], t[i]} \intersect Params # {}

\* These templates do not part ways at a place where both have a parameter: the names of
\* parameters, which decide the order there, then decide nothing.
PartAtLiteral(s, t) ==
    \A i \in DOMAIN s :
        (\A j \in 1..i - 1 : s[j] = t[j]) /\ {s[i], t[i]} \subseteq Params => s[i] = t[i]

\* No two operations that a lookup may confuse do.  The bundled ones are like that, although
\* they name parameters in many ways.
Regular ==
    \A d, e \in Entries({"endpoints", "master_accounts"}) :
        d.entry.method = e.entry.method /\ Overlap(d.entry.template, e.entry.template) =>
            PartAtLiteral(d.entry.template, e.entry.template)

\* No argument is empty or happens to be a literal segment of some template, as "me" is.
Plain ==
    \A i \in DOMAIN request.path : call.op.template[i] \in Params =>
        /\ request.path[i] # Empty
        /\ \A j \in DOMAIN registry : \A k \in DOMAIN registry[j].entry.template :
            registry[j].entry.template[k] # request.path[i]

\* The operations of the schema tree that an operation of the inventory is named after.
Own(o) ==
    {d \in Declared(o.method, o.template) : d.entry.template = o.template}

\* The SDK describes every operation of the inventory by its own schema, that of the first
\* file that has it, although it looks the template up as if it were a path that other
\* templates match too (sdk.go:332-355).
OwnDescribed ==
    phase \in {"ready", "sent"} /\ Regular =>
        \A o \in Inventory : \A d \in Own(o) :
            (\A e \in Own(o) : d.file <= e.file) => sdk[o].spec = {d.entry}

\* An answer is held against the schema that described the operation before the call,
\* although it is found anew by the path that was sent: nothing is accepted that does not
\* conform to the description, and what conforms, whichever media type is picked, is not
\* refused (client.go:289-321, schema.go:160-175).
JudgedAsDescribed ==
    answer # None /\ Regular /\ Plain /\ Own(call.op) # {} =>
        \A spec \in sdk[call.op].spec :
            LET documented == Documented(spec, answer.status)
                schemas == ResponseSchemas(spec, answer.status)
            IN /\ verdict = "accepted" => documented /\ (schemas = {} \/ answer.payload \in schemas)
               /\ documented /\ schemas \subseteq {answer.payload} => verdict = "accepted"

\* "Settings.BaseURL is authoritative when it differs from the default Zoom API URL"
\* (README.md:109); written with a slash at its end the default is still the default, and
\* an operation goes to the server its own schema names (client.go:243-249).
BaseURLHonored ==
    Sent =>
        IF settings.baseURL.host # DefaultURL.host THEN request.server = settings.baseURL.host
        ELSE Regular /\ Plain /\ Own(call.op) # {} =>
            \A spec \in sdk[call.op].spec :
                request.server = IF spec.server = "" THEN DefaultURL.host ELSE spec.server

\* Every argument a caller gives, in whichever spelling, is sent in its own place, the
\* account a call names before the configured one, and no other query is sent than what
\* was given (sdk.go:362-405).
ArgumentsArrive ==
    Sent =>
        /\ \A i \in DOMAIN request.path :
            LET name == call.op.template[i]
                given == {call.path[k] : k \in DOMAIN call.path \intersect {name, snakeCase[name]}}
            IN name \in Params =>
                IF given # {} THEN request.path[i] \in given
                ELSE snakeCase[name] = AccountId /\ request.path[i] = settings.accountID
        /\ \A name \in DOMAIN request.query : request.query[name] \in {call.query[k] : k \in
                {k \in DOMAIN call.query : k \in {name, snakeCase[name]}}}
        /\ \A key \in DOMAIN call.query : \E name \in DOMAIN request.query :
            key \in {name, snakeCase[name]}
        /\ \A i \in DOMAIN sdk[call.op].query :
            LET name == sdk[call.op].query[i]
            IN {name, snakeCase[name]} \intersect DOMAIN call.query # {} =>
                name \in DOMAIN request.query

\* No body is sent that does not conform to what the operation found for the path it is
\* sent to asks for (sdk.go:174-184, 407-413).
BodyFits ==
    Sent /\ call.body # "none" /\ Regular /\ Plain /\ Own(call.op) # {} =>
        LET asked == PickJSONMedia(Found(call.op.method, request.path).request)
        IN asked = {} \/ call.body \in asked

\* An argument left empty passes for given, and the request reaches another resource, as
\* /users/ does; its answer is never taken for that of the operation called
\* (sdk.go:369, client.go:381-383, schema.go:857-860).
EmptyNeverAccepted ==
    verdict = "accepted" => \A i \in DOMAIN request.path : request.path[i] # Empty
================================================================================
