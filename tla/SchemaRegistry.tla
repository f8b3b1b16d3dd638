---------------------------- MODULE SchemaRegistry ----------------------------
(***************************************************************************)
(* The schema and webhook registries of schema.go: files are loaded in the *)
(* order of a directory walk, the operations of one file in the random     *)
(* order of Go maps, and a lookup takes the first operation that matches.  *)
(*                                                                         *)
(* A path is a sequence of segments, and segments are numbers in the order *)
(* of their bytes; a parameter such as {userId} is a segment of a template *)
(* and sorts after every literal one.                                      *)
(***************************************************************************)
EXTENDS Integers, Sequences, FiniteSets

CONSTANTS
    Params,     \* the segments that are parameters
    Empty,      \* the segment without a character
    JSONLike,   \* media types that look like JSON, beyond the preferred ones
    Corpora,    \* the schema trees there may be: sequences of files in walk order
    Methods,    \* what operations are looked up by
    Actual      \* the request paths looked up

Families == {"endpoints", "master_accounts", "webhooks"}

\* A file holds operations or webhooks.  The keys of a JSON object are unique: a file has
\* one operation for a template and a method.  Templates have no empty segments, and the
\* brace of a parameter sorts after letters and digits.
ASSUME RegistryAssumption ==
    /\ Params \subseteq Int
    /\ Empty \in Int \ Params
    /\ \A c \in Corpora : DOMAIN c = 1..Len(c) /\ Len(c) \in Nat /\ \A i \in DOMAIN c :
        /\ c[i].family \in Families
        /\ c[i].wellFormed \in BOOLEAN
        /\ IsFiniteSet(c[i].entries)
        /\ c[i].family # "webhooks" => \A o \in c[i].entries :
            /\ o.template \in Seq(Int \ {Empty})
            /\ \A j \in DOMAIN o.template : o.template[j] \notin Params =>
                \A param \in Params : o.template[j] < param
            /\ \A p \in c[i].entries : o.template = p.template /\ o.method = p.method => o = p

\* The title of a webhook is that of its file, where it has its operation id, if any, for
\* itself.
ASSUME WebhookAssumption ==
    \A c \in Corpora : \A i \in DOMAIN c :
        c[i].family = "webhooks" => \A w, v \in c[i].entries :
            /\ w.title = v.title
            /\ w.event = v.event /\ w.id = v.id /\ w.id # "" => w = v

VARIABLES
    corpus,     \* the schema tree this process has
    next,       \* the file the walk is at
    read,       \* the files that have been read
    registry,   \* operations in the order they were loaded, with their file
    hooks,      \* webhooks likewise
    phase       \* of the client under construction

registryVars == <<corpus, next, read, registry, hooks>>

RegistryInit ==
    /\ corpus \in Corpora
    /\ next = 1
    /\ read = {}
    /\ registry = << >>
    /\ hooks = << >>

--------------------------------------------------------------------------------

Preferred == <<"application/json", "application/json; charset=utf-8", "application/scim+json">>

\* PickJSONMedia: the preferred type that is there first, or else any type that looks like
\* JSON, in map order.  The set of the schemas that may be picked, empty for none.
PickJSONMedia(content) ==
    LET there == {i \in DOMAIN Preferred : Preferred[i] \in DOMAIN content}
    IN IF there # {}
       THEN {content[Preferred[i]] : i \in {j \in there : \A k \in there : j <= k}}
       ELSE {content[m] : m \in DOMAIN content \intersect JSONLike}

\* What a file adds: a webhook without a JSON payload is left out.
Listed(file) ==
    IF file.family = "webhooks" THEN {w \in file.entries : PickJSONMedia(w.content) # {}}
                                ELSE file.entries

\* The orders in which these may come out of the maps of a file.
Orders(file) ==
    {s \in [1..Cardinality(Listed(file)) -> [file : {next}, entry : Listed(file)]] :
        \A e \in Listed(file) : \E i \in DOMAIN s : s[i].entry = e}

\* A bug: every family goes to the front of the registry.
LoadFileInFront(file) ==
    /\ file.wellFormed
    /\ \E s \in Orders(file) : IF file.family = "webhooks"
                               THEN hooks' = hooks \o s /\ UNCHANGED registry
                               ELSE registry' = s \o registry /\ UNCHANGED hooks
    /\ read' = read \union {next}
    /\ next' = next + 1
    /\ UNCHANGED <<corpus, phase>>

\* loadPathOperations and loadWebhookOperations, called by the walk
LoadFile(file) ==
    /\ file.wellFormed
    /\ \E s \in Orders(file) : IF file.family = "webhooks"
                               THEN hooks' = hooks \o s /\ UNCHANGED registry
                               ELSE registry' = registry \o s /\ UNCHANGED hooks
    /\ read' = read \union {next}
    /\ next' = next + 1
    /\ UNCHANGED <<corpus, phase>>

\* IsNotExist ends the walk of a family without an error.
Vanished(file) ==
    /\ \E n \in next + 1..Len(corpus) + 1 :
        /\ \A i \in next..n - 1 : corpus[i].family = file.family
        /\ n <= Len(corpus) => corpus[n].family # file.family
        /\ next' = n
    /\ UNCHANGED <<corpus, read, registry, hooks, phase>>

\* Any other error, or one in a file's content, fails the constructor.
BadFile(file) ==
    /\ phase' = "failed"
    /\ UNCHANGED registryVars

Load ==
    /\ phase = "loading"
    /\ next <= Len(corpus)
    /\ \/ LoadFile(corpus[next])
       \/ Vanished(corpus[next])
       \/ BadFile(corpus[next])

Loaded ==
    /\ phase = "loading"
    /\ next > Len(corpus)
    /\ phase' = "loaded"
    /\ UNCHANGED registryVars

--------------------------------------------------------------------------------

\* The order of strings on templates.
Precedes(s, t) ==
    \/ Len(s) < Len(t) /\ \A i \in DOMAIN s : s[i] = t[i]
    \/ \E i \in DOMAIN s \intersect DOMAIN t :
        s[i] < t[i] /\ \A j \in 1..i - 1 : s[j] = t[j]

\* A bug: a parameter also stands for nothing at all.
MatchesEmpty(template, path) ==
    /\ DOMAIN template = DOMAIN path
    /\ \A i \in DOMAIN template : template[i] \in Params \/ path[i] = template[i]

\* templatePathToRegex: a parameter stands for any segment that is not empty.
Matches(template, path) ==
    /\ DOMAIN template = DOMAIN path
    /\ \A i \in DOMAIN template :
        IF template[i] \in Params THEN path[i] # Empty ELSE path[i] = template[i]

Candidates(method, path) ==
    {i \in DOMAIN registry :
        registry[i].entry.method = method /\ Matches(registry[i].entry.template, path)}

\* A bug: the operations stay in the order they were loaded.
FindOperationUnsorted(method, path) ==
    CHOOSE i \in Candidates(method, path) :
        \A j \in Candidates(method, path) \ {i} : i < j

\* FindOperation takes the first of the operations sorted by template and, the sort being
\* stable, by position; operations of other methods never match.
FindOperation(method, path) ==
    CHOOSE i \in Candidates(method, path) :
        \A j \in Candidates(method, path) \ {i} :
            LET s == registry[i].entry.template
                t == registry[j].entry.template
            IN Precedes(s, t) \/ (s = t /\ i < j)

Found(method, path) == registry[FindOperation(method, path)].entry

--------------------------------------------------------------------------------

\* A bug: with a title the operation id is not looked at.
WebhookMatchesEither(event, title, id) ==
    {i \in DOMAIN hooks : /\ hooks[i].entry.event = event
                          /\ IF title # "" THEN title = hooks[i].entry.title
                                           ELSE id \in {"", hooks[i].entry.id}}

\* The webhooks of an event that the hints leave; no hint is the empty one.
WebhookMatches(event, title, id) ==
    {i \in DOMAIN hooks : /\ hooks[i].entry.event = event
                          /\ title \in {"", hooks[i].entry.title}
                          /\ id \in {"", hooks[i].entry.id}}

\* ValidateWebhook: the webhook a payload is held against, the first of the matches, or
\* none, if none matches or if several do and there is no hint.
ValidateWebhook(event, title, id) ==
    LET matches == WebhookMatches(event, title, id)
    IN IF Cardinality(matches) > 1 /\ title = "" /\ id = "" THEN {}
       ELSE {hooks[i] : i \in {j \in matches : \A k \in matches : j <= k}}

--------------------------------------------------------------------------------

\* What the files that have been read hold, whatever order it came out in.
Entries(families) ==
    UNION {[file : {i}, entry : Listed(corpus[i])] :
            i \in {j \in read : corpus[j].family \in families}}

Declared(method, path) ==
    {d \in Entries({"endpoints", "master_accounts"}) :
        d.entry.method = method /\ Matches(d.entry.template, path)}

\* Of two operations that match, a lookup prefers the lesser template, and of one template
\* the file that is read first.
Preferable(d, e) ==
    \/ Precedes(d.entry.template, e.entry.template)
    \/ d.entry.template = e.entry.template /\ d.file < e.file

\* Files come one after the other and the operations of each in any order, yet whatever
\* is looked up, a lookup gives the one operation of the schema tree that is preferable to
\* all others, and finds nothing only if there is nothing (schema.go:75-109, 138-147).
LookupStable ==
    phase = "loaded" => \A m \in Methods, p \in Actual :
        /\ Candidates(m, p) = {} <=> Declared(m, p) = {}
        /\ Declared(m, p) # {} =>
            LET found == registry[FindOperation(m, p)]
            IN /\ found \in Declared(m, p)
               /\ \A e \in Declared(m, p) \ {found} : Preferable(found, e)

\* The webhooks of an event declared in the files that have been read, as far as these
\* hints leave them, and those in the first of their files.
Hinted(event, title, id) ==
    {d \in Entries({"webhooks"}) : /\ d.entry.event = event
                                   /\ title \in {"", d.entry.title}
                                   /\ id \in {"", d.entry.id}}

FirstHinted(event, title, id) ==
    {d \in Hinted(event, title, id) : \A e \in Hinted(event, title, id) : d.file <= e.file}

\* Several are refused without a hint.  Otherwise one of the first file counts, and it is
\* the only one there, unless that file declares the event several times and no id is given.
Decided(event, title, id) ==
    LET result == ValidateWebhook(event, title, id)
        hinted == Hinted(event, title, id)
    IN IF hinted = {} \/ (title = "" /\ id = "" /\ \E d, e \in hinted : d # e)
       THEN result = {}
       ELSE /\ \E d \in FirstHinted(event, title, id) : result = {d}
            /\ id # "" => result = FirstHinted(event, title, id)

\* The files decide what a payload is held against, in whatever order an event comes out of
\* their maps: nothing where several webhooks match without a hint, and one of the first
\* file that has a match otherwise; with an operation id it is a certain one, however many
\* files and methods declare the event (schema.go:178-200).
WebhookDecided ==
    phase = "loaded" => \A w, v \in Entries({"webhooks"}) :
        \A title \in {"", w.entry.title}, id \in {"", w.entry.id, v.entry.id} :
            Decided(w.entry.event, title, id)
================================================================================
