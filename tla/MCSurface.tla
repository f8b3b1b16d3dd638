------------------------------- MODULE MCSurface -------------------------------
(***************************************************************************)
(* Surface with schema trees of a few files: overlapping templates, one    *)
(* operation in two families, an operation without a schema, templates     *)
(* whose parameters differ only in name, and webhooks declared several     *)
(* times, in one file and in several.                                      *)
(***************************************************************************)
EXTENDS Surface, TLC

\* Segments and names in the order of their bytes; a value is one too.
users == 1      me == 2         phone == 3      accounts == 4
accountId == 11     id == 12    userId == 13
account_id == 21    user_id == 22
pageNumber == 31    page_number == 32   page_size == 33
configured == 41    other == 42     someone == 43

SmallParams == {accountId, id, userId}

SmallSnakeCase ==
    [n \in {accountId, id, userId, account_id, user_id, pageNumber, page_number, page_size} |->
        CASE n = accountId -> account_id
          [] n = userId -> user_id
          [] n = pageNumber -> page_number
          [] OTHER -> n]

V2 == "https://api.zoom.us/v2"
Bare == "https://api.zoom.us"

JSON(schema) == "application/json" :> schema
NoContent == << >>

Op(method, template, server, body, reply) ==
    [method |-> method, template |-> template, server |-> server, request |-> body,
     query |-> IF method = "GET" THEN <<pageNumber, page_size>> ELSE << >>,
     responses |-> ("200" :> reply)]

File(family, entries) == [family |-> family, wellFormed |-> TRUE, entries |-> entries]

User == [Op("GET", <<users, userId>>, V2, NoContent, JSON("user")) EXCEPT
            !.responses = ("200" :> JSON("user")) @@ ("204" :> NoContent)]
Update == Op("PATCH", <<users, userId>>, V2, JSON("update"), NoContent)
Me == Op("GET", <<users, me>>, V2, NoContent, JSON("profile"))
Members == Op("GET", <<accounts, accountId, users>>, Bare, NoContent, JSON("users"))
OldMembers == Op("GET", <<accounts, accountId, users>>, V2, NoContent, JSON("members"))
Phone == Op("GET", <<accounts, id, phone>>, "", NoContent, ("a/json" :> "user") @@ ("b/json" :> "users"))

Operations ==
    <<File("endpoints", {User, Update, Me}),
      File("endpoints", {Members}),
      File("master_accounts", {OldMembers, Phone})>>

\* /users/{userId} and /users/{id}; /{id}/{userId} matches what they do; two JSON types.
Irregular ==
    <<File("endpoints", {Op("GET", <<users, id>>, V2, NoContent, ("a/json" :> "user") @@ ("b/json" :> "users")),
                         Op("GET", <<id, userId>>, V2, NoContent, JSON("users"))}),
      File("master_accounts", {User}),
      [File("webhooks", {}) EXCEPT !.wellFormed = FALSE]>>

Hook(event, title, name, content) ==
    [event |-> event, title |-> title, id |-> name, content |-> content]

\* One event in three files, of which two have one title and one operation id, one declared
\* by two methods of one file and again in another, one without a JSON payload.
Webhooks ==
    <<File("webhooks", {Hook("user.created", "Users", "created", JSON("user")),
                        Hook("user.updated", "Users", "updated", JSON("user")),
                        Hook("user.updated", "Users", "replaced", JSON("profile")),
                        Hook("user.deleted", "Users", "deleted", "text/plain" :> "user")}),
      File("webhooks", {Hook("user.created", "Users", "created", JSON("profile")),
                        Hook("user.updated", "Users", "updatedB", JSON("user"))}),
      File("webhooks", {Hook("user.created", "Accounts", "createdA", JSON("user"))})>>

SmallCorpora == {Operations, Irregular, Webhooks}

SmallActual ==
    {<<users, someone>>, <<users, me>>, <<users, userId>>, <<users, 0>>,
     <<accounts, other, users>>, <<accounts, other, phone>>}

\* Operations of the golden inventory; the last has no schema.
Golden(op) == [method |-> op.method, template |-> op.template, query |-> op.query]
Orphan == [method |-> "GET", template |-> <<phone, id>>, query |-> <<page_size>>]

SmallInventory == {Golden(User), Golden(Update), Golden(Members), Golden(Phone), Orphan}

URL(host, slash) == [host |-> host, valid |-> TRUE, slash |-> slash]
SmallDefaultURL == URL(V2, FALSE)
NoURL == [host |-> "", valid |-> FALSE, slash |-> FALSE]

SmallEnvironments ==
    {[env |-> << >>, dotenv |-> "ZOOM_ACCOUNT_ID" :> configured],
     [env |-> "ZOOM_ACCOUNT_ID" :> 0, dotenv |-> "ZOOM_ACCOUNT_ID" :> configured],
     [env |-> "ZOOM_BASE_URL" :> URL(V2, TRUE), dotenv |-> "ZOOM_BASE_URL" :> URL("https://staging", TRUE)],
     [env |-> "ZOOM_BASE_URL" :> NoURL, dotenv |-> << >>],
     [env |-> "ZOOM_TOKEN_SKEW_SECONDS" :> FALSE, dotenv |-> << >>]}

SmallGiven ==
    {[baseURL |-> URL("https://staging", TRUE), accountID |-> configured, inRange |-> TRUE],
     [baseURL |-> URL(V2, TRUE), accountID |-> configured, inRange |-> TRUE],
     [baseURL |-> URL(V2, FALSE), accountID |-> 0, inRange |-> FALSE]}

Args(op, path, query, body) == [op |-> op, path |-> path, query |-> query, body |-> body]

SmallCalls ==
    {Args(Golden(User), userId :> someone, << >>, "none"),
     Args(Golden(User), user_id :> me, << >>, "none"),
     Args(Golden(User), user_id :> 0, << >>, "none"),
     Args(Golden(User), (userId :> someone) @@ (user_id :> other), (pageNumber :> 1) @@ (page_number :> 2), "none"),
     Args(Golden(Update), userId :> someone, << >>, "update"),
     Args(Golden(Update), userId :> someone, << >>, "user"),
     Args(Golden(Members), << >>, page_number :> 1, "none"),
     Args(Golden(Members), account_id :> other, (page_size :> 1) @@ (page_number :> 2), "none"),
     Args(Golden(Phone), id :> other, page_size :> 1, "none"),
     Args(Orphan, id :> someone, page_size :> 1, "none")}
================================================================================
