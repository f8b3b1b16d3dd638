SPECIFICATION Spec
CHECK_DEADLOCK FALSE
CONSTANTS
    Params <- SmallParams
    Empty = 0
    JSONLike = {"a/json", "b/json"}
    Corpora <- SmallCorpora
    Methods = {"GET", "PATCH"}
    Actual <- SmallActual
    Inventory <- SmallInventory
    snakeCase <- SmallSnakeCase
    AccountId <- account_id
    DefaultURL <- SmallDefaultURL
    Environments <- SmallEnvironments
    Given <- SmallGiven
    Calls <- SmallCalls
    Statuses = {"200", "204", "202"}
    Payloads = {"none", "user", "users", "profile"}
INVARIANTS TypeOK LookupStable WebhookDecided OwnDescribed JudgedAsDescribed BaseURLHonored ArgumentsArrive BodyFits EmptyNeverAccepted
