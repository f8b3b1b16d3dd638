----------------------------- MODULE MCPagination -----------------------------
(***************************************************************************)
(* Pagination over listings of up to three pages: chains, cycles, tokens    *)
(* in either field, a page without items.                                  *)
(***************************************************************************)
EXTENDS Pagination, TLC

\* The items of a page are told apart by page and collection.
Item(page, k, n) == <<page, k, n>>

\* One token field at a time, or an empty one that hides the other.
TokenFields ==
    {f \in [snake: Tokens \union {"", "absent"}, camel: Tokens \union {"absent"}] :
        f.snake \in {"", "absent"} \/ f.camel = "absent"}

Payload(f, arrays) == [snake |-> f.snake, camel |-> f.camel, arrays |-> arrays]

\* The first page has two items, the second none, the third one.
SmallListings ==
    {"" :> Payload(f, 2 :> <<Item("", 2, 1), Item("", 2, 2)>>)
       @@ "t1" :> Payload(g, << >>)
       @@ "t2" :> Payload(h, 2 :> <<Item("t2", 2, 1)>>) :
        f \in {t \in TokenFields : "t1" \in {t.snake, t.camel}}, g \in TokenFields,
        h \in {t \in TokenFields : t.snake \in {"", "absent"} /\ t.camel # "t2"}}

\* Two pages, each with one array or two, as /report/chat/sessions/{sessionId} answers.
MixedListings ==
    LET One(page) == 2 :> <<Item(page, 2, 1)>>
        Two(page) == One(page) @@ 1 :> <<Item(page, 1, 1)>>
    IN  {"" :> Payload([snake |-> "t1", camel |-> "absent"], a)
           @@ "t1" :> Payload([snake |-> "", camel |-> "absent"], b) :
            a \in {One(""), Two("")}, b \in {One("t1"), Two("t1")}}
================================================================================
