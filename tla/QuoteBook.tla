------------------------------ MODULE QuoteBook -------------------------------
(***************************************************************************)
(* What the quote service promises of the quotes of an opportunity         *)
(* (packages/business/src/crm/quote-service.ts): they form a book to which *)
(* whole entries are appended and never changed, and a caller who names    *)
(* the quote it builds on gets its entry right behind that one or none.    *)
(***************************************************************************)
EXTENDS Sequences

CONSTANTS Opps, Calls, Any, None

VARIABLE book   \* for each opportunity its quotes, with what their callers named

Init == book = [o \in Opps |-> <<>>]

LastOf(o) == IF book[o] = <<>> THEN None ELSE book[o][Len(book[o])].id

InSomeBook(c) == \E o \in Opps : \E i \in DOMAIN book[o] : book[o][i].id = c

\* A content hash is compared only if there is a quote to compare it with.
Enter(o, c, expects, hash) ==
    /\ ~InSomeBook(c)
    /\ expects \in {Any, LastOf(o)}
    /\ hash \in {Any, LastOf(o)} \/ book[o] = <<>>
    /\ book' = [book EXCEPT ![o] = Append(@, [id |-> c, expects |-> expects, hash |-> hash])]

Next == \E o \in Opps, c \in Calls, expects, hash \in Calls \cup {Any} :
            Enter(o, c, expects, hash)

Spec == Init /\ [][Next]_book
=============================================================================
