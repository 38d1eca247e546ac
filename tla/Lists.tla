-------------------------------- MODULE Lists --------------------------------
(***************************************************************************)
(* The paginated lists of the admin panel (app/utils/pagination.py): the   *)
(* users, the requests, the queue and the history of payments.  A row is   *)
(* its position in a list, and a page the positions it shows.  The list is *)
(* read anew at every press, so a button may ask for any page of it.       *)
(***************************************************************************)
EXTENDS Integers

PAGE_SIZE == 8

\* page_count.
PageCount(total) == IF total <= 0 THEN 1 ELSE (total + PAGE_SIZE - 1) \div PAGE_SIZE

\* clamp_page, and the index of paginate.
ClampPage(page, total) ==
    LET last == PageCount(total) - 1 IN
    IF page < 0 THEN 0 ELSE IF page > last THEN last ELSE page

\* paginate: the slice items[start : start + page_size].
Paginate(page, total) ==
    LET index == ClampPage(page, total) IN
    [index |-> index, count |-> PageCount(total),
     items |-> {i \in 1 .. total : index * PAGE_SIZE < i /\ i <= (index + 1) * PAGE_SIZE}]

HasPrev(p) == p.index > 0
HasNext(p) == p.index + 1 < p.count

\* nav_row: the buttons under the page; and the page that each of them asks for.
NavRow(p) == {b \in {"prev", "next"} : (b = "prev" => HasPrev(p)) /\ (b = "next" => HasNext(p))}

AsksFor(p, b) == IF b = "prev" THEN p.index - 1 ELSE p.index + 1
==============================================================================
