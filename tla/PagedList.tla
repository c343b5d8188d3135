----------------------------- MODULE PagedList -----------------------------
(***************************************************************************)
(* The paginated lists: orders, resources, offers, tickets, ratings and    *)
(* catalogs on the dashboard of the seller (BPP), the order history of the *)
(* buyer (BAP).  A browser asks for one page after the other; the handler  *)
(* answers with two statements, a COUNT and a SELECT with ORDER BY         *)
(* created_at DESC, LIMIT and OFFSET, between which rows come in.          *)
(***************************************************************************)
EXTENDS Naturals, Sequences, SequencesExt, FiniteSetsExt

CONSTANTS
    Rows,
    Platforms,      \* "BPP", "BAP" or both: the lists there are
    Limit,          \* rows of a page
    Batch,          \* bound: rows one transaction inserts; they share NOW()
    Loads,          \* bound: requests the browser has under way at once
    MaxTurns,       \* bound: pages asked for in a behaviour
    Faults          \* "db": a statement fails

ASSUME PagedListAssumption ==
    /\ IsFiniteSet(Rows) /\ IsFiniteSet(Loads)
    /\ Platforms \subseteq {"BPP", "BAP"}
    /\ Limit \in Nat \ {0} /\ Batch \in Nat /\ MaxTurns \in Nat
    /\ Faults \subseteq {"db"}

VARIABLES
    platform,   \* whose list it is
    created,    \* created_at of each row, 0 before it is inserted
    clock,
    load,       \* the requests under way
    page,       \* state of the browser: the page,
    data,       \*   what the last answer said,
    turns,      \* number of pages asked for
    walk        \* what a reader has seen who went from page 1 on (history)

browser == <<page, data, turns, walk>>
vars == <<platform, created, clock, load, browser>>

Existing == {r \in Rows : created[r] > 0}

\* A request: its next statement, and what it has read so far, "cut" when the
\* COUNT failed; "asked", "since" and "nr" say what there was when it was sent.
Idle == [pc |-> "idle", page |-> 1, items |-> <<>>, total |-> 0, cut |-> FALSE,
         asked |-> {}, since |-> 0, nr |-> 0]

FirstStatement == IF platform = "BPP" THEN "count" ELSE "list"

Init ==
    /\ platform \in Platforms
    /\ created = [r \in Rows |-> 0]
    /\ clock = 0
    /\ load = [l \in Loads |-> Idle]
    /\ page = 1
    /\ data = [page |-> 0, items |-> <<>>, total |-> 0, cut |-> FALSE]
    /\ turns = 0
    /\ walk = [start |-> {}, since |-> 0, seen |-> <<>>, upto |-> 0, at |-> 0]

-----------------------------------------------------------------------------
\* A transaction inserts rows: their created_at is the NOW() of the transaction.
Insert ==
    /\ \E R \in SUBSET (Rows \ Existing) :
          /\ R # {} /\ Cardinality(R) <= Batch
          /\ created' = [r \in Rows |-> IF r \in R THEN clock + 1 ELSE created[r]]
    /\ clock' = clock + 1
    /\ UNCHANGED <<platform, load, browser>>

-----------------------------------------------------------------------------
(* The browser.                                                            *)

TotalPages == (data.total + Limit - 1) \div Limit

\* The buttons: back, forward, and reload; the buyer's drawer reopens at page 1.
Reachable ==
    {p \in {page - 1} : p >= 1} \cup {p \in {page + 1} : page < TotalPages}
        \cup {IF platform = "BPP" THEN page ELSE 1}

\* The dashboard turns the page at once; the drawer when the answer is there.
Turn(l) ==
    /\ load[l].pc = "idle" /\ turns < MaxTurns
    /\ \E p \in Reachable :
          /\ load' = [load EXCEPT ![l] = [Idle EXCEPT !.pc = FirstStatement, !.page = p,
                                                      !.asked = Existing, !.since = clock,
                                                      !.nr = turns]]
          /\ page' = IF platform = "BPP" THEN p ELSE page
    /\ turns' = turns + 1
    /\ UNCHANGED <<platform, created, clock, data, walk>>

-----------------------------------------------------------------------------
(* The handler.                                                            *)

Offset(p) == (p - 1) * Limit

\* Mutant: oldest first.
OldestFirst(S) ==
    {s \in SetToSeqs(S) : \A i, j \in DOMAIN s : i < j => created[s[i]] <= created[s[j]]}

\* ORDER BY created_at DESC: rows of one transaction come in any order, each
\* time the query is run.
NewestFirst(S) ==
    {s \in SetToSeqs(S) : \A i, j \in DOMAIN s : i < j => created[s[i]] >= created[s[j]]}

\* Mutant: LIMIT is left out.
ListAll(p) ==
    {SubSeq(s, Offset(p) + 1, Len(s)) : s \in NewestFirst(Existing)}

\* The rows of a page.
ListPage(p) ==
    {SubSeq(s, Offset(p) + 1, Min({Offset(p) + Limit, Len(s)})) : s \in NewestFirst(Existing)}

\* Mutant: the rows are counted when the request comes in.
CountRowsEarly(l) ==
    /\ load[l].pc = "count"
    /\ \/ load' = [load EXCEPT ![l].total = Cardinality(load[l].asked),
                               ![l].pc = IF platform = "BPP" THEN "list" ELSE "answer"]
       \/ /\ "db" \in Faults
          /\ load' = [load EXCEPT ![l].total = Len(load[l].items), ![l].cut = TRUE,
                                  ![l].pc = IF platform = "BPP" THEN "error" ELSE "answer"]
    /\ UNCHANGED <<platform, created, clock, browser>>

\* The COUNT.  The buyer's handler goes on without it.
CountRows(l) ==
    /\ load[l].pc = "count"
    /\ \/ load' = [load EXCEPT ![l].total = Cardinality(Existing),
                               ![l].pc = IF platform = "BPP" THEN "list" ELSE "answer"]
       \/ /\ "db" \in Faults
          /\ load' = [load EXCEPT ![l].total = Len(load[l].items), ![l].cut = TRUE,
                                  ![l].pc = IF platform = "BPP" THEN "error" ELSE "answer"]
    /\ UNCHANGED <<platform, created, clock, browser>>

\* The page itself.
ListRows(l) ==
    /\ load[l].pc = "list"
    /\ \/ \E s \in ListPage(load[l].page) :
             load' = [load EXCEPT ![l].items = s,
                                  ![l].pc = IF platform = "BPP" THEN "answer" ELSE "count"]
       \/ "db" \in Faults /\ load' = [load EXCEPT ![l].pc = "error"]
    /\ UNCHANGED <<platform, created, clock, browser>>

-----------------------------------------------------------------------------
(* The answer: on the screen whenever it comes.                            *)

\* What a reader has seen after the answer of request q, if he started on page
\* 1 and asked for each next page when he had the one before it; "upto" is 0
\* when he did not.
Walked(q) ==
    IF q.page = 1
    THEN [start |-> q.asked, since |-> q.since, seen |-> q.items, upto |-> 1, at |-> turns]
    ELSE IF q.page = walk.upto + 1 /\ q.nr >= walk.at
    THEN [walk EXCEPT !.seen = @ \o q.items, !.upto = @ + 1, !.at = turns]
    ELSE [walk EXCEPT !.upto = 0]

\* What the browser takes from the answer of request q.
Answer(q) == [page |-> q.page, items |-> q.items, total |-> q.total, cut |-> q.cut]

\* Mutant: the drawer turns the page on its own.
ShowElsewhere(l) ==
    /\ load[l].pc = "answer"
    /\ data' = Answer(load[l])
    /\ page' \in {page, load[l].page}
    /\ walk' = Walked(load[l])
    /\ load' = [load EXCEPT ![l] = Idle]
    /\ UNCHANGED <<platform, created, clock, turns>>

Show(l) ==
    /\ load[l].pc = "answer"
    /\ data' = Answer(load[l])
    /\ page' = IF platform = "BPP" THEN page ELSE load[l].page
    /\ walk' = Walked(load[l])
    /\ load' = [load EXCEPT ![l] = Idle]
    /\ UNCHANGED <<platform, created, clock, turns>>

\* The dashboard shows an error above the old rows; the drawer keeps what it has.
ShowError(l) ==
    /\ load[l].pc = "error"
    /\ load' = [load EXCEPT ![l] = Idle]
    /\ UNCHANGED <<platform, created, clock, browser>>

Handle(l) == CountRows(l) \/ ListRows(l) \/ Show(l) \/ ShowError(l)

Next ==
    \/ Insert
    \/ \E l \in Loads : Turn(l) \/ Handle(l)

Spec == Init /\ [][Next]_vars

-----------------------------------------------------------------------------
(* Guarantees.                                                             *)

RowSeq == SeqOf(Rows, Limit)

TypeOK ==
    /\ platform \in Platforms
    /\ created \in [Rows -> 0..clock] /\ clock \in 0..Cardinality(Rows)
    /\ \A l \in Loads :
          /\ load[l].pc \in {"idle", "count", "list", "answer", "error"}
          /\ load[l].page \in Nat \ {0} /\ load[l].items \in RowSeq
    /\ page \in 1..MaxTurns + 1
    /\ data.items \in RowSeq /\ data.total \in 0..Cardinality(Rows)
    /\ turns \in 0..MaxTurns

\* The reader has come to the last page, says the screen, which has the count
\* of the rows.
WalkedAll ==
    walk.upto > 0 /\ data.page = walk.upto /\ walk.upto >= TotalPages /\ ~data.cut

\* No two rows came in with the same transaction.
Distinct == \A r, s \in Existing : created[r] = created[s] => r = s

\* While orders come in, one by one, a buyer who goes through his history from
\* the first page to the last sees every order that was there when he began: new
\* orders only push it on, and the drawer counts them after it listed.
NoneMissed ==
    platform = "BAP" /\ WalkedAll /\ Distinct => walk.start \subseteq ToSet(walk.seen)

\* On either platform, while nothing comes in, a reader sees every row exactly
\* once, newest first.
PagesExact ==
    WalkedAll /\ Distinct /\ walk.since = clock =>
        /\ ToSet(walk.seen) = Existing
        /\ Len(walk.seen) = Cardinality(Existing)
        /\ \A i \in 1..Len(walk.seen) - 1 :
              created[walk.seen[i]] >= created[walk.seen[i + 1]]

\* Once no request is under way, the orders in the drawer are those of the page
\* it names, in whatever order the answers came.
ShownPage ==
    platform = "BAP" /\ data.page # 0 /\ (\A l \in Loads : load[l].pc = "idle")
        => data.page = page

-----------------------------------------------------------------------------
(* Why: an invariant of every step.                                        *)

\* The place of a row in the list, when no two came in together.
Place(r) == Cardinality({s \in Existing : created[s] >= created[r]})

\* The sequence has the rows of the list after place a, up to place b.
Window(s, a, b) ==
    /\ Len(s) = Min({b, Cardinality(Existing)}) - Min({a, Cardinality(Existing)})
    /\ \A i \in DOMAIN s : s[i] \in Existing /\ Place(s[i]) = a + i

Listed(q)  == q.pc = "answer" \/ (platform = "BAP" /\ q.pc = "count")
Counted(q) == q.pc = "answer" \/ (platform = "BPP" /\ q.pc = "list")

\* What the drawer has not read of the rows R is beyond the page of request q,
\* and so counted when the count comes after the list.
BeyondPage(q, R, read) ==
    \A r \in R \ read :
        /\ Listed(q) => Place(r) > Offset(q.page + 1)
        /\ Counted(q) /\ ~q.cut => q.total > Offset(q.page + 1)

\* Request q is for the page the reader comes to next.
Follows(q) == walk.upto > 0 /\ q.page = walk.upto + 1 /\ q.nr >= walk.at

\* A request under way: while nothing comes in, it has the rows and the count
\* there are; the rows the drawer passes by are beyond its page.
Loading(q) ==
    /\ q.asked \subseteq Existing /\ q.since <= clock /\ q.nr < turns
    /\ walk.upto > 0 /\ q.nr >= walk.at => q.since >= walk.since
    /\ q.since = clock /\ Distinct =>
          /\ Listed(q) => Window(q.items, Offset(q.page), Offset(q.page + 1))
          /\ Counted(q) /\ ~q.cut => q.total = Cardinality(Existing)
    /\ platform = "BAP" /\ Distinct =>
          /\ q.page = 1 => BeyondPage(q, q.asked, ToSet(q.items))
          /\ Follows(q) => BeyondPage(q, walk.start, ToSet(walk.seen) \cup ToSet(q.items))

\* A reader who went from page 1 on: likewise.
Walking ==
    /\ data.page = walk.upto
    /\ walk.since = clock /\ Distinct =>
          /\ Window(walk.seen, 0, Offset(walk.upto + 1))
          /\ ~data.cut => data.total = Cardinality(Existing)
    /\ platform = "BAP" /\ Distinct =>
          \A r \in walk.start \ ToSet(walk.seen) :
              /\ Place(r) > Offset(walk.upto + 1)
              /\ ~data.cut => data.total > Offset(walk.upto + 1)

Load == [pc : {"idle", "count", "list", "answer", "error"}, page : Nat \ {0},
         items : Seq(Rows), total : 0..Cardinality(Rows), cut : BOOLEAN,
         asked : SUBSET Rows, since : Nat, nr : Nat]
Data == [page : Nat, items : Seq(Rows), total : 0..Cardinality(Rows), cut : BOOLEAN]
Walk == [start : SUBSET Rows, since : Nat, seen : Seq(Rows), upto : Nat, at : Nat]

\* The inductive invariant of the proofs.
PagesInv ==
    /\ TypeOK
    /\ load \in [Loads -> Load] /\ data \in Data /\ walk \in Walk
    /\ clock <= Cardinality(Existing)
    /\ page <= turns + 1
    /\ platform = "BAP" /\ data.page # 0 => data.page = page
    /\ walk.start \subseteq Existing /\ walk.since <= clock /\ walk.at <= turns
    /\ walk.upto > 0 => Walking
    /\ \A l \in Loads :
          /\ load[l].page <= turns + 1
          /\ Len(load[l].items) <= Cardinality(Rows)
          /\ load[l].pc # "idle" => Loading(load[l])
=============================================================================
