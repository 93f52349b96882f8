------------------------------ MODULE ListView ------------------------------
(***************************************************************************)
(* The list behind the password screen: FilteredListView (itemcache.rs),   *)
(* the operations of the actions thread that change it (actions.rs), the   *)
(* filter of the menu and the rows on the screen (ux.rs, main.rs).         *)
(*                                                                         *)
(* VaultDb says what is in the list; this module says how it is kept in    *)
(* order and which part of it a filter leaves on the screen, and that it   *)
(* implements ItemSet.  Operations do not interleave: the main loop waits  *)
(* for the actions thread.                                                 *)
(***************************************************************************)
EXTENDS Integers, Sequences, FiniteSets, SequencesExt

CONSTANTS Accounts,  \* password records by their key, the guid; a number
          NameOf,    \* the record's name in lower case, by its place in the order
          Criteria   \* what the user filters by

\* A name that starts with a criterion follows it in the order, and so does what
\* lies between: those names are the ones from c.at to c.last.  A criterion with
\* a capital letter stands for no name, as names are compared in lower case.
ASSUME NameAssumption == /\ Accounts \subseteq Nat /\ IsFiniteSet(Accounts)
                         /\ NameOf \in [Accounts -> Nat]
ASSUME CriteriaAssumption ==
    /\ Criteria \subseteq [at : Nat, last : Int]
    /\ \A c \in Criteria : c.at \in {NameOf[a] : a \in Accounts} => c.at <= c.last

VARIABLES
    disk,    \* the keys of VAULT_PASSWORD_DICT
    list, sorted, filter_range,  \* FilteredListView
    display, \* VaultUi.display_list, by name
    asked    \* history: the criterion filter_range is for

view == <<list, sorted, filter_range>>
vars == <<disk, view, display, asked>>

-----------------------------------------------------------------------------
Rows(s) == {s[i] : i \in DOMAIN s}

NoRange    == [none |-> TRUE]
Span(a, b) == [start |-> a, end |-> b]  \* a Rust range: from a, up to but not b
NoFilter   == [all |-> TRUE]

\* The order of ListItem and ListKey.
Before(a, b) == \/ NameOf[a] < NameOf[b]
                \/ NameOf[a] = NameOf[b] /\ a < b

View(s, f, r) == [list |-> s, sorted |-> f, filter_range |-> r]
This          == View(list, sorted, filter_range)
Becomes(v)    == /\ list' = v.list
                 /\ sorted' = v.sorted
                 /\ filter_range' = v.filter_range

\* The place of a row in the order, where a search by halving finds it or puts it.
PlaceOf(s, a) == 1 + Cardinality({j \in DOMAIN s : Before(s[j], a)})

\* The rows in order; no row is twice in the list.
InOrder(s) == LET place == [a \in Rows(s) |-> PlaceOf(s, a)]
              IN  [i \in DOMAIN s |-> CHOOSE a \in Rows(s) : place[a] = i]

Sort(v) == IF v.sorted
           THEN v
           ELSE View(InOrder(v.list), TRUE, v.filter_range)

\* Mutant: the list is still taken to be in order.
push_Sorted(v, a) == View(Append(v.list, a), v.sorted, v.filter_range)

push(v, a) == View(Append(v.list, a), FALSE, v.filter_range)
filter_reset(v) == View(v.list, v.sorted, Span(0, Len(v.list)))

\* Mutant: a row goes to its place even if that holds another.
insert_unique_Replaces(v, a) ==
    LET s == Sort(v).list
        i == PlaceOf(s, a)
    IN  View(IF i \in DOMAIN s THEN [s EXCEPT ![i] = a] ELSE Append(s, a), TRUE, NoRange)

insert_unique(v, a) ==
    LET s == Sort(v).list
    IN  View(IF a \in Rows(s) THEN s ELSE InsertAt(s, PlaceOf(s, a), a), TRUE, NoRange)

Without(s, a) == IF a \in Rows(s) THEN RemoveAt(s, PlaceOf(s, a)) ELSE s

\* Mutant: the range is left as it was.
remove_KeepsRange(v, a) == View(Without(Sort(v).list, a), TRUE, v.filter_range)

remove(v, a) == View(Without(Sort(v).list, a), TRUE, NoRange)

\* What is drawn: without a range, everything.
filtered_list(v) == IF v.filter_range = NoRange
                    THEN v.list
                    ELSE SubSeq(v.list, v.filter_range.start + 1, v.filter_range.end)

-----------------------------------------------------------------------------
(* The filter.                                                             *)

Starts(a, c) == NameOf[a] \in c.at..c.last

\* What the binary search may answer: any of the rows with just that name or, when
\* there is none, the place for one.
Found(s, c) ==
    LET same == {i \in DOMAIN s : NameOf[s[i]] = c.at}
    IN  IF same # {} THEN same
        ELSE {1 + Cardinality({i \in DOMAIN s : NameOf[s[i]] < c.at})}

\* Mutant: the rows before the one that was found are not looked at.
FirstMatch_AsFound(s, c, i) == i

\* The walk back.  It never moves to the first row of the list.
FirstMatch(s, c, i) ==
    CHOOSE k \in (2..i) \cup {i} :
        /\ \A m \in k..i : Starts(s[m], c)
        /\ k > 2 => ~Starts(s[k - 1], c)

\* The walk on.
LastMatch(s, c, i) ==
    CHOOSE k \in i..Len(s) :
        /\ \A m \in i..k : Starts(s[m], c)
        /\ k < Len(s) => ~Starts(s[k + 1], c)

\* FilteredListView::filter, after filter_reset.  The last row stands in for the
\* place after it.
Filtered(v, c) ==
    LET s == Sort(v).list
        At(i) == IF i <= Len(s) THEN i ELSE Len(s)
        RangeAt(i) == IF Starts(s[At(i)], c)
                      THEN Span(FirstMatch(s, c, i) - 1, LastMatch(s, c, i))
                      ELSE NoRange
    IN  IF s = <<>>
        THEN {View(s, TRUE, v.filter_range)}
        ELSE {View(s, TRUE, RangeAt(i)) : i \in Found(s, c)}

-----------------------------------------------------------------------------
(* The operations.                                                         *)

\* retrieve_db puts a record it finds in the list in place of itself, and pushes
\* one it does not.  The look-up sorts.
LoadOne(v, a) == IF a \in Rows(v.list) THEN Sort(v) ELSE push(Sort(v), a)

\* The PDDB lists keys in an order of its own.
Loaded(v, d) == {filter_reset(FoldLeft(LoadOne, v, order)) : order \in SetToSeqs(d)}

refresh_draw_list(v) ==
    display' = [i \in DOMAIN filtered_list(v) |-> NameOf[filtered_list(v)[i]]]

\* A reload and the refresh that follows it in the main loop.
ReloadFrom(v) == \E w \in Loaded(v, disk') : Becomes(w) /\ refresh_draw_list(w)

Empty == View(<<>>, FALSE, NoRange)

Init == /\ disk \in SUBSET Accounts
        /\ \E v \in Loaded(Empty, disk) :
              /\ list = v.list
              /\ sorted = v.sorted
              /\ filter_range = v.filter_range
              /\ display = [i \in DOMAIN filtered_list(v) |-> NameOf[filtered_list(v)[i]]]
        /\ asked = NoFilter

\* From the menu, on coming back from the TOTPs, after a scan that adds nothing.
Reload == /\ UNCHANGED disk
          /\ ReloadFrom(This)
          /\ asked' = NoFilter

\* add_password, then the reload that follows every scan.
Scan == \E a \in Accounts :
           /\ disk' = disk \cup {a}
           /\ ReloadFrom(insert_unique(This, a))
           /\ asked' = NoFilter

\* The item a row stands for is the first with its name.
Selected(row) ==
    LET named == {i \in DOMAIN list : NameOf[list[i]] = display[row]}
    IN  IF named = {} THEN {}
        ELSE {list[CHOOSE i \in named : \A j \in named : i <= j]}

\* MenuEdit: the old item leaves the list before the dialog; the new one joins it
\* unless the record that was deleted cannot be written back.  An edit that fails before
\* it deletes ends the program (VaultDb, EditFails).  The rows are those of before until
\* a refresh, at the latest that of the MenuDone that comes next.
Edit == \E row \in DOMAIN display : \E a \in Selected(row), b \in Accounts :
           /\ a \in disk
           /\ \/ /\ disk' = (disk \ {a}) \cup {b}
                 /\ Becomes(insert_unique(remove(This, a), b))
              \/ /\ disk' = disk \ {a}
                 /\ Becomes(remove(This, a))
           /\ asked' = NoFilter
           /\ UNCHANGED display

\* MenuDelete, and the reload, which comes even if the record could not be deleted.
Delete == \E row \in DOMAIN display : \E a \in Selected(row) :
             /\ a \in disk
             /\ disk' \in {disk, disk \ {a}}
             /\ ReloadFrom(remove(This, a))
             /\ asked' = NoFilter

\* The menu is down.
MenuDone == /\ refresh_draw_list(This)
            /\ UNCHANGED <<disk, view, asked>>

\* MenuFilter: no text shows everything.
Unfilter == /\ Becomes(filter_reset(This))
            /\ refresh_draw_list(filter_reset(This))
            /\ asked' = NoFilter
            /\ UNCHANGED disk

Filter == \E c \in Criteria : \E v \in Filtered(filter_reset(This), c) :
             /\ Becomes(v)
             /\ refresh_draw_list(v)
             /\ asked' = c
             /\ UNCHANGED disk

Next == Reload \/ Scan \/ Edit \/ Delete \/ MenuDone \/ Unfilter \/ Filter

Spec == Init /\ [][Next]_vars

-----------------------------------------------------------------------------
(* Properties.                                                             *)

TypeOK == /\ disk \subseteq Accounts
          /\ list \in Seq(Accounts)
          /\ sorted \in BOOLEAN
          /\ filter_range = NoRange \/ filter_range \in [start : Nat, end : Nat]
          /\ display \in Seq({NameOf[a] : a \in Accounts})
          /\ asked \in Criteria \cup {NoFilter}

\* The range of the filter lies within the list: filtered_list slices the list by
\* it and would panic otherwise.  A range is made for a list that edits, deletions
\* and reloads then change.
RangeInList == filter_range # NoRange =>
                   /\ filter_range.start <= filter_range.end
                   /\ filter_range.end <= Len(list)

\* No record is twice in the list, and a list that is flagged as sorted is in order:
\* every look-up by key and the filter search it by halving.
ListInOrder == /\ \A i, j \in DOMAIN list : list[i] = list[j] => i = j
               /\ sorted => \A i, j \in DOMAIN list : i < j => Before(list[i], list[j])

Kept == IF filter_range = NoRange THEN {}
        ELSE filter_range.start + 1 .. filter_range.end

\* What a filter keeps is what it was asked for, and it keeps all of that, with one
\* exception: the walk back to the first match stops short of the first row of the
\* list, which is lost when two or more records have just the criterion as their
\* name.
FilterKeepsMatches ==
    asked # NoFilter =>
        \A i \in DOMAIN list :
            /\ i \in Kept => Starts(list[i], asked)
            /\ Starts(list[i], asked) => \/ i \in Kept
                                         \/ i = 1 /\ NameOf[list[1]] = asked.at
                                                  /\ 2 \in Kept

\* Whatever is sorted, searched by halving, inserted, shifted or filtered, the list
\* is the set of items that ItemSet promises: each operation adds and drops the
\* items it is about and no others.
Items == INSTANCE ItemSet WITH items <- Rows(list)
ImplementsItemSet == Items!Spec
=============================================================================
