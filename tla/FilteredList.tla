----------------------------- MODULE FilteredList -----------------------------
(***************************************************************************)
(* gtk/gnome/contrib/filtered-list.scm: a tree model of the rows of a list *)
(* that a filter lets through.  set-filter stores the new rows at once and *)
(* then walks the list, telling the model's listeners row by row what was  *)
(* deleted and inserted.                                                   *)
(*                                                                         *)
(* A listener (a tree view) starts with no rows and knows only what the    *)
(* signals tell it: for an insertion it asks the model for the row at the  *)
(* path.  It may run Scheme code, which may call set-filter again.         *)
(***************************************************************************)
EXTENDS Naturals, Sequences, FiniteSets, SequencesExt

CONSTANTS
    Rows,        \* the objects in the list, compared with eq?
    MaxLength,   \* bound: the length of the list
    ProgramKeepsRows, \* the program removes no row from the list that is shown
    MaxDepth     \* bound: calls of set-filter in progress

ASSUME FilteredListAssumption ==
    MaxLength \in Nat /\ MaxDepth \in Nat \ {0} /\ ProgramKeepsRows \in BOOLEAN

VARIABLES
    list,      \* slot list, which the program sets
    filtered,  \* slot filtered-list
    len,       \* slot filtered-len
    view,      \* the rows that the listener has
    walks      \* the calls of set-filter in progress, innermost last

listVars == <<list, filtered, len, view, walks>>

Lists == BoundedSeq(Rows, MaxLength)

\* The rest of the list, of the old rows and of the new ones, and the path
Walks == [l : Lists, old : Lists, new : Lists, i : 0..MaxLength]

ListTypeOK ==
    /\ list \in Lists /\ filtered \in Lists /\ len = Len(filtered)
    /\ view \in Seq(Rows)
    /\ walks \in Seq(Walks) /\ Len(walks) <= MaxDepth

ListInit ==
    /\ list = <<>> /\ filtered = <<>> /\ len = 0
    /\ view = <<>> /\ walks = <<>>

-----------------------------------------------------------------------------
\* The ways to choose n positions of m, in order
Rising(n, m) == {f \in [1..n -> 1..m] : \A j, k \in 1..n : j < k => f[j] < f[k]}

\* t is what a filter leaves of s.
Within(t, s) == \E f \in Rising(Len(t), Len(s)) : \A k \in 1..Len(t) : t[k] = s[f[k]]

\* on-get-iter, of a path of one index: the row, or #f
OnGetIter(i) == IF i < len THEN <<filtered[i + 1]>> ELSE <<>>

\* The listener's handlers
Upto(i) == SubSeq(view, 1, IF i < Len(view) THEN i ELSE Len(view))
RowInserted(i) == view' = Upto(i) \o OnGetIter(i) \o SubSeq(view, i + 1, Len(view))
RowDeleted(i)  == view' = Upto(i) \o SubSeq(view, i + 2, Len(view))

\* The program gives the model another list.
SetList(l) ==
    /\ walks = <<>> /\ l # list
    /\ ProgramKeepsRows => Within(filtered, l)
    /\ list' = l
    /\ UNCHANGED <<filtered, len, view, walks>>

\* set-filter up to its signals.  The filter is any predicate, asked once for
\* each row of the list.
SetFilter(rows) ==
    /\ Len(walks) < MaxDepth
    /\ Within(rows, list)
    /\ filtered' = rows
    /\ len' = Len(filtered')
    /\ walks' = Append(walks, [l |-> list, old |-> filtered, new |-> filtered', i |-> 0])
    /\ UNCHANGED <<list, view>>

-----------------------------------------------------------------------------
(* The walk, by the branches of its cond *)

Walk == Last(walks)
Walking == walks # <<>> /\ Walk.l # <<>>
Heads(s) == s # <<>> /\ Head(s) = Head(Walk.l)
Continue(old, new, i) ==
    walks' = Append(Front(walks), [l |-> Tail(Walk.l), old |-> old, new |-> new, i |-> i])

\* Mutant: the path goes on, as if the row were still there.
DropRowAndCount ==
    /\ Walking /\ Heads(Walk.old) /\ ~Heads(Walk.new)
    /\ RowDeleted(Walk.i)
    /\ Continue(Tail(Walk.old), Walk.new, Walk.i + 1)
    /\ UNCHANGED <<list, filtered, len>>

\* Mutant: the old rows are asked after the new ones.
InsertWhatIsThere ==
    /\ Walking /\ Heads(Walk.new)
    /\ RowInserted(Walk.i)
    /\ Continue(Walk.old, Tail(Walk.new), Walk.i + 1)
    /\ UNCHANGED <<list, filtered, len>>

\* Mutant: the walk of a row that was not shown does not go on.
SkipNothing ==
    /\ Walking /\ ~Heads(Walk.old) /\ ~Heads(Walk.new)
    /\ UNCHANGED listVars

\* The row was there before and still is.
KeepRow ==
    /\ Walking /\ Heads(Walk.old) /\ Heads(Walk.new)
    /\ Continue(Tail(Walk.old), Tail(Walk.new), Walk.i + 1)
    /\ UNCHANGED <<list, filtered, len, view>>

DropRow ==
    /\ Walking /\ Heads(Walk.old) /\ ~Heads(Walk.new)
    /\ RowDeleted(Walk.i)
    /\ Continue(Tail(Walk.old), Walk.new, Walk.i)
    /\ UNCHANGED <<list, filtered, len>>

InsertRow ==
    /\ Walking /\ ~Heads(Walk.old) /\ Heads(Walk.new)
    /\ RowInserted(Walk.i)
    /\ Continue(Walk.old, Tail(Walk.new), Walk.i + 1)
    /\ UNCHANGED <<list, filtered, len>>

\* It was not there before, and it is not there now.
SkipRow ==
    /\ Walking /\ ~Heads(Walk.old) /\ ~Heads(Walk.new)
    /\ Continue(Walk.old, Walk.new, Walk.i)
    /\ UNCHANGED <<list, filtered, len, view>>

EndWalk ==
    /\ walks # <<>> /\ Walk.l = <<>>
    /\ walks' = Front(walks)
    /\ UNCHANGED <<list, filtered, len, view>>

Step == KeepRow \/ DropRow \/ InsertRow \/ SkipRow \/ EndWalk

ListNext ==
    \/ \E l \in Lists : SetList(l)
    \/ \E rows \in Lists : SetFilter(rows)
    \/ Step

ListSpec == ListInit /\ [][ListNext]_listVars

\* set-filter is a loop without a wait.
FairListSpec == ListSpec /\ WF_listVars(Step)

-----------------------------------------------------------------------------
(* Properties *)

\* When set-filter is done, what its signals have built up in the listener is
\* what the model has: the walk finds each difference of two filterings of
\* the list, at its path.  (set-filter)
ViewMatches == walks = <<>> => view = filtered

\* The listener can follow each single signal: it always has the new rows so
\* far and the old rows still to come, although the model it asks for the
\* rows has its final state from the start; so a row that stays is neither
\* deleted nor inserted on the way.
SignalsFit ==
    walks # <<>> =>
        /\ Walk.i <= Len(view)
        /\ view = SubSeq(filtered, 1, Walk.i) \o Walk.old

\* Each call of set-filter ends.  (its loop takes a row of the list each time)
SetFilterEnds == (walks # <<>>) ~> (walks = <<>>)
===============================================================================
