------------------------------ MODULE EventRepl ------------------------------
(***************************************************************************)
(* The read-eval-print loop that an event loop drives                      *)
(* (glib/gnome/gobject/event-repl.scm).  Text arrives in pieces; each      *)
(* piece is appended to a buffer, and every form that is complete is read  *)
(* and evaluated before the call returns.  What is incomplete waits for    *)
(* the next piece.  The evaluation of a form may itself feed the loop.     *)
(*                                                                         *)
(* Text is a sequence of characters of five classes: "o" and "c" open and  *)
(* close a list, "s" is a character of a symbol, "w" is white space, and   *)
(* "b" is one that no datum may begin with.                                *)
(***************************************************************************)
EXTENDS Naturals, Sequences, SequencesExt

CONSTANTS Pieces,      \* the texts that may arrive
          MaxPieces,   \* bound on how many do
          MaxDepth     \* bound on the nesting of inputs

Chars == {"o", "c", "s", "w", "b"}

ASSUME PiecesAssumption == \A p \in Pieces : p \in Seq(Chars)
ASSUME BoundsAssumption == MaxPieces \in Nat /\ MaxDepth \in Nat \ {0}

VARIABLES
    buffer,   \* text not yet discarded
    bufpos,   \* how much of buffer the port has handed to the reader
    held,     \* the character the reader has put back into the soft port
    levels,   \* the running calls of input, the innermost last
    stack,    \* the-last-stack: the error it belongs to; Unsaved = ~stack-saved?
    report,   \* what the last call of the error reporter was about
    fed,      \* all the text that has arrived
    pieces,   \* how many pieces it came in
    done      \* the forms evaluated and the errors reported, oldest first

vars == <<buffer, bufpos, held, levels, stack, report, fed, pieces, done>>

Unsaved == 0

Init ==
    /\ buffer = <<>> /\ bufpos = 0 /\ held = <<>>
    /\ levels = <<>>
    /\ stack = Unsaved /\ report = [error |-> 0, stack |-> 0, nested |-> FALSE]
    /\ fed = <<>> /\ pieces = 0 /\ done = <<>>

-----------------------------------------------------------------------------
(* Guile's reader on a text: what it finds, the datum, how many characters *)
(* belong to it, how many it fetched, and whether it asked for more.       *)

Least(S) == CHOOSE i \in S : \A j \in S : i <= j

Closes(t, i, j) ==
    Len(SelectSeq(SubSeq(t, i, j), LAMBDA ch : ch = "o"))
      = Len(SelectSeq(SubSeq(t, i, j), LAMBDA ch : ch = "c"))

Starts(t, i) == i = 1 \/ t[i - 1] \in {"o", "c", "w"}

Found(k, datum, n, fetched, eof) ==
    [kind |-> k, datum |-> datum, length |-> n, fetched |-> fetched, eof |-> eof]

ReadSymbol(t, i) ==
    LET after == {j \in i..Len(t) : t[j] \in {"o", "c", "w"}} IN
    IF after = {}
    THEN Found("datum", SubSeq(t, i, Len(t)), Len(t), Len(t), TRUE)
    ELSE LET j == Least(after) IN
         Found("datum", SubSeq(t, i, j - 1), j - 1, j, FALSE)

ReadList(t, i) ==
    LET stops == {j \in i..Len(t) : \/ Closes(t, i, j)
                                    \/ t[j] = "b" /\ Starts(t, j)} IN
    IF stops = {}
    THEN Found("error", <<>>, Len(t), Len(t), TRUE)
    ELSE LET j == Least(stops) IN
         IF t[j] = "b"
         THEN Found("error", <<>>, j, j, FALSE)
         ELSE Found("datum", SubSeq(t, i, j), j, j, FALSE)

Read(t) ==
    LET text == {i \in 1..Len(t) : t[i] # "w"} IN
    IF text = {}
    THEN Found("eof", <<>>, Len(t), Len(t), TRUE)
    ELSE LET i == Least(text) IN
         CASE t[i] = "o" -> ReadList(t, i)
           [] t[i] = "s" -> ReadSymbol(t, i)
           [] OTHER -> Found("error", <<>>, i, i, FALSE)

-----------------------------------------------------------------------------
(* The operations. *)

top == levels[Len(levels)]
WithTop(l) == [levels EXCEPT ![Len(levels)] = l]

\* Mutant: input replaces the text that waits for its end.
ReplaceBuffer(b, p) == p

\* (repl 'input str): the text is appended to what is left of the earlier.
AppendTo(b, p) == b \o p

Input(p) ==
    /\ pieces < MaxPieces
    /\ levels # <<>> => top.at = "eval" /\ Len(levels) < MaxDepth
    /\ buffer' = AppendTo(buffer, p)
    /\ levels' = Append([i \in DOMAIN levels |-> [levels[i] EXCEPT !.nested = TRUE]],
                        [at |-> "read", form |-> 0, nested |-> FALSE])
    /\ fed' = fed \o p
    /\ pieces' = pieces + 1
    /\ UNCHANGED <<bufpos, held, stack, report, done>>

\* Mutant: catch-stacked keeps the stack of an earlier error.
CaughtAsBefore == stack

\* catch-stacked forgets the stack of an earlier error.
CaughtAfresh == Unsaved

\* save-stack: only the first error since then keeps its stack.
Saved(before, error) == IF before = Unsaved THEN error ELSE before

\* Mutant: discardbuf clears the whole buffer, not only what was read.
DiscardAll(n) ==
    /\ buffer' = <<>>
    /\ bufpos' = 0

\* discardbuf: the text that the reader has fetched goes.
DiscardBuf(n) ==
    /\ buffer' = SubSeq(buffer, n + 1, Len(buffer))
    /\ bufpos' = 0

\* An error before the end of the text is reported; at the end it is taken
\* for a form that is not complete yet.
ReadFails(r, n, saved) ==
    LET error == Len(done) + 1 IN
    /\ levels' = Front(levels)
    /\ stack' = Saved(saved, error)
    /\ IF r.eof
       THEN /\ bufpos' = n
            /\ UNCHANGED <<buffer, report, done>>
       ELSE /\ report' = [error |-> error, stack |-> stack', nested |-> FALSE]
            /\ done' = Append(done, <<"error">>)
            /\ DiscardBuf(n)

\* tryread, and the way evalbuf goes on with its answer.
TryRead ==
    /\ levels # <<>> /\ top.at = "read"
    /\ LET r == Read(held \o buffer)
           n == IF r.fetched < Len(held) THEN 0 ELSE r.fetched - Len(held)
           saved == CaughtAfresh
       IN /\ held' = SubSeq(held \o buffer, r.length + 1, r.fetched)
          /\ \/ r.kind = "datum"
                /\ DiscardBuf(n)
                /\ done' = Append(done, r.datum)
                /\ levels' = WithTop([at |-> "eval", form |-> Len(done) + 1, nested |-> FALSE])
                /\ stack' = CaughtAfresh
                /\ UNCHANGED report
             \/ r.kind = "error"
                /\ ReadFails(r, n, saved)
             \/ r.kind = "eof"
                /\ bufpos' = n
                /\ levels' = Front(levels)
                /\ stack' = saved
                /\ UNCHANGED <<buffer, report, done>>
    /\ UNCHANGED <<fed, pieces>>

\* The form has a value, which is printed.
EvalReturns ==
    /\ levels # <<>> /\ top.at = "eval"
    /\ levels' = WithTop([top EXCEPT !.at = "read"])
    /\ UNCHANGED <<buffer, bufpos, held, stack, report, fed, pieces, done>>

\* The form throws an error of five arguments, which is reported.
EvalErrors ==
    /\ levels # <<>> /\ top.at = "eval"
    /\ stack' = Saved(stack, top.form)
    /\ report' = [error |-> top.form, stack |-> stack', nested |-> top.nested]
    /\ levels' = WithTop([top EXCEPT !.at = "read"])
    /\ UNCHANGED <<buffer, bufpos, held, fed, pieces, done>>

\* Anything else that it throws leaves the call of input.
EvalThrows ==
    /\ levels # <<>> /\ top.at = "eval"
    /\ stack' = Saved(stack, top.form)
    /\ levels' = Front(levels)
    /\ UNCHANGED <<buffer, bufpos, held, report, fed, pieces, done>>

\* All the text has arrived and has been dealt with.
Finished == levels = <<>> /\ pieces = MaxPieces /\ UNCHANGED vars

Next ==
    \/ \E p \in Pieces : Input(p)
    \/ TryRead
    \/ EvalReturns \/ EvalErrors \/ EvalThrows
    \/ Finished

Spec == Init /\ [][Next]_vars

-----------------------------------------------------------------------------
(* Properties. *)

\* (repl 'pending?)
Pending == bufpos < Len(buffer)

\* Every variable has its type.
TypeOK ==
    /\ buffer \in Seq(Chars) /\ bufpos \in 0..Len(buffer)
    /\ held \in Seq(Chars) /\ Len(held) <= 1
    /\ levels \in Seq([at : {"read", "eval"}, form : Nat, nested : BOOLEAN])
    /\ Len(levels) <= MaxDepth
    /\ stack \in Nat
    /\ report \in [error : Nat, stack : Nat, nested : BOOLEAN]
    /\ fed \in Seq(Chars) /\ pieces \in 0..MaxPieces
    /\ done \in Seq(Seq(Chars \cup {"error"}))

\* The answers of the reader to each suffix of a text, read at once.
Answers(t) ==
    LET answers[i \in 0..Len(t)] ==
          LET r == Read(SubSeq(t, i + 1, Len(t))) IN
          IF r.kind = "datum" THEN <<r.datum>> \o answers[i + r.length]
          ELSE IF r.kind = "error" /\ ~r.eof
               THEN <<<<"error">>>> \o answers[i + r.length]
               ELSE <<>>
    IN answers

\* What reading the whole text at once gives: its forms and its errors.
WholeText == Answers(fed)[0]

\* However the text is cut into pieces, and whatever the forms do (feed the
\* loop themselves, fail, or escape from it), the forms evaluated and the
\* errors reported are those of the whole text, each once and in its order.
FormsInOrder == IsPrefix(done, WholeText)

\* When no call of input is running and pending? answers no, every complete
\* form of the text has been evaluated.  (An error of the reader and a throw
\* end the loop early; the rest waits for the next piece, and pending?
\* tells so.)
NothingForgotten == levels = <<>> /\ ~Pending => done = WholeText

\* The stack that is shown with an error is that of the error itself, unless
\* the form that failed had fed the loop.
ReportsOwnStack == report.nested \/ report.stack = report.error

\* The same without the exception.
ReportsOwnStackAlways == report.stack = report.error
==============================================================================
