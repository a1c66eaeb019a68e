----------------------------- MODULE LogReader ------------------------------
(***************************************************************************)
(* Reading a container's log from the kubelet (k8s_tools._read_tail and    *)
(* _read_whole_log).  The API's limit_bytes keeps the first bytes of what  *)
(* is asked for, the oldest lines, so a read that fills the cap is         *)
(* repeated for fewer lines.  The container goes on writing and the        *)
(* kubelet rotates the log, or drops it for a new instance's, between two  *)
(* requests.                                                               *)
(*                                                                         *)
(* Lines are numbered from the first the container ever wrote.  A line of   *)
(* the API ends at a newline; splitlines(), by which _read_tail counts,     *)
(* also breaks at a carriage return, a form feed or a Unicode separator     *)
(* within it.                                                              *)
(***************************************************************************)
EXTENDS Naturals, Sequences, FiniteSets

CONSTANTS
    Sizes,       \* what a line may weigh, in bytes
    Pieces,      \* into how many splitlines() may break it
    Cap,         \* limit_bytes
    Asks,        \* the tails a caller may ask for
    Tries,       \* bound: requests a read may make; the code's is 6
    MaxLines,    \* bound: lines the container writes
    None

ASSUME LogAssumption ==
    /\ Sizes \subseteq Nat \ {0} /\ Pieces \subseteq Nat \ {0} /\ Cap \in Nat \ {0}
    /\ Asks \subseteq Nat /\ Tries \in Nat \ {0, 1} /\ MaxLines \in Nat
    /\ None \notin Nat

VARIABLES
    \* The kubelet.
    ends,        \* ends[i]: bytes written up to the end of line i
    splits,      \* splits[i]: pieces that splitlines() makes of lines 1 .. i
    first,       \* the oldest line held, Newest + 1 if none is
    \* The read.
    pc,
    asked,       \* the tail asked for, None for a whole log
    tail,        \* the tail of the next request
    tries,       \* requests made
    capped,      \* the byte cap, not the tail, decided where the lines start
    text,        \* the lines returned
    older,       \* lines before them may exist
    began,       \* the line the log began with, if older lines were left out
    seen         \* history: the lines held when the last request was made

log == <<ends, splits, first>>
read == <<pc, asked, tail, tries, capped, text, older, began, seen>>
vars == <<log, read>>

Lesser(m, n) == IF m < n THEN m ELSE n
Greater(m, n) == IF m > n THEN m ELSE n

Newest == Len(ends)
Before(i) == IF i = 1 THEN 0 ELSE ends[i - 1]
SplitBefore(i) == IF i = 1 THEN 0 ELSE splits[i - 1]

-----------------------------------------------------------------------------
(* A response: lines from .. to, the last one cut short or not.            *)

NoLines == [from |-> 1, to |-> 0, cut |-> FALSE]
Count(t) == (t.to + 1) - t.from
\* The lines whose newline is in the text.
Newlines(t) == IF t.cut THEN Count(t) - 1 ELSE Count(t)

\* len(text.splitlines()), where a cut line's part makes some of its pieces.
CutPieces(t) == IF t.cut THEN 1 .. splits[t.to] - SplitBefore(t.to) ELSE {0}
SplitLines(t, k) ==
    IF t.cut THEN (SplitBefore(t.to) - SplitBefore(t.from)) + k
    ELSE SplitBefore(t.to + 1) - SplitBefore(t.from)

\* What the API answers for the lines from i on: each that begins within the
\* cap.  It can stop on a line's end.
Bytes(i) == IF i > Newest THEN 0 ELSE ends[Newest] - Before(i)
Full(i) == Bytes(i) >= Cap
Arrived(i) ==
    LET to == i + Cardinality({k \in i .. Newest - 1 : ends[k] < Before(i) + Cap}) IN
    IF i > Newest THEN NoLines
    ELSE [from |-> i, to |-> to, cut |-> ends[to] > Before(i) + Cap]

TailFrom(n) == Greater(first, (Newest + 1) - Lesser(n, Newest))

\* The last line is dropped when it is cut short; _read_tail keeps it if it is
\* the only one.
DropCut(t) == IF t.cut THEN [t EXCEPT !.to = @ - 1, !.cut = FALSE] ELSE t

\* A bug to catch: the line the cap cut short is returned as if it were whole.
KeepCut(t) == t

DropCutOfSeveral(t) == IF Newlines(t) > 0 THEN DropCut(t) ELSE t

TailText(i) == IF Full(i) THEN DropCutOfSeveral(Arrived(i)) ELSE Arrived(i)
WholeText(i) == IF Full(i) THEN DropCut(Arrived(i)) ELSE Arrived(i)

-----------------------------------------------------------------------------

Init ==
    /\ ends = <<>> /\ splits = <<>> /\ first = 1
    /\ pc = "idle" /\ asked = None /\ tail = None /\ tries = 0 /\ capped = FALSE
    /\ text = NoLines /\ older = FALSE /\ began = None
    /\ seen = [from |-> 1, to |-> 0]

\* Bound: the log stands still once the read is over.
Over == pc \in {"done", "failed"}

Write ==
    /\ ~Over /\ Newest < MaxLines
    /\ \E s \in Sizes, p \in Pieces :
           /\ p <= s
           /\ ends' = Append(ends, Before(Newest + 1) + s)
           /\ splits' = Append(splits, SplitBefore(Newest + 1) + p)
    /\ UNCHANGED <<first, read>>

\* The oldest lines go; all of them, when the container restarts.
Rotate ==
    /\ ~Over /\ pc # "idle"
    /\ \E i \in first + 1 .. Newest + 1 : first' = i
    /\ UNCHANGED <<ends, splits, read>>

Look == seen' = [from |-> first, to |-> Newest]

\* _read_tail
ReadTail ==
    /\ pc = "idle"
    /\ \E n \in Asks : asked' = n /\ tail' = n
    /\ pc' = "tail"
    /\ UNCHANGED <<log, tries, capped, text, older, began, seen>>

\* A bug to catch: compared with what the caller asked for, not what was last read.
TailDoneAsAsked(t, k) ==
    /\ text' = t
    /\ older' = (asked > 0 /\ SplitLines(t, k) >= asked)
    /\ pc' = "done"

\* What the next request of a tail is answered.
Response == Arrived(TailFrom(tail))

\* Older lines may exist if as many lines as were last asked for came back.
TailDone(t, k) ==
    /\ text' = t
    /\ older' = (tail' > 0 /\ SplitLines(t, k) >= tail')
    /\ pc' = "done"

\* A bug to catch: the first response is what the caller gets.
TailFitsAtOnce ==
    /\ pc = "tail"
    /\ UNCHANGED <<tail, capped>>
    /\ \E k \in CutPieces(Response) : TailDone(TailText(TailFrom(tail)), k)
    /\ tries' = tries + 1 /\ Look
    /\ UNCHANGED <<log, asked, began>>

TailFits ==
    /\ pc = "tail"
    /\ ~Full(TailFrom(tail)) \/ tail <= 1
    /\ UNCHANGED <<tail, capped>>
    /\ \E k \in CutPieces(Response) : TailDone(TailText(TailFrom(tail)), k)
    /\ tries' = tries + 1 /\ Look
    /\ UNCHANGED <<log, asked, began>>

\* The response filled the cap: ask for fewer lines than splitlines() counts ...
Shorter(k) == Greater(1, Lesser(tail - 1, SplitLines(Response, k) - 1))

TailAgain ==
    /\ pc = "tail" /\ tries + 1 < Tries
    /\ Full(TailFrom(tail)) /\ tail > 1
    /\ \E k \in CutPieces(Response) : tail' = Shorter(k)
    /\ capped' = TRUE
    /\ tries' = tries + 1 /\ Look
    /\ UNCHANGED <<log, pc, asked, text, older, began>>

\* ... but not for ever.
TailSpent ==
    /\ pc = "tail" /\ tries + 1 = Tries
    /\ Full(TailFrom(tail)) /\ tail > 1
    /\ \E k \in CutPieces(Response) : tail' = Shorter(k) /\ TailDone(TailText(TailFrom(tail)), k)
    /\ capped' = TRUE
    /\ tries' = tries + 1 /\ Look
    /\ UNCHANGED <<log, asked, began>>

\* _read_whole_log: everything held, if it fits; if not, the line it began with
\* and a tail of it.
ReadWhole ==
    /\ pc = "idle"
    /\ Look
    /\ \/ /\ ~Full(first)
          /\ text' = Arrived(first)
          /\ pc' = "done"
          /\ UNCHANGED <<began, tail>>
       \/ /\ Full(first)
          /\ began' = first
          /\ tail' = Newlines(Arrived(first))
          /\ pc' = "whole"
          /\ UNCHANGED text
    /\ UNCHANGED <<log, asked, tries, capped, older>>

NineTenths == Greater(1, (tail * 9) \div 10)

WholeDone ==
    /\ pc = "whole"
    /\ ~Full(TailFrom(NineTenths)) \/ NineTenths = 1 \/ tries + 1 = Tries
    /\ text' = WholeText(TailFrom(NineTenths))
    /\ tail' = IF Full(TailFrom(NineTenths)) /\ NineTenths # 1
               THEN Lesser(NineTenths, Newlines(Arrived(TailFrom(NineTenths)))) ELSE NineTenths
    /\ tries' = tries + 1 /\ Look
    /\ pc' = "done"
    /\ UNCHANGED <<log, asked, capped, older, began>>

WholeAgain ==
    /\ pc = "whole" /\ tries + 1 < Tries
    /\ Full(TailFrom(NineTenths)) /\ NineTenths # 1
    /\ tail' = Lesser(NineTenths, Newlines(Arrived(TailFrom(NineTenths))))
    /\ tries' = tries + 1 /\ Look
    /\ UNCHANGED <<log, pc, asked, capped, text, older, began>>

\* A request fails: the tool raises.
Fail ==
    /\ pc \in {"tail", "whole"}
    /\ pc' = "failed"
    /\ UNCHANGED <<log, asked, tail, tries, capped, text, older, began, seen>>

Next ==
    \/ Write \/ Rotate
    \/ ReadTail \/ TailFits \/ TailAgain \/ TailSpent
    \/ ReadWhole \/ WholeDone \/ WholeAgain \/ Fail

Spec == Init /\ [][Next]_vars

-----------------------------------------------------------------------------
(* Properties.                                                             *)

\* The reader's state is well-formed, and it makes no more requests than it may.
TypeOK ==
    /\ ends \in Seq(Nat) /\ splits \in Seq(Nat) /\ Len(splits) = Newest /\ first \in 1 .. Newest + 1
    /\ pc \in {"idle", "tail", "whole", "done", "failed"}
    /\ asked \in Asks \cup {None} /\ tail \in Nat \cup {None}
    /\ tries \in 0 .. Tries
    /\ {capped, older} \subseteq BOOLEAN
    /\ text \in [from : Nat \ {0}, to : Nat, cut : BOOLEAN] /\ text.from <= text.to + 1
    /\ began \in Nat \cup {None}
    /\ seen \in [from : Nat, to : Nat]

\* Lines the kubelet held at the last request are never passed off as not there
\* (the flag and the start _read_tail and _read_whole_log return): a tail that
\* leaves some out is marked as following older lines, and a whole log that does
\* says where it began, however the log grew and rotated between the requests.
\* Of a tail whose last request too was answered in full, it needs lines that
\* splitlines() doesn't break (OlderTold).
Unsplit == \A i \in 1 .. Newest : splits[i] = i
OlderMarked ==
    pc = "done" /\ seen.from <= seen.to =>
        IF asked = None THEN text.from > seen.from => began # None
        ELSE asked > 0 /\ text.from > seen.from /\ (tries < Tries \/ Unsplit) => older

\* What is returned is lines, whole and in a row: only a tail of a single line may
\* be cut short (the last step of both readers).
WholeLines == pc = "done" /\ text.cut => asked # None /\ Count(text) = 1

\* The newest line the last request could see is returned, unless every request
\* the reader may make was answered with a full response (why _read_tail and
\* _read_whole_log ask again); where all lines weigh the same, that never happens
\* to a whole log, nor to a tail of lines that splitlines() doesn't break.
Weight(i) == ends[i] - Before(i)
Uniform == \A i \in 2 .. Newest : Weight(i) = Weight(1)
NewestKept ==
    pc = "done" /\ asked # 0 /\ seen.from <= seen.to
        /\ (tries < Tries \/ (Uniform /\ (asked = None \/ Unsplit))) =>
        text.to = seen.to \/ (asked = None /\ Weight(seen.to) > Cap)

-----------------------------------------------------------------------------
(* What _read_tail's docstring says and the code doesn't do.               *)

\* After a full response, fewer lines than arrived are asked for.
FewerAsked == [][TailAgain => tail' = 1 \/ tail' < Count(Response)]_vars

\* A tail's flag says whether lines before it may exist.
OlderTold ==
    pc = "done" /\ asked \notin {None, 0} /\ seen.from <= seen.to =>
        (text.from > seen.from => older)
=============================================================================
