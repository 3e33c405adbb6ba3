---------------------------- MODULE VisualLines ----------------------------
(***************************************************************************)
(* OcrService.extractVisualLines: the words of a photographed receipt are  *)
(* put together to the lines of the paper by their coordinates.  Each step *)
(* adds the next word.  Averages are kept as sums and compared without     *)
(* dividing, 0.55 as 11 / 20.                                              *)
(***************************************************************************)
EXTENDS Integers, Sequences, FiniteSets, Functions

CONSTANTS
    Rows, Columns, \* how many lines the paper has, and words a line
    Pitch,         \* distance of two lines
    Heights,       \* of a word
    Tilt, Offsets  \* how far a word is off its line: at most, and the values tried

\* What the constants must satisfy.
VisualBounds ==
    /\ {Rows, Pitch, Tilt} \subseteq Nat /\ Columns \in Nat \ {0}
    /\ Heights \subseteq Nat \ {0}
    /\ Offsets \subseteq -Tilt .. Tilt

VARIABLES
    words,         \* the words: records [row, x, y, height], y the centre
    left,          \* those not added yet
    grid           \* <<the words of a line, ...>>

vars == <<words, left, grid>>

Distance(a, b) == IF a < b THEN b - a ELSE a - b
Least(a, b) == IF a < b THEN a ELSE b
Greatest(a, b) == IF a < b THEN b ELSE a

\* The word at a place of the paper, a little off its line.
Places == (1..Rows) \X (1..Columns)
Seen(p, off, height) ==
    [row |-> p[1], x |-> p[2], y |-> (p[1] * Pitch) + off[p], height |-> height[p]]

Init ==
    /\ \E off \in [Places -> Offsets], height \in [Places -> Heights] :
         words = {Seen(p, off, height) : p \in Places}
    /\ left = words
    /\ grid = <<>>

\* The sums of a line: its centre and its height, times the number of its words.
Centre(line) == SumFunction([w \in line |-> w.y])
Height(line) == SumFunction([w \in line |-> w.height])

\* Mutant: the height of the words plays no part.
Near_Fixed(line, word) ==
    Distance(Centre(line), Cardinality(line) * word.y) <= Cardinality(line) * 6

\* |centre of the line - centre of the word| <= max(6, 0.55 * the lesser height).
Near(line, word) ==
    LET n == Cardinality(line)
    IN  20 * Distance(Centre(line), n * word.y)
          <= Greatest(120 * n, 11 * Least(Height(line), n * word.height))

Higher(v, w) == v.y < w.y \/ (v.y = w.y /\ v.x < w.x)

\* The next word from the top goes to the first line that is near, or a new one.
AddWord ==
    \E w \in left :
        LET near == {k \in DOMAIN grid : Near(grid[k], w)}
            first == CHOOSE k \in near : \A j \in near : k <= j
        IN  /\ \A v \in left : ~Higher(v, w)
            /\ grid' = IF near = {} THEN Append(grid, {w})
                       ELSE [grid EXCEPT ![first] = @ \cup {w}]
            /\ left' = left \ {w}
            /\ UNCHANGED words

Next == AddWord

Spec == Init /\ [][Next]_vars
-----------------------------------------------------------------------------
(* The lines from top to bottom, each from left to right.  Both sorts keep  *)
(* the order of what compares equal.                                        *)

Upper(k, j) == Centre(grid[k]) * Cardinality(grid[j]) < Centre(grid[j]) * Cardinality(grid[k])
Above(k, j) == Upper(k, j) \/ (~Upper(j, k) /\ k < j)
LeftOf(v, w) == v.x < w.x \/ (v.x = w.x /\ Higher(v, w))

LinePlace(k) == Cardinality({j \in DOMAIN grid : Above(j, k)}) + 1
WordPlace(k, w) == Cardinality({v \in grid[k] : LeftOf(v, w)}) + 1

\* Every word with the line it is in and its place there.
Lines == UNION {{<<LinePlace(k), WordPlace(k, w), w>> : w \in grid[k]} : k \in DOMAIN grid}
-----------------------------------------------------------------------------
\* The values every variable ranges over.
TypeOK ==
    /\ words \subseteq [row : 1..Rows, x : 1..Columns, y : Int, height : Heights]
    /\ left \subseteq words
    /\ grid \in Seq(SUBSET words)

\* Two words of a line are no farther apart than 0.55 of the height of any word,
\* and two of different lines are farther apart than that, and than 6.
Legible ==
    \A h \in Heights : /\ 20 * 2 * Tilt <= 11 * h
                       /\ 20 * (Pitch - 2 * Tilt) > Greatest(20 * 6, 11 * h)

\* The lines are those of the paper, each word at its place, if no word is off
\* its line by more than that (extractVisualLines).
RowsRecovered ==
    left = {} /\ Legible => Lines = {<<w.row, w.x, w>> : w \in words}
=============================================================================
