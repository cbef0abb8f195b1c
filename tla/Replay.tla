------------------------------- MODULE Replay -------------------------------
(***************************************************************************)
(* The file that src/bin/capture.rs writes and src/bin/replay.rs reads, as *)
(* a sequence of pieces.  A value, as serde_json writes it, is two pieces: *)
(* enough to be torn.  Values are numbered in the order they were received.*)
(***************************************************************************)
EXTENDS Naturals, Sequences

Piece(v, half) == <<v, half>>
NewLine == <<0, 0>>

(* One value as a line of NDJSON.                                          *)
LineOf(v) == <<Piece(v, 1), Piece(v, 2), NewLine>>

(***************************************************************************)
(* str::lines: a line is what stands between two newlines, and what        *)
(* follows the last newline is a line too.                                 *)
(***************************************************************************)
IsLine(contents, first, last) ==
    /\ first \in 1 .. Len(contents) /\ last \in first .. Len(contents)
    /\ \A i \in first .. last : contents[i] # NewLine
    /\ first = 1 \/ contents[first - 1] = NewLine
    /\ last = Len(contents) \/ contents[last + 1] = NewLine

(***************************************************************************)
(* serde_json::from_str on a line: a whole value and nothing else.  A torn *)
(* object does not parse, neither alone nor with another value after it:   *)
(* its brackets stay unbalanced, or its quotes odd in number.              *)
(***************************************************************************)
Parses(contents, first, last) ==
    LET v == contents[first][1]
    IN  /\ last = first + 1
        /\ contents[first] = Piece(v, 1) /\ contents[last] = Piece(v, 2)

(***************************************************************************)
(* run_replay passes over the other lines and hands the value of each line *)
(* that parses to the observer, in the order of the lines: Replayed is     *)
(* where these lines begin, ValueAt the value each yields.                 *)
(***************************************************************************)
Replayed(contents) ==
    {p \in 1 .. Len(contents) :
        \E last \in p .. Len(contents) : IsLine(contents, p, last) /\ Parses(contents, p, last)}

ValueAt(contents, p) == contents[p][1]

Values(contents) == {ValueAt(contents, p) : p \in Replayed(contents)}
=============================================================================
