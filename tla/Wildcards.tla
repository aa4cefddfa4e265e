------------------------------ MODULE Wildcards ------------------------------
(***************************************************************************)
(* The matching of names of files against patterns (common/wildcards.hpp), *)
(* which smb_list_dir filters a listing with.  "*" stands for anything,    *)
(* "?" for one character, "\" takes the meaning from the next one, "[..]"  *)
(* is a set, "[!..]" the complement of one, and "(..|..)" alternatives.    *)
(* A bracket or parenthesis that is not closed is an ordinary character.   *)
(*                                                                         *)
(* A position is an index of the pattern p or of the name s; the code's    *)
(* iterator pend is the index behind the last one.  Each operator takes    *)
(* the part p[i..e-1] of the pattern that the code passes as [p, pend).    *)
(***************************************************************************)
EXTENDS Integers, Sequences, FiniteSets

Anything == "*"
Single == "?"
Escape == "\\"
SetOpen == "["
SetClose == "]"
SetNot == "!"
AltOpen == "("
AltClose == ")"
AltOr == "|"

cards == {Anything, Single, Escape, SetOpen, SetClose, SetNot, AltOpen, AltClose, AltOr}

(* What the code throws std::invalid_argument for.                         *)
Invalid == 0

First(S) == CHOOSE k \in S : \A j \in S : k <= j

-----------------------------------------------------------------------------
(* Sets.  i is the position behind the "[".                                *)

(* The first member: there is one whatever it is, also a "]".              *)
set_begin(p, i, e) == IF i < e /\ p[i] = SetNot THEN i + 1 ELSE i

set_closes(p, i, e) == {k \in set_begin(p, i, e) + 1..e - 1 : p[k] = SetClose}

is_set(p, i, e) == set_closes(p, i, e) # {}

set_end(p, i, e) == IF is_set(p, i, e) THEN First(set_closes(p, i, e)) + 1 ELSE Invalid

members(p, i, e) == {p[k] : k \in set_begin(p, i, e)..set_end(p, i, e) - 2}

(* The set at i matches the next character of s.                           *)
match_set(s, j, p, i, e) ==
    /\ j <= Len(s)
    /\ p[i] = SetNot <=> s[j] \notin members(p, i, e)

-----------------------------------------------------------------------------
(* Alternatives.  i is a position inside some parentheses, at depth d.     *)

(* Where a scan goes on behind position i, over an escaped character or a  *)
(* whole set at once.                                                      *)
skip(p, i, e) ==
    CASE p[i] = Escape -> i + 2
      [] p[i] = SetOpen /\ is_set(p, i + 1, e) -> set_end(p, i + 1, e)
      [] OTHER -> i + 1

depth_after(p, i, d) ==
    CASE p[i] = AltOpen -> d + 1
      [] p[i] = AltClose -> d - 1
      [] OTHER -> d

(* The parenthesis that closes, or at depth 1 the "|" if bars count.       *)
RECURSIVE closes(_, _, _, _, _)
closes(p, i, e, d, bars) ==
    CASE i >= e -> Invalid
      [] i < e /\ d = 1 /\ (p[i] = AltClose \/ (bars /\ p[i] = AltOr)) -> i
      [] OTHER -> closes(p, skip(p, i, e), e, depth_after(p, i, d), bars)

(* Fault: a bar closes parentheses, too.                                   *)
FaultBarCloses(p, i, e) == closes(p, i, e, 1, TRUE) # Invalid
is_alt(p, i, e) == closes(p, i, e, 1, FALSE) # Invalid

alt_end(p, i, e) == closes(p, i, e, 1, FALSE) + 1

alt_sub_end(p, i, e) == closes(p, i, e, 1, TRUE)

-----------------------------------------------------------------------------
(* match.  The result is where the match of s ends, or NoMatch.            *)

NoMatch == -1

RECURSIVE match_from(_, _, _, _, _, _, _), match_alt(_, _, _, _, _, _, _, _),
          FaultCommits(_, _, _, _, _, _, _, _)

(* Fault: an alternative that matches is not given up for another one.     *)
FaultCommits(s, j, p, i, i2, r, e, partial) ==
    LET one == match_from(s, j, p, i, i2, TRUE, FALSE)
    IN CASE one # NoMatch -> match_from(s, one, p, r, e, partial, FALSE)
         [] one = NoMatch /\ i2 + 1 = r -> NoMatch
         [] OTHER -> FaultCommits(s, j, p, i2 + 1, alt_sub_end(p, i2 + 1, r), r, e, partial)

(* The alternative p[i..i2-1]; the rest of the pattern begins at r.  Where *)
(* the alternative matches first is where the rest has to match.           *)
match_alt(s, j, p, i, i2, r, e, partial) ==
    LET one == match_from(s, j, p, i, i2, TRUE, FALSE)
        both == IF one = NoMatch THEN NoMatch ELSE match_from(s, one, p, r, e, partial, FALSE)
    IN IF both # NoMatch \/ i2 + 1 = r
       THEN both
       ELSE match_alt(s, j, p, i2 + 1, alt_sub_end(p, i2 + 1, r), r, e, partial)

same(s, j, c) == j <= Len(s) /\ s[j] = c

match_from(s, j, p, i, e, partial, escape) ==
    LET then(yes, k) == IF yes THEN match_from(s, j + 1, p, k, e, partial, FALSE) ELSE NoMatch
    IN CASE i >= e -> IF partial \/ j > Len(s) THEN j ELSE NoMatch
         [] i < e /\ escape -> then(same(s, j, p[i]), i + 1)
         [] i < e /\ ~escape /\ p[i] = Anything ->
                LET none == match_from(s, j, p, i + 1, e, partial, FALSE)
                IN IF none # NoMatch THEN none ELSE then(j <= Len(s), i)
         [] i < e /\ ~escape /\ p[i] = Single -> then(j <= Len(s), i + 1)
         [] i < e /\ ~escape /\ p[i] = Escape -> match_from(s, j, p, i + 1, e, partial, TRUE)
         [] i < e /\ ~escape /\ p[i] = SetOpen /\ is_set(p, i + 1, e) ->
                then(match_set(s, j, p, i + 1, e), set_end(p, i + 1, e))
         [] i < e /\ ~escape /\ p[i] = AltOpen /\ is_alt(p, i + 1, e) ->
                LET r == alt_end(p, i + 1, e)
                IN match_alt(s, j, p, i + 1, alt_sub_end(p, i + 1, r), r, e, partial)
         [] OTHER -> then(same(s, j, p[i]), i + 1)

match(s, p) == match_from(s, 1, p, 1, Len(p) + 1, FALSE, FALSE) # NoMatch

=============================================================================
