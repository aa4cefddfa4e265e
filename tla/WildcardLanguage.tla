-------------------------- MODULE WildcardLanguage --------------------------
(***************************************************************************)
(* What a pattern means, whichever way it is matched: the set of names it  *)
(* stands for, with every choice of "*" and of an alternative tried in     *)
(* every place.  Wildcards takes patterns apart the same way.              *)
(***************************************************************************)
EXTENDS Wildcards

RECURSIVE alternatives(_, _, _)
alternatives(p, i, r) ==
    LET k == alt_sub_end(p, i, r)
    IN {<<i, k>>} \cup IF k = Invalid \/ k + 1 >= r THEN {} ELSE alternatives(p, k + 1, r)

(* The ends of all the parts of s that begin at j and that p[i..e-1] means. *)
RECURSIVE ends(_, _, _, _, _)
ends(s, j, p, i, e) ==
    LET after(K, n) == UNION {ends(s, k, p, n, e) : k \in K}
        one(yes) == IF j <= Len(s) /\ yes THEN {j + 1} ELSE {}
    IN CASE i >= e -> {j}
         [] i < e /\ p[i] = Anything -> after(j..Len(s) + 1, i + 1)
         [] i < e /\ p[i] = Single -> after(one(TRUE), i + 1)
         [] i < e /\ p[i] = Escape ->
                IF i + 1 = e THEN {j} ELSE after(one(same(s, j, p[i + 1])), i + 2)
         [] i < e /\ p[i] = SetOpen /\ is_set(p, i + 1, e) ->
                after(one(match_set(s, j, p, i + 1, e)), set_end(p, i + 1, e))
         [] i < e /\ p[i] = AltOpen /\ is_alt(p, i + 1, e) ->
                LET r == alt_end(p, i + 1, e)
                IN after(UNION {ends(s, j, p, a[1], a[2]) : a \in alternatives(p, i + 1, r)}, r)
         [] OTHER -> after(one(same(s, j, p[i])), i + 1)

Means(p, s) == Len(s) + 1 \in ends(s, 1, p, 1, Len(p) + 1)

-----------------------------------------------------------------------------

(* match has no second thoughts about where an alternative ends: an "*" or *)
(* parentheses inside one are matched as soon as possible and once.        *)
Plain(p) ==
    \A i \in 1..Len(p) :
        p[i] = AltOpen /\ is_alt(p, i + 1, Len(p) + 1)
        => \A k \in i + 1..alt_end(p, i + 1, Len(p) + 1) - 1 : p[k] \notin {Anything, AltOpen}

(* What list_dir keeps for a pattern is meant by it, whatever the nesting. *)
Sound(p, s) == match(s, p) => Means(p, s)

(* And nothing that is meant is left out, but for alternatives that may    *)
(* end in more than one place.                                             *)
Complete(p, s) == Plain(p) /\ Means(p, s) => match(s, p)

(* Every parenthesis that is taken for an alternative splits into parts    *)
(* that lie between it and its end: match never throws in the worker.      *)
Splits(p) ==
    \A i \in 2..Len(p) :
        p[i - 1] = AltOpen /\ is_alt(p, i, Len(p) + 1)
        => LET r == alt_end(p, i, Len(p) + 1)
           IN \A a \in alternatives(p, i, r) : i <= a[1] /\ a[1] <= a[2] /\ a[2] < r
=============================================================================
