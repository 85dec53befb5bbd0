------------------------------ MODULE ClickMatch ------------------------------
(***************************************************************************)
(* The click captcha's comparison of the stored points with the answered   *)
(* ones (src/captcha/click.go): after a look at whether every stored point *)
(* has an answer near it, each takes the nearest one that is left.         *)
(***************************************************************************)
EXTENDS Integers, Sequences

Distance(p, q) == (p[1] - q[1]) * (p[1] - q[1]) + (p[2] - q[2]) * (p[2] - q[2])

\* The answers within the tolerance of a stored point.
Near(point, answers, tolerance) ==
  {j \in DOMAIN answers : Distance(answers[j], point) <= tolerance * tolerance}

\* The nearest of the answers that are left, the first of those; 0 if none is.
bestMatch(point, answers, left) ==
  IF left = {} THEN 0
  ELSE CHOOSE j \in left : \A k \in left :
         \/ Distance(answers[j], point) < Distance(answers[k], point)
         \/ Distance(answers[j], point) = Distance(answers[k], point) /\ j <= k

\* Those that no point before has taken.
Left(point, answers, tolerance, taken) == Near(point, answers, tolerance) \ taken

\* The answers that the first i of the stored points have taken.
Taken(stored, answers, tolerance) ==
  LET taken[i \in 0 .. Len(stored)] ==
        IF i = 0 THEN {}
        ELSE taken[i - 1] \union
               {bestMatch(stored[i], answers, Left(stored[i], answers, tolerance, taken[i - 1]))}
  IN taken

Verify(stored, answers, tolerance) ==
  /\ Len(stored) = Len(answers)
  /\ \A i \in DOMAIN stored : Near(stored[i], answers, tolerance) # {}
  /\ \A i \in DOMAIN stored :
       Left(stored[i], answers, tolerance, Taken(stored, answers, tolerance)[i - 1]) # {}

(***************************************************************************)
(* ClicksAreMatched: an answer is accepted only if stored points and       *)
(* clicks can be paired one to one within the tolerance; and every such    *)
(* answer is accepted when no click is near two points.                    *)
(***************************************************************************)
ClicksAreMatched(stored, answers, tolerance) ==
  LET paired == /\ Len(stored) = Len(answers)
                /\ \E pair \in [DOMAIN stored -> DOMAIN answers] :
                     /\ \A i, k \in DOMAIN stored : pair[i] = pair[k] => i = k
                     /\ \A i \in DOMAIN stored : pair[i] \in Near(stored[i], answers, tolerance)
      apart == \A i, k \in DOMAIN stored :
                 Near(stored[i], answers, tolerance) \intersect Near(stored[k], answers, tolerance) # {}
                   => i = k
  IN /\ Verify(stored, answers, tolerance) => paired
     /\ paired /\ apart => Verify(stored, answers, tolerance)
=============================================================================
