------------------------------- MODULE Deques -------------------------------
(***************************************************************************)
(* Python's collections.deque as the backend uses it, on sequences: the    *)
(* head is the left end, appends go to the right end.                      *)
(***************************************************************************)
EXTENDS Integers, Sequences, SequencesExt

\* Mutant: a deque without maxlen.
PushUnbounded(q, x, n) == Append(q, x)

\* deque(maxlen=n).append(x): a full deque drops its head.
PushBounded(q, x, n) ==
    IF Len(q) < n THEN Append(q, x) ELSE Append(Tail(q), x)

\* What that append drops.
PushEvicts(q, n) == IF Len(q) < n THEN {} ELSE {Head(q)}

\* The right end of q, or default if q is empty.
LastOr(q, default) == IF q = <<>> THEN default ELSE q[Len(q)]

\* The numbers of S up to n, in order.
InOrder(S, n) ==
    LET upTo[m \in 0..n] == IF m = 0 THEN <<>>
                            ELSE IF m \in S THEN Append(upTo[m - 1], m)
                            ELSE upTo[m - 1]
    IN  upTo[n]

\* The elements of q at the positions of S, in order.
Picked(q, S) ==
    LET at == InOrder(S, Len(q)) IN [k \in DOMAIN at |-> q[at[k]]]

\* q is strictly increasing.
Increasing(q) == \A i, j \in DOMAIN q : i < j => q[i] < q[j]
=============================================================================
