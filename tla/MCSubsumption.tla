-------------------------- MODULE MCSubsumption --------------------------
EXTENDS Subsumption, TLC

Sym(s) == [sym |-> s, args |-> <<>>]
App(s, ts) == [sym |-> s, args |-> ts]
Pos(a) == [neg |-> FALSE, atom |-> a]
Neg(a) == [neg |-> TRUE, atom |-> a]

X == Sym("X")
Y == Sym("Y")
a == Sym("a")
b == Sym("b")
f(t) == App("f", <<t>>)
p(s, t) == App("p", <<s, t>>)
q(t) == App("q", <<t>>)
ans(t) == App("ans", <<t>>)

MCVariables == {"X", "Y", "X2", "Y2"}
MCSecond == "X" :> "X2" @@ "Y" :> "Y2"

\* The hashes of a and of f collide.
MCCode == "X" :> 1 @@ "Y" :> 2 @@ "X2" :> 3 @@ "Y2" :> 4 @@ "a" :> 5 @@ "b" :> 6
          @@ "f" :> 9 @@ "p" :> 10 @@ "q" :> 11 @@ "ans" :> 12

\* Every clause of one or two of these literals, and some longer ones: literals
\* that can be bound in several ways or need a second try, ground ones, answers,
\* and clauses that are bigger than the metas can tell.
Literals == <<
  Pos(q(a)), Pos(q(X)), Neg(q(f(f(X)))), Pos(p(X, Y)), Pos(p(Y, X)), Pos(p(a, f(X))), Pos(p(a, f(b))),
  Pos(p(f(f(a)), f(f(X)))), Neg(p(X, f(X))), Pos(ans(X)), Pos(ans(b))>>
LongClauses == {
  <<Pos(p(a, f(X))), Pos(p(b, X)), Neg(q(f(a)))>>,
  <<Pos(q(a)), Pos(p(a, f(b))), Neg(p(X, f(X)))>>,
  <<Pos(p(a, b)), Pos(p(b, a)), Pos(q(a)), Pos(q(X))>>,
  <<Pos(p(a, a)), Pos(p(b, f(a))), Pos(ans(b))>>,
  <<Pos(p(f(X), Y)), Pos(p(f(Y), f(X))), Pos(q(f(b)))>>}
MCInputs ==
  LongClauses \cup {<<Literals[i]>> : i \in DOMAIN Literals}
  \cup {<<Literals[i], Literals[j]>> : <<i, j>> \in
          {ij \in (DOMAIN Literals) \X (DOMAIN Literals) : ij[1] < ij[2]}}

MCLeftover == {<<Pos(q(a))>>}

Terms0 == {a, b}
Terms1 == Terms0 \cup {f(t) : t \in Terms0}
MCInstances == Terms1 \cup {f(t) : t \in Terms1}
=============================================================================
