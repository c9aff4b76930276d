-------------------------------- MODULE EMatchMC --------------------------------
(***************************************************************************)
(* Instance of EGraph and EMatch: a constant, a unary and a binary symbol. *)
(***************************************************************************)
EXTENDS EMatch

MCArity == <<0, 1, 2>>

F == <<"app", 2>>
G == <<"app", 3>>
X == <<"var", 1>>
Y == <<"var", 2>>
Z == <<"var", 3>>

MCPatterns ==
    { \* f(f(x))
      (<<1>> :> F @@ <<1, 1>> :> F @@ <<1, 1, 1>> :> X),
      \* g(x, x)
      (<<1>> :> G @@ <<1, 1>> :> X @@ <<1, 2>> :> X),
      \* g(x, f(x)), the nonlinear pattern of Figure 2
      (<<1>> :> G @@ <<1, 1>> :> X @@ <<1, 2>> :> F @@ <<1, 2, 1>> :> X),
      \* g(x, y) and f(y), a multi-pattern
      (<<1>> :> G @@ <<1, 1>> :> X @@ <<1, 2>> :> Y @@ <<2>> :> F @@ <<2, 1>> :> Y),
      \* g(x, y), g(y, z) and g(z, x), the triangle
      (<<1>> :> G @@ <<1, 1>> :> X @@ <<1, 2>> :> Y @@
       <<2>> :> G @@ <<2, 1>> :> Y @@ <<2, 2>> :> Z @@
       <<3>> :> G @@ <<3, 1>> :> Z @@ <<3, 2>> :> X) }
================================================================================
