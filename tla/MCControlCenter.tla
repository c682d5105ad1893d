-------------------------- MODULE MCControlCenter --------------------------
(* Three versions of two users: the second annotates the first user and    *)
(* adds another one, the third takes both back.  A tick that dies in the   *)
(* second version therefore leaves what no difference to the third shows.  *)
EXTENDS ControlCenter, TLC
CONSTANTS i1, i2, n1, n2, t1, t2, s1, r1, a1

W(n, t) == [name |-> n, note |-> t]
V(u, r) == [settings |-> s1, users |-> u, rules |-> r]

MCHistory == <<V(i1 :> W(n1, t1), {r1}),
               V(i1 :> W(n1, t2) @@ i2 :> W(n2, t1), {}),
               V(i1 :> W(n1, t1), {r1})>>

(* Under the first id, the very row the server wants.                      *)
MCLocalUsers == i1 :> W(n1, t1)

(* The second version gives the name to another user.                      *)
MovedName == <<V(i1 :> W(n1, t1), {}), V(i2 :> W(n1, t1), {})>>

(* The second version drops a user.                                        *)
Dropped == <<V(i1 :> W(n1, t1), {}), V(<<>>, {})>>

Sections(H) == {H[v] : v \in 1 .. Len(H)}
Subfunctions(f) == {[i \in S |-> f[i]] : S \in SUBSET DOMAIN f}

(* Every answer the server can give out of H.                              *)
AnswersOf(H) ==
  [mode : {"merge", "replace"}, reset : BOOLEAN, cursor : 1 .. Len(H),
   settings : {s1, None}, kind : {"full", "delta", "none"},
   users : UNION {Subfunctions(v.users) : v \in Sections(H)}, delete : SUBSET Ids,
   hasRules : BOOLEAN, rules : {{}} \union {v.rules : v \in Sections(H)}]

MCSnapshots == AnswersOf(MCHistory)
MovedSnapshots == AnswersOf(MovedName)
DroppedSnapshots == AnswersOf(Dropped)
=============================================================================
