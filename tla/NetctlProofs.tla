---------------------------- MODULE NetctlProofs ----------------------------
(* TLAPS proofs about Netctl, for every set of tasks, rules and snapshots. *)
(* Base, the types, names and order of the statements of a task, holds     *)
(* whatever runs together, and so does what the histories keep of a rule;  *)
(* on them rest the rules and rows of tasks that are separate, RuleHasRow, *)
(* the rows a reconcile listed, ReconcileRestores, and the rows of the one *)
(* poller, ControlDeclared.                                                *)
EXTENDS Netctl, FiniteSetTheorems, SequenceTheorems, WellFoundedInduction, TLAPS

(* The tasks and the boot.                                                 *)
All == Tasks \union {Boot}

(* A row that a statement may have to do with.                             *)
Stored == [id : 1 .. MaxFresh, src : Sources, key : Keys]

(* The statements of an operation: those that change a row, and the rule   *)
(* of a row, are about its own sources.                                    *)
Statement(kind) ==
  [do : {"insert"}, src : SourceOf(kind), key : Keys]
  \union [do : {"append", "rollback", "uninstall", "delete"}, row : {r \in Stored : r.src \in SourceOf(kind)}]
  \union [do : {"get"}, id : Nat, src : SourceOf(kind)]
  \union [do : {"bysource"}, src : SourceOf(kind)]
  \union (IF kind \in {"reconcile", Boot}
          THEN [do : {"listrows", "report"}]
               \union [do : {"listlive"}, rows : {set \in SUBSET Stored : IsFiniteSet(set)}]
               \union [do : {"reinsert"}, row : Stored] \union [do : {"prune"}, row : Row]
          ELSE {})
  \union (IF kind = "control" THEN [do : {"match", "report"}] ELSE {})

JobTyped(j) ==
  /\ DOMAIN j = {"kind", "todo", "clean", "dropped", "desired", "prune"}
  /\ j.kind \in {"none", Boot} \union AllKinds /\ j.todo \in Seq(Statement(j.kind))
  /\ j.clean \in BOOLEAN /\ j.dropped \in BOOLEAN /\ j.prune \in BOOLEAN
  /\ j.desired \subseteq Keys /\ IsFiniteSet(j.desired)
  /\ j.kind = "none" => j = NoJob

JobTypes ==
  /\ DOMAIN job = All
  /\ \A t \in All : JobTyped(job[t]) /\ job[t].kind \in {"none"} \union IF t = Boot THEN {Boot} ELSE scope[t]

Types ==
  /\ rows \subseteq Stored /\ IsFiniteSet(rows)
  /\ kernel \subseteq Entry /\ IsFiniteSet(kernel)
  /\ wg \in BOOLEAN /\ fresh \in 0 .. MaxFresh /\ scope \in Scopes
  /\ JobTypes

(* An id names one row, wherever the row is mentioned.                     *)
Named(s) == IF s.do \in {"append", "rollback", "uninstall", "delete", "reinsert", "prune"} THEN {s.row}
            ELSE IF s.do = "listlive" THEN s.rows ELSE {}
NamedBy(j) == UNION {Named(j.todo[i]) : i \in 1 .. Len(j.todo)}
Mentioned == rows \union Live(kernel) \union UNION {NamedBy(job[t]) : t \in All}
OneRow ==
  /\ \A a \in Mentioned : a.id \in 0 .. fresh
  /\ \A a, b \in Mentioned : a.id = b.id /\ a.id # 0 => a = b

(* The order of the statements: what may come after a statement, and an    *)
(* uninstall with the delete of the row right behind it.                   *)
Heads == {"append", "rollback", "listrows", "listlive", "bysource", "match"}
May(kind, s, later) ==
  /\ later.do \notin Heads
  /\ s.do \in {"report", "listrows", "listlive", "bysource", "match"} => later.do = "insert" /\ kind # "control"
  /\ later.do = "report" /\ kind \in {"reconcile", Boot} => s.do \in {"reinsert", "prune"}
  /\ later.do = "reinsert" => s.do = "reinsert" /\ s.row # later.row
  /\ kind = "control" /\ s.do = "insert" /\ later.do = "insert" => s.key # later.key
InOrder(kind, todo) == \A i, k \in 1 .. Len(todo) : i < k => May(kind, todo[i], todo[k])
Paired(todo) ==
  /\ \A i \in 1 .. Len(todo) : todo[i].do = "uninstall" =>
       i < Len(todo) /\ todo[i + 1] = OnRow("delete", todo[i].row)
  /\ \A i \in 2 .. Len(todo) : todo[i].do = "delete" => todo[i - 1] = OnRow("uninstall", todo[i].row)
Shapes == \A t \in All : InOrder(job[t].kind, job[t].todo) /\ Paired(job[t].todo)

(* The control center has one poller in the process.                       *)
OnePoller == \A s \in Scopes : \A t, u \in Tasks : "control" \in s[t] /\ "control" \in s[u] => t = u

Disjoint == \A t, u \in All : t # u => RuleSourceOf(job[t].kind) \intersect RuleSourceOf(job[u].kind) = {}

(* A tag is in the kernel once.                                            *)
OneEntry == \A e, f \in kernel : e.id = f.id => e = f

(* What a statement takes for granted when it runs, of the rows R, of the  *)
(* rules L of the kernel and of the ids X of those that were refused -D.   *)
FirmStatement(s, R, L) ==
  /\ s.do \in {"append", "rollback", "reinsert"} => s.row \in R /\ s.row \notin L
  /\ s.do = "listlive" => s.rows = R
Firm(j, R, L, X) ==
  /\ \A i \in 1 .. Len(j.todo) : FirmStatement(j.todo[i], R, L)
  /\ 1 \in 1 .. Len(j.todo) /\ j.todo[1].do = "delete" => j.todo[1].row \notin L \/ j.todo[1].row.id \in X
AllFirm == \A t \in All : Firm(job[t], rows, Live(kernel), refused)

Has(j, s) == \E i \in 1 .. Len(j.todo) : j.todo[i] = s

(* What a reconcile owes, the rows O, are among those with which it reads  *)
(* the live rules L, and it prunes none of their rules; while it has its   *)
(* report to make without an error, each has its rule or is about to be    *)
(* put back.                                                               *)
Found(r, L) == \E q \in L : q.id = r.id
Answering(s, O) ==
  /\ s.do = "listlive" => O \subseteq s.rows
  /\ s.do = "prune" => \A r \in O : r.id # s.row.id
Answers(j, O) == \A i \in 1 .. Len(j.todo) : Answering(j.todo[i], O)
Restoring(j, O, L) ==
  /\ Answers(j, O)
  /\ j.kind \in {"reconcile", Boot} /\ j.clean /\ Has(j, Report) =>
       \A r \in O : Found(r, L) \/ Has(j, OnRow("reinsert", r))
AllRestoring == \A t \in All : Restoring(job[t], owed[t], Live(kernel))

(* The same for a pass over the control center's rules: what is to be      *)
(* added is wanted and not there, what is to go is not wanted; and while   *)
(* it has its report to make, each rule is there or to be added, and each  *)
(* other one to be removed.                                                *)
ControlRowsOf(R) == {r \in R : r.src = "control"}
OneControlRow == \A r, s \in ControlRowsOf(rows) : r.key = s.key => r = s
DeclaredStatement(desired, s, R, n) ==
  /\ s.do = "insert" => s.key \in desired /\ \A r \in ControlRowsOf(R) : r.key # s.key
  /\ s.do = "get" => s.id \in 1 .. n /\ \A r \in ControlRowsOf(R) : r.id = s.id => r.key \notin desired
  /\ s.do \in {"uninstall", "delete"} => s.row.key \notin desired
  /\ s.do # "bysource"
Declaring(j, R, n) ==
  j.kind = "control" =>
    /\ \A i \in 1 .. Len(j.todo) : DeclaredStatement(j.desired, j.todo[i], R, n)
    /\ Has(j, Report) =>
         /\ \A k \in j.desired : (\E r \in ControlRowsOf(R) : r.key = k) \/ Has(j, Insert("control", k))
         /\ j.prune => \A r \in ControlRowsOf(R) :
              r.key \in j.desired \/ Has(j, Get(r.id, "control")) \/ Has(j, OnRow("delete", r))
AllDeclaring == \A t \in All : Declaring(job[t], rows, fresh)
-----------------------------------------------------------------------------
(* What the sources of an operation are.                                   *)
LEMMA SourceFacts ==
  /\ SourceOf("none") = {} /\ SourceOf("giveup") = {} /\ SourceOf("reconcile") = {}
  /\ SourceOf("register") = {"user"} /\ SourceOf("remove") = {"user"}
  /\ SourceOf("start") = {"wg-driver"} /\ SourceOf("stop") = {"wg-driver"} /\ SourceOf("subnet") = {"wg-driver"}
  /\ SourceOf(Boot) = {"wg-driver"} /\ SourceOf("control") = {"control"}
  /\ RuleSourceOf("none") = {} /\ RuleSourceOf("reconcile") = Sources /\ RuleSourceOf(Boot) = Sources
  /\ RuleSourceOf("control") = {"control"}
BY DEF SourceOf, RuleSourceOf, Boot

LEMMA SourcesOf ==
  ASSUME NEW kind
  PROVE  /\ SourceOf(kind) \subseteq Sources /\ SourceOf(kind) \subseteq RuleSourceOf(kind)
         /\ RuleSourceOf(kind) \subseteq Sources
         /\ "control" \in SourceOf(kind) => kind = "control"
BY DEF SourceOf, RuleSourceOf, Sources, Boot

(* The statements that replace the first one of a task, and the rest.      *)
LEMMA Joined ==
  ASSUME NEW S, NEW s \in Seq(S), NEW todo \in Seq(S), todo # <<>>,
         NEW T, T = s \o Tail(todo)
  PROVE  /\ T \in Seq(S) /\ Len(T) = Len(s) + Len(todo) - 1
         /\ Len(s) \in Nat /\ Len(todo) \in Nat /\ Len(todo) > 0
         /\ \A i \in 1 .. Len(s) : T[i] = s[i]
         /\ \A k \in 2 .. Len(todo) : T[Len(s) + k - 1] = todo[k]
<1>1. Len(s) \in Nat /\ Len(todo) \in Nat /\ Len(todo) > 0
  OBVIOUS
<1>2. Tail(todo) \in Seq(S) /\ Len(Tail(todo)) = Len(todo) - 1
  OBVIOUS
<1>3. \A k \in 2 .. Len(todo) : Tail(todo)[k - 1] = todo[k]
  BY <1>1
<1>4. T \in Seq(S) /\ Len(T) = Len(s) + Len(Tail(todo))
  BY <1>2
<1>5. \A i \in 1 .. Len(s) : T[i] = s[i]
  BY <1>1, <1>2
<1>6. \A k \in 1 .. Len(Tail(todo)) : T[Len(s) + k] = Tail(todo)[k]
  BY <1>1, <1>2
<1>7. ASSUME NEW k \in 2 .. Len(todo) PROVE T[Len(s) + k - 1] = todo[k]
  <2>1. k - 1 \in 1 .. Len(Tail(todo)) /\ Len(s) + k - 1 = Len(s) + (k - 1)
    BY <1>1, <1>2
  <2> QED
    BY <1>3, <1>6, <2>1
<1> QED
  BY <1>1, <1>2, <1>4, <1>5, <1>7

(* Where a statement of the result comes from.                             *)
LEMMA JoinedFrom ==
  ASSUME NEW S, NEW s \in Seq(S), NEW todo \in Seq(S), todo # <<>>,
         NEW T, T = s \o Tail(todo), NEW i \in 1 .. Len(T)
  PROVE  \/ i \in 1 .. Len(s) /\ T[i] = s[i]
         \/ \E k \in 2 .. Len(todo) : i = Len(s) + k - 1 /\ T[i] = todo[k]
<1>1. /\ Len(T) = Len(s) + Len(todo) - 1 /\ Len(s) \in Nat /\ Len(todo) \in Nat
      /\ \A n \in 1 .. Len(s) : T[n] = s[n]
      /\ \A k \in 2 .. Len(todo) : T[Len(s) + k - 1] = todo[k]
  BY Joined
<1>2. CASE i <= Len(s)
  BY <1>1, <1>2
<1>3. CASE i > Len(s)
  <2>1. PICK k \in 2 .. Len(todo) : i = Len(s) + k - 1
    <3>1. i - Len(s) + 1 \in 2 .. Len(todo) /\ i = Len(s) + (i - Len(s) + 1) - 1
      BY <1>1, <1>3
    <3> QED
      BY <3>1
  <2> QED
    BY <1>1, <2>1
<1> QED
  BY <1>1, <1>2, <1>3

LEMMA InOrderJoined ==
  ASSUME NEW S, NEW s \in Seq(S), NEW todo \in Seq(S), todo # <<>>, NEW kind,
         InOrder(kind, s), InOrder(kind, todo),
         \A i \in 1 .. Len(s), k \in 2 .. Len(todo) : May(kind, s[i], todo[k])
  PROVE  InOrder(kind, s \o Tail(todo))
<1> DEFINE T == s \o Tail(todo)
<1>1. Len(s) \in Nat /\ Len(todo) \in Nat
  OBVIOUS
<1> SUFFICES ASSUME NEW i \in 1 .. Len(T), NEW k \in 1 .. Len(T), i < k PROVE May(kind, T[i], T[k])
  BY DEF InOrder
<1>2. \/ i \in 1 .. Len(s) /\ T[i] = s[i]
      \/ \E n \in 2 .. Len(todo) : i = Len(s) + n - 1 /\ T[i] = todo[n]
  BY JoinedFrom
<1>3. \/ k \in 1 .. Len(s) /\ T[k] = s[k]
      \/ \E n \in 2 .. Len(todo) : k = Len(s) + n - 1 /\ T[k] = todo[n]
  BY JoinedFrom, SMTT(20)
<1> HIDE DEF T
<1>4. CASE k \in 1 .. Len(s) /\ T[k] = s[k]
  <2>1. i \in 1 .. Len(s) /\ T[i] = s[i]
    BY <1>1, <1>2, <1>4
  <2> QED
    BY <1>4, <2>1 DEF InOrder
<1>5. ASSUME NEW n \in 2 .. Len(todo), k = Len(s) + n - 1, T[k] = todo[n] PROVE May(kind, T[i], T[k])
  <2>1. CASE i \in 1 .. Len(s) /\ T[i] = s[i]
    BY <1>5, <2>1
  <2>2. ASSUME NEW m \in 2 .. Len(todo), i = Len(s) + m - 1, T[i] = todo[m] PROVE May(kind, T[i], T[k])
    <3>1. m \in 1 .. Len(todo) /\ n \in 1 .. Len(todo) /\ m < n
      BY <1>1, <1>5, <2>2
    <3> QED
      BY <1>5, <2>2, <3>1 DEF InOrder
  <2> QED
    BY <1>2, <2>1, <2>2
<1> QED
  BY <1>3, <1>4, <1>5

LEMMA PairedJoined ==
  ASSUME NEW S, NEW s \in Seq(S), NEW todo \in Seq(S), todo # <<>>, Paired(s), Paired(todo),
         s = <<>> \/ todo[1].do # "uninstall"
  PROVE  Paired(s \o Tail(todo))
<1> DEFINE T == s \o Tail(todo)
<1>1. /\ Len(T) = Len(s) + Len(todo) - 1 /\ Len(s) \in Nat /\ Len(todo) \in Nat /\ Len(todo) > 0
      /\ \A i \in 1 .. Len(s) : T[i] = s[i]
      /\ \A k \in 2 .. Len(todo) : T[Len(s) + k - 1] = todo[k]
  BY Joined
<1>2. \A i \in 1 .. Len(T) : \/ i \in 1 .. Len(s) /\ T[i] = s[i]
                            \/ \E n \in 2 .. Len(todo) : i = Len(s) + n - 1 /\ T[i] = todo[n]
  BY JoinedFrom
<1> HIDE DEF T
<1>3. ASSUME NEW i \in 1 .. Len(T), T[i].do = "uninstall"
      PROVE  i < Len(T) /\ T[i + 1] = OnRow("delete", T[i].row)
  <2>1. CASE i \in 1 .. Len(s) /\ T[i] = s[i]
    <3>1. i < Len(s) /\ s[i + 1] = OnRow("delete", s[i].row)
      BY <1>3, <2>1 DEF Paired
    <3>2. i + 1 \in 1 .. Len(s) /\ i < Len(T)
      BY <1>1, <2>1, <3>1
    <3> QED
      BY <1>1, <2>1, <3>1, <3>2
  <2>2. ASSUME NEW n \in 2 .. Len(todo), i = Len(s) + n - 1, T[i] = todo[n]
        PROVE  i < Len(T) /\ T[i + 1] = OnRow("delete", T[i].row)
    <3>1. n \in 1 .. Len(todo) /\ todo[n].do = "uninstall"
      BY <1>1, <1>3, <2>2
    <3>2. n < Len(todo) /\ todo[n + 1] = OnRow("delete", todo[n].row)
      BY <3>1 DEF Paired
    <3>3. n + 1 \in 2 .. Len(todo) /\ i + 1 = Len(s) + (n + 1) - 1 /\ i < Len(T)
      BY <1>1, <2>2, <3>2
    <3> QED
      BY <1>1, <2>2, <3>2, <3>3
  <2> QED
    BY <1>2, <2>1, <2>2
<1>4. ASSUME NEW i \in 2 .. Len(T), T[i].do = "delete" PROVE T[i - 1] = OnRow("uninstall", T[i].row)
  <2>1. i \in 1 .. Len(T)
    BY <1>1
  <2>2. CASE i \in 1 .. Len(s) /\ T[i] = s[i]
    <3>1. i \in 2 .. Len(s) /\ i - 1 \in 1 .. Len(s)
      BY <1>1, <2>2
    <3>2. s[i - 1] = OnRow("uninstall", s[i].row)
      BY <1>4, <2>2, <3>1 DEF Paired
    <3> QED
      BY <1>1, <2>2, <3>1, <3>2
  <2>3. ASSUME NEW n \in 2 .. Len(todo), i = Len(s) + n - 1, T[i] = todo[n]
        PROVE  T[i - 1] = OnRow("uninstall", T[i].row)
    <3>1. todo[n - 1] = OnRow("uninstall", todo[n].row)
      BY <1>4, <2>3 DEF Paired
    <3>2. CASE n = 2
      <4>1. todo[1].do = "uninstall"
        BY <1>1, <3>1, <3>2 DEF OnRow
      <4>2. Len(s) = 0
        BY <4>1
      <4> QED
        BY <1>1, <2>3, <3>2, <4>2
    <3>3. CASE n # 2
      <4>1. n - 1 \in 2 .. Len(todo) /\ i - 1 = Len(s) + (n - 1) - 1
        BY <1>1, <2>3, <3>3
      <4> QED
        BY <1>1, <2>3, <3>1, <4>1
    <3> QED
      BY <3>2, <3>3
  <2> QED
    BY <1>2, <2>1, <2>2, <2>3
<1>5. Paired(T)
  BY <1>3, <1>4 DEF Paired
<1> QED
  BY <1>5 DEF T
(* The kernel.                                                             *)
LEMMA Smallest ==
  ASSUME NEW S, IsFiniteSet(S), NEW Fam \in SUBSET SUBSET S, Fam # {}
  PROVE  \E T \in Fam : \A U \in SUBSET T : U # T => U \notin Fam
<1>1. Fam \subseteq FiniteSubsetsOf(S)
  BY FS_Subset DEF FiniteSubsetsOf
<1>2. PICK T \in Fam : \A U \in Fam : <<U, T>> \notin StrictSubsetOrdering(S)
  BY <1>1, FS_StrictSubsetOrderingWellFounded, WFMin
<1>3. ASSUME NEW U \in SUBSET T, U # T, U \in Fam PROVE FALSE
  BY <1>2, <1>3 DEF StrictSubsetOrdering
<1> QED
  BY <1>2, <1>3

(* A finite kernel has a last rule.                                        *)
LEMMA LastPlaceType ==
  ASSUME kernel \subseteq Entry, IsFiniteSet(kernel)
  PROVE  LastPlace \in Nat
<1>1. CASE kernel = {}
  BY <1>1 DEF LastPlace
<1>2. CASE kernel # {}
  <2> DEFINE Above(e) == {f \in kernel : f.at >= e.at}
             Fam == {Above(e) : e \in kernel}
  <2>1. \A e \in kernel : e.at \in Nat
    BY DEF Entry
  <2>2. Fam \in SUBSET SUBSET kernel /\ Fam # {}
    BY <1>2
  <2>3. PICK T \in Fam : \A U \in SUBSET T : U # T => U \notin Fam
    <3> HIDE DEF Fam
    <3> QED
      BY <2>2, Smallest
  <2>4. PICK e \in kernel : T = Above(e)
    OBVIOUS
  <2>5. ASSUME NEW f \in kernel, ~(f.at <= e.at) PROVE FALSE
    <3>1. Above(f) \in SUBSET T /\ e \notin Above(f) /\ e \in T
      BY <2>1, <2>4, <2>5
    <3>2. Above(f) # T /\ Above(f) \in Fam
      BY <3>1
    <3> QED
      BY <2>3, <3>1, <3>2
  <2>6. e.at \in {f.at : f \in kernel} /\ \A f \in kernel : f.at <= e.at
    BY <2>5
  <2>7. LastPlace \in {f.at : f \in kernel}
    BY <1>2, <2>6 DEF LastPlace
  <2> QED
    BY <2>1, <2>7
<1> QED
  BY <1>1, <1>2

LEMMA LiveFacts ==
  ASSUME NEW set
  PROVE  /\ \A e \in set : RowOf(e) \in Live(set)
         /\ \A r \in Live(set) : \E e \in set : r = RowOf(e)
BY DEF Live

LEMMA AppendEffect ==
  ASSUME kernel \subseteq Entry, IsFiniteSet(kernel), NEW row \in Stored, AppendRule(row)
  PROVE  /\ kernel' \subseteq Entry /\ IsFiniteSet(kernel') /\ Live(kernel') = Live(kernel) \union {row}
         /\ OneEntry /\ (\A r \in Live(kernel) : r.id # row.id) => OneEntry'
<1> DEFINE new == [id |-> row.id, src |-> row.src, key |-> row.key, at |-> LastPlace + 1]
<1>1. new \in Entry
  BY LastPlaceType DEF Entry, Stored
<1>2. kernel' = kernel \union {new}
  BY DEF AppendRule
<1>3. RowOf(new) = row
  BY DEF RowOf, Stored
<1>4. new.id = row.id
  OBVIOUS
<1> HIDE DEF new
<1>5. kernel' \subseteq Entry /\ IsFiniteSet(kernel')
  BY <1>1, <1>2, FS_AddElement
<1>6. Live(kernel') = Live(kernel) \union {row}
  BY <1>2, <1>3 DEF Live
<1>7. ASSUME OneEntry, \A r \in Live(kernel) : r.id # row.id PROVE OneEntry'
  <2>1. \A e \in kernel : RowOf(e) \in Live(kernel) /\ RowOf(e).id = e.id
    BY DEF Live, RowOf
  <2>2. \A e \in kernel : e.id # row.id
    BY <1>7, <2>1
  <2> QED
    BY <1>2, <1>4, <1>7, <2>2 DEF OneEntry
<1> QED
  BY <1>5, <1>6, <1>7

LEMMA DeleteEffect ==
  ASSUME kernel \subseteq Entry, IsFiniteSet(kernel), NEW row, DeleteRule(row)
  PROVE  /\ kernel' \subseteq Entry /\ IsFiniteSet(kernel') /\ Live(kernel') \subseteq Live(kernel)
         /\ \A r \in Live(kernel) : r.id # row.id => r \in Live(kernel')
         /\ OneEntry => OneEntry' /\ \A r \in Live(kernel') : r.id # row.id
<1>1. CASE Copies(row) = {} /\ UNCHANGED kernel
  <2>1. \A r \in Live(kernel) : r.id # row.id
    BY <1>1 DEF Copies, Live, RowOf
  <2>2. Live(kernel') = Live(kernel)
    BY <1>1
  <2> QED
    BY <1>1, <2>1, <2>2 DEF OneEntry
<1>2. CASE ~(Copies(row) = {} /\ UNCHANGED kernel)
  <2>1. PICK gone \in First(Copies(row)) :
          kernel' = {[e EXCEPT !.at = IF @ > gone.at THEN @ - 1 ELSE @] : e \in kernel \ {gone}}
    BY <1>2 DEF DeleteRule
  <2>2. gone \in kernel /\ gone.id = row.id
    BY DEF First, Copies
  <2> DEFINE Up1(e) == [e EXCEPT !.at = IF @ > gone.at THEN @ - 1 ELSE @]
             f == [e \in kernel \ {gone} |-> Up1(e)]
  <2>3. \A e \in kernel : Up1(e) \in Entry /\ Up1(e).id = e.id /\ RowOf(Up1(e)) = RowOf(e)
    BY <2>2 DEF Entry, RowOf
  <2>4. kernel' = {Up1(e) : e \in kernel \ {gone}}
    BY <2>1
  <2>5. IsFiniteSet(kernel \ {gone})
    BY FS_RemoveElement
  <2> HIDE DEF Up1
  <2>6. f \in Surjection(kernel \ {gone}, kernel')
    BY <2>4 DEF Surjection
  <2>7. IsFiniteSet(kernel')
    BY <2>5, <2>6, FS_Surjection
  <2>8. kernel' \subseteq Entry
    BY <2>3, <2>4
  <2>9. Live(kernel') = {RowOf(e) : e \in kernel \ {gone}}
    BY <2>3, <2>4 DEF Live
  <2>10. \A r \in Live(kernel) : r.id # row.id => r \in Live(kernel')
    BY <2>2, <2>9 DEF Live, RowOf
  <2>11. ASSUME OneEntry PROVE OneEntry' /\ \A r \in Live(kernel') : r.id # row.id
    <3>1. \A e \in kernel \ {gone} : e.id # row.id
      BY <2>2, <2>11 DEF OneEntry
    <3>2. OneEntry'
      BY <2>3, <2>4, <2>11 DEF OneEntry
    <3> QED
      BY <2>9, <3>1, <3>2 DEF RowOf
  <2> QED
    BY <2>7, <2>8, <2>9, <2>10, <2>11 DEF Live
<1> QED
  BY <1>1, <1>2
-----------------------------------------------------------------------------
(* What becomes of a task that goes on with the statements T.              *)
Goes(old, new, T) ==
  \/ new = NoJob
  \/ /\ T # <<>> /\ new.todo = T /\ new.kind = old.kind /\ new.desired = old.desired
     /\ new.prune = old.prune /\ (new.clean => old.clean)

LEMMA NoJobFacts ==
  /\ NoJob.todo = <<>> /\ NoJob.kind = "none" /\ Len(NoJob.todo) = 0 /\ JobTyped(NoJob)
  /\ InOrder(NoJob.kind, NoJob.todo) /\ Paired(NoJob.todo)
<1>1. NoJob.todo = <<>> /\ NoJob.kind = "none" /\ Len(NoJob.todo) = 0
  BY DEF NoJob
<1>2. IsFiniteSet({}) /\ <<>> \in Seq(Statement("none"))
  BY FS_EmptySet
<1>3. JobTyped(NoJob)
  BY <1>2 DEF JobTyped, NoJob
<1> QED
  BY <1>1, <1>3 DEF InOrder, Paired

LEMMA Moved ==
  ASSUME JobTypes, UNCHANGED scope, NEW t \in All, job[t].todo # <<>>,
         NEW T \in Seq(Statement(job[t].kind)), NEW c \in BOOLEAN, Continue(t, T, c)
  PROVE  /\ JobTypes' /\ \A u \in All : u # t => job'[u] = job[u]
         /\ Goes(job[t], job'[t], T)
         /\ job'[t].clean /\ job'[t] # NoJob => c
<1>1. DOMAIN job = All /\ JobTyped(job[t])
  BY DEF JobTypes
<1>2. DOMAIN job' = All /\ \A u \in All : u # t => job'[u] = job[u]
  BY <1>1 DEF Continue
<1>3. CASE job'[t] = NoJob
  BY <1>2, <1>3, NoJobFacts DEF JobTypes, Goes
<1>4. CASE job'[t] # NoJob
  <2>1. T # <<>> /\ job'[t] = [job[t] EXCEPT !.todo = T, !.clean = job[t].clean /\ c]
    BY <1>1, <1>4 DEF Continue
  <2>2. DOMAIN job[t] = {"kind", "todo", "clean", "dropped", "desired", "prune"}
    BY <1>1 DEF JobTyped
  <2>3. /\ DOMAIN job'[t] = DOMAIN job[t] /\ job'[t].todo = T /\ job'[t].kind = job[t].kind
        /\ job'[t].desired = job[t].desired /\ job'[t].prune = job[t].prune
        /\ job'[t].dropped = job[t].dropped
    BY <2>1, <2>2
  <2>4. job'[t].clean = (job[t].clean /\ c)
    BY <2>1, <2>2
  <2>5. job[t].clean \in BOOLEAN
    BY <1>1 DEF JobTyped
  <2>6. job'[t].clean \in BOOLEAN /\ (job'[t].clean => job[t].clean /\ c)
    BY <2>4, <2>5
  <2>7. job[t].kind # "none"
    BY <1>1, NoJobFacts DEF JobTyped
  <2>8. JobTyped(job'[t])
    BY <1>1, <2>1, <2>2, <2>3, <2>6, <2>7 DEF JobTyped
  <2>9. JobTypes'
    BY <1>1, <1>2, <2>3, <2>8 DEF JobTypes
  <2> QED
    BY <1>2, <2>1, <2>3, <2>6, <2>9 DEF Goes
<1> QED
  BY <1>3, <1>4
-----------------------------------------------------------------------------
(* The statements of an operation that are to come are of its kind, in     *)
(* order, and in pairs where a rule is removed.                            *)
Good(kind, todo) == todo \in Seq(Statement(kind)) /\ InOrder(kind, todo) /\ Paired(todo)

LEMMA StatementFacts ==
  ASSUME NEW kind
  PROVE  /\ \A src \in SourceOf(kind), key \in Keys : Insert(src, key) \in Statement(kind)
         /\ \A do \in {"append", "rollback", "uninstall", "delete"}, row \in Stored :
              row.src \in SourceOf(kind) => OnRow(do, row) \in Statement(kind)
         /\ \A id \in Nat, src \in SourceOf(kind) : Get(id, src) \in Statement(kind)
         /\ \A src \in SourceOf(kind) : BySource(src) \in Statement(kind)
         /\ kind \in {"reconcile", Boot} =>
              /\ ListRows \in Statement(kind) /\ Report \in Statement(kind)
              /\ \A set \in SUBSET Stored : IsFiniteSet(set) => ListLive(set) \in Statement(kind)
              /\ \A row \in Stored : OnRow("reinsert", row) \in Statement(kind)
              /\ \A row \in Row : OnRow("prune", row) \in Statement(kind)
         /\ kind = "control" => Match \in Statement(kind) /\ Report \in Statement(kind)
<1>1. \A src \in SourceOf(kind), key \in Keys : Insert(src, key) \in Statement(kind)
  BY DEF Statement, Insert
<1>2. \A do \in {"append", "rollback", "uninstall", "delete"}, row \in Stored :
        row.src \in SourceOf(kind) => OnRow(do, row) \in Statement(kind)
  BY DEF Statement, OnRow
<1>3. \A id \in Nat, src \in SourceOf(kind) : Get(id, src) \in Statement(kind)
  BY DEF Statement, Get
<1>4. \A src \in SourceOf(kind) : BySource(src) \in Statement(kind)
  BY DEF Statement, BySource
<1>5. ASSUME kind \in {"reconcile", Boot}
      PROVE  /\ ListRows \in Statement(kind) /\ Report \in Statement(kind)
             /\ \A set \in SUBSET Stored : IsFiniteSet(set) => ListLive(set) \in Statement(kind)
             /\ \A row \in Stored : OnRow("reinsert", row) \in Statement(kind)
             /\ \A row \in Row : OnRow("prune", row) \in Statement(kind)
  BY <1>5 DEF Statement, ListRows, Report, ListLive, OnRow
<1>6. kind = "control" => Match \in Statement(kind) /\ Report \in Statement(kind)
  BY DEF Statement, Match, Report
<1> QED
  BY <1>1, <1>2, <1>3, <1>4, <1>5, <1>6

(* What a statement that a task has is about.                              *)
LEMMA StatementOf ==
  ASSUME NEW kind, NEW s \in Statement(kind)
  PROVE  /\ s.do = "insert" => s.src \in SourceOf(kind) /\ s.key \in Keys /\ s = Insert(s.src, s.key)
         /\ s.do \in {"append", "rollback", "uninstall", "delete"} =>
              s.row \in Stored /\ s.row.src \in SourceOf(kind) /\ s = OnRow(s.do, s.row)
         /\ s.do = "get" => s.id \in Nat /\ s.src \in SourceOf(kind) /\ s = Get(s.id, s.src)
         /\ s.do = "bysource" => s.src \in SourceOf(kind)
         /\ s.do = "listlive" => s.rows \subseteq Stored /\ IsFiniteSet(s.rows)
         /\ s.do = "reinsert" => s.row \in Stored /\ s = OnRow("reinsert", s.row)
         /\ s.do = "prune" => s.row \in Row /\ s = OnRow("prune", s.row)
         /\ s.do \in {"listrows", "listlive", "reinsert", "prune"} => kind \in {"reconcile", Boot}
         /\ s.do = "report" => kind \in {"reconcile", Boot, "control"} /\ s = Report
         /\ s.do = "match" => kind = "control"
<1>1. CASE s \in [do : {"insert"}, src : SourceOf(kind), key : Keys]
  BY <1>1 DEF Insert
<1>2. CASE s \in [do : {"append", "rollback", "uninstall", "delete"}, row : {r \in Stored : r.src \in SourceOf(kind)}]
  BY <1>2 DEF OnRow
<1>3. CASE s \in [do : {"get"}, id : Nat, src : SourceOf(kind)]
  BY <1>3 DEF Get
<1>4. CASE s \in [do : {"bysource"}, src : SourceOf(kind)]
  BY <1>4
<1>5. CASE kind \in {"reconcile", Boot} /\ s \in [do : {"listrows", "report"}]
  BY <1>5 DEF Report
<1>6. CASE kind \in {"reconcile", Boot} /\ s \in [do : {"listlive"}, rows : {set \in SUBSET Stored : IsFiniteSet(set)}]
  BY <1>6
<1>7. CASE kind \in {"reconcile", Boot} /\ s \in [do : {"reinsert"}, row : Stored] \union [do : {"prune"}, row : Row]
  BY <1>7 DEF OnRow
<1>8. CASE kind = "control" /\ s \in [do : {"match", "report"}]
  BY <1>8 DEF Report
<1> QED
  BY <1>1, <1>2, <1>3, <1>4, <1>5, <1>6, <1>7, <1>8 DEF Statement

(* A statement that is to come later is none of those that only start.     *)
LEMMA FirstOnly ==
  ASSUME NEW kind, NEW todo, Good(kind, todo), todo # <<>>
  PROVE  /\ Len(todo) \in Nat /\ Len(todo) > 0 /\ Head(todo) = todo[1] /\ todo[1] \in Statement(kind)
         /\ \A k \in 2 .. Len(todo) : todo[k] \in Statement(kind) /\ May(kind, todo[1], todo[k])
<1>1. todo \in Seq(Statement(kind)) /\ Len(todo) \in Nat /\ Len(todo) > 0
  BY DEF Good
<1>2. \A k \in 1 .. Len(todo) : todo[k] \in Statement(kind)
  BY <1>1
<1>3. ASSUME NEW k \in 2 .. Len(todo) PROVE May(kind, todo[1], todo[k])
  <2>1. 1 \in 1 .. Len(todo) /\ k \in 1 .. Len(todo) /\ 1 < k
    BY <1>1
  <2> QED
    BY <2>1 DEF Good, InOrder
<1> QED
  BY <1>1, <1>2, <1>3

(* Good statements s before the rest of good ones.                         *)
LEMMA GoodJoined ==
  ASSUME NEW kind, NEW s, Good(kind, s), NEW todo, Good(kind, todo), todo # <<>>,
         s = <<>> \/ todo[1].do # "uninstall",
         \A i \in 1 .. Len(s), k \in 2 .. Len(todo) : May(kind, s[i], todo[k])
  PROVE  Good(kind, s \o Tail(todo))
<1>1. s \in Seq(Statement(kind)) /\ todo \in Seq(Statement(kind))
  BY DEF Good
<1>2. s \o Tail(todo) \in Seq(Statement(kind))
  BY <1>1, Joined
<1>3. InOrder(kind, s \o Tail(todo))
  BY <1>1, InOrderJoined DEF Good
<1>4. Paired(s \o Tail(todo))
  BY <1>1, PairedJoined DEF Good
<1> QED
  BY <1>2, <1>3, <1>4 DEF Good

LEMMA GoodEmpty ==
  ASSUME NEW kind
  PROVE  Good(kind, <<>>)
<1>1. <<>> \in Seq(Statement(kind)) /\ Len(<<>>) = 0
  OBVIOUS
<1> QED
  BY <1>1 DEF Good, InOrder, Paired

LEMMA GoodTail ==
  ASSUME NEW kind, NEW todo, Good(kind, todo), todo # <<>>
  PROVE  Good(kind, Tail(todo)) /\ Tail(todo) = <<>> \o Tail(todo)
<1>1. Tail(todo) \in Seq(Statement(kind))
  BY DEF Good
<1>2. Tail(todo) = <<>> \o Tail(todo)
  BY <1>1, ConcatEmptySeq
<1> DEFINE s == <<>>
<1>3. Good(kind, s) /\ s = <<>>
  BY GoodEmpty
<1>4. \A i \in 1 .. Len(s), k \in 2 .. Len(todo) : May(kind, s[i], todo[k])
  OBVIOUS
<1>5. Good(kind, s \o Tail(todo))
  <2> HIDE DEF s
  <2> QED
    BY <1>3, <1>4, GoodJoined
<1> QED
  BY <1>2, <1>5

LEMMA GoodSingle ==
  ASSUME NEW kind, NEW s \in Statement(kind), s.do # "uninstall"
  PROVE  Good(kind, <<s>>) /\ Len(<<s>>) = 1 /\ <<s>>[1] = s
<1>1. <<s>> \in Seq(Statement(kind)) /\ Len(<<s>>) = 1 /\ <<s>>[1] = s
  OBVIOUS
<1>2. InOrder(kind, <<s>>)
  BY <1>1 DEF InOrder
<1>3. Paired(<<s>>)
  BY <1>1 DEF Paired
<1> QED
  BY <1>1, <1>2, <1>3 DEF Good
(* The statements that an answer gives rise to.                            *)
LEMMA OrdersFacts ==
  ASSUME NEW S, IsFiniteSet(S), NEW list \in Orders(S)
  PROVE  /\ list \in Seq(S) /\ Len(list) \in Nat /\ DOMAIN list = 1 .. Len(list)
         /\ \A i \in 1 .. Len(list) : list[i] \in S
         /\ \A x \in S : \E i \in 1 .. Len(list) : list[i] = x
         /\ \A i, k \in 1 .. Len(list) : list[i] = list[k] => i = k
<1>1. Cardinality(S) \in Nat
  BY FS_CardinalityType
<1>2. list \in [1 .. Cardinality(S) -> S]
  BY DEF Orders, Bijection, Injection
<1>3. list \in Seq(S) /\ Len(list) = Cardinality(S) /\ DOMAIN list = 1 .. Cardinality(S)
  BY <1>1, <1>2
<1>4. \A x \in S : \E i \in 1 .. Cardinality(S) : list[i] = x
  BY DEF Orders, Bijection, Surjection
<1>5. \A i, k \in DOMAIN list : list[i] = list[k] => i = k
  BY DEF Orders, Bijection, Injection, IsInjective
<1> QED
  BY <1>1, <1>2, <1>3, <1>4, <1>5

LEMMA ListedFacts ==
  ASSUME NEW S, IsFiniteSet(S), NEW list \in Listed(S)
  PROVE  /\ list \in Seq(S) /\ Len(list) \in Nat /\ DOMAIN list = 1 .. Len(list)
         /\ \A i \in 1 .. Len(list) : list[i] \in S
         /\ \A x \in S : \E i \in 1 .. Len(list) : list[i] = x
         /\ \A i, k \in 1 .. Len(list) : list[i] = list[k] => i = k
<1>1. list \in Orders(S)
  BY DEF Listed
<1> QED
  BY <1>1, OrdersFacts

LEMMA OnRowFields ==
  \A do, row : OnRow(do, row).do = do /\ OnRow(do, row).row = row
BY DEF OnRow

LEMMA UninstallsFacts ==
  ASSUME NEW S, NEW list \in Seq(S), NEW L, L = Uninstalls(list)
  PROVE  /\ Len(L) = 2 * Len(list) /\ Len(L) \in Nat /\ DOMAIN L = 1 .. Len(L)
         /\ \A i \in 1 .. Len(L) : \E n \in 1 .. Len(list) :
              L[i] = OnRow("uninstall", list[n]) \/ L[i] = OnRow("delete", list[n])
         /\ Len(L) > 0 => L[1].do = "uninstall"
         /\ Paired(L)
<1>1. Len(list) \in Nat
  OBVIOUS
<1>2. L = [i \in 1 .. 2 * Len(list) |-> OnRow(IF i % 2 = 1 THEN "uninstall" ELSE "delete", list[(i + 1) \div 2])]
  BY DEF Uninstalls, Both
<1>3. DOMAIN L = 1 .. 2 * Len(list) /\ Len(L) = 2 * Len(list) /\ Len(L) \in Nat
  BY <1>1, <1>2
<1>4. \A i \in 1 .. Len(L) :
        /\ (i + 1) \div 2 \in 1 .. Len(list) /\ (i % 2 = 1 \/ i % 2 = 0)
        /\ i % 2 = 1 => i < Len(L) /\ (i + 1) % 2 = 0 /\ ((i + 1) + 1) \div 2 = (i + 1) \div 2
        /\ i % 2 = 0 => i - 1 \in 1 .. Len(L) /\ (i - 1) % 2 = 1 /\ ((i - 1) + 1) \div 2 = (i + 1) \div 2
  BY <1>1, <1>3
<1>5. \A i \in 1 .. Len(L) :
        /\ i % 2 = 1 => L[i] = OnRow("uninstall", list[(i + 1) \div 2])
        /\ i % 2 = 0 => L[i] = OnRow("delete", list[(i + 1) \div 2])
  BY <1>2, <1>3
<1>6. \A i \in 1 .. Len(L) : (i % 2 = 1 => L[i].do = "uninstall") /\ (i % 2 = 0 => L[i].do = "delete")
  BY <1>5, OnRowFields
<1> DEFINE half(i) == (i + 1) \div 2
<1>7. \A i \in 1 .. Len(L) :
        L[i] = OnRow("uninstall", list[half(i)]) \/ L[i] = OnRow("delete", list[half(i)])
  BY <1>4, <1>5
<1>8. ASSUME NEW i \in 1 .. Len(L), L[i].do = "uninstall"
      PROVE  i < Len(L) /\ L[i + 1] = OnRow("delete", L[i].row)
  <2>1. i % 2 = 1
    BY <1>4, <1>6, <1>8
  <2>2. i < Len(L) /\ (i + 1) % 2 = 0 /\ half(i + 1) = half(i)
    BY <1>4, <2>1
  <2>3. i + 1 \in 1 .. Len(L)
    BY <1>3, <2>2
  <2>4. L[i] = OnRow("uninstall", list[half(i)]) /\ L[i + 1] = OnRow("delete", list[half(i + 1)])
    BY <1>5, <2>1, <2>2, <2>3
  <2>5. L[i].row = list[half(i)]
    BY <2>4 DEF OnRow
  <2> QED
    BY <2>2, <2>4, <2>5
<1>9. ASSUME NEW i \in 2 .. Len(L), L[i].do = "delete" PROVE L[i - 1] = OnRow("uninstall", L[i].row)
  <2>1. i \in 1 .. Len(L)
    BY <1>3
  <2>2. i % 2 = 0
    BY <1>4, <1>6, <1>9, <2>1
  <2>3. i - 1 \in 1 .. Len(L) /\ (i - 1) % 2 = 1 /\ half(i - 1) = half(i)
    BY <1>4, <2>1, <2>2
  <2>4. L[i] = OnRow("delete", list[half(i)]) /\ L[i - 1] = OnRow("uninstall", list[half(i - 1)])
    BY <1>5, <2>1, <2>2, <2>3
  <2>5. L[i].row = list[half(i)]
    BY <2>4 DEF OnRow
  <2> QED
    BY <2>3, <2>4, <2>5
<1>10. Len(L) > 0 => L[1].do = "uninstall"
  <2>1. ASSUME Len(L) > 0 PROVE L[1].do = "uninstall"
    <3>1. 1 \in 1 .. Len(L) /\ 1 % 2 = 1
      BY <1>3, <2>1
    <3> QED
      BY <1>6, <3>1
  <2> QED
    BY <2>1
<1>11. \A i \in 1 .. Len(L) : \E n \in 1 .. Len(list) :
         L[i] = OnRow("uninstall", list[n]) \/ L[i] = OnRow("delete", list[n])
  BY <1>4, <1>7
<1>12. Paired(L)
  BY <1>8, <1>9 DEF Paired
<1> QED
  BY <1>3, <1>10, <1>11, <1>12

(* The removal of rows that the operation owns.                            *)
LEMMA GoodUninstalls ==
  ASSUME NEW kind, NEW S \in SUBSET {r \in Stored : r.src \in SourceOf(kind)}, NEW list \in Seq(S)
  PROVE  Good(kind, Uninstalls(list))
<1> DEFINE L == Uninstalls(list)
<1>1. /\ Len(L) \in Nat /\ DOMAIN L = 1 .. Len(L) /\ Paired(L)
      /\ \A i \in 1 .. Len(L) : \E n \in 1 .. Len(list) :
           L[i] = OnRow("uninstall", list[n]) \/ L[i] = OnRow("delete", list[n])
  BY UninstallsFacts
<1>2. \A n \in 1 .. Len(list) : list[n] \in Stored /\ list[n].src \in SourceOf(kind)
  OBVIOUS
<1>3. \A i \in 1 .. Len(L) : L[i] \in Statement(kind) /\ L[i].do \in {"uninstall", "delete"}
  <2>1. ASSUME NEW i \in 1 .. Len(L) PROVE L[i] \in Statement(kind) /\ L[i].do \in {"uninstall", "delete"}
    <3>1. PICK n \in 1 .. Len(list) : L[i] = OnRow("uninstall", list[n]) \/ L[i] = OnRow("delete", list[n])
      BY <1>1
    <3>2. OnRow("uninstall", list[n]) \in Statement(kind) /\ OnRow("delete", list[n]) \in Statement(kind)
      BY <1>2, StatementFacts
    <3> QED
      BY <3>1, <3>2 DEF OnRow
  <2> QED
    BY <2>1
<1>4. L \in Seq(Statement(kind))
  <2>1. L = [i \in 1 .. Len(L) |-> L[i]]
    BY <1>1 DEF Uninstalls, Both
  <2> HIDE DEF L
  <2> QED
    BY <1>1, <1>3, <2>1
<1>5. InOrder(kind, L)
  <2> HIDE DEF L
  <2> QED
    BY <1>3 DEF InOrder, May, Heads
<1> QED
  BY <1>1, <1>4, <1>5 DEF Good

LEMMA InsertsFacts ==
  ASSUME NEW S, NEW keys \in Seq(S), NEW src, NEW L, L = Inserts(src, keys)
  PROVE  /\ Len(L) = Len(keys) /\ Len(L) \in Nat /\ L = [i \in 1 .. Len(L) |-> L[i]]
         /\ \A i \in 1 .. Len(L) : L[i] = Insert(src, keys[i])
BY DEF Inserts

LEMMA GoodInserts ==
  ASSUME NEW kind, NEW src \in SourceOf(kind), NEW keys \in Seq(Keys),
         kind = "control" => \A i, k \in 1 .. Len(keys) : keys[i] = keys[k] => i = k
  PROVE  /\ Good(kind, Inserts(src, keys))
         /\ \A i \in 1 .. Len(Inserts(src, keys)) : Inserts(src, keys)[i].do = "insert"
<1> DEFINE L == Inserts(src, keys)
<1>1. /\ Len(L) = Len(keys) /\ Len(L) \in Nat /\ L = [i \in 1 .. Len(L) |-> L[i]]
      /\ \A i \in 1 .. Len(L) : L[i] = Insert(src, keys[i])
  BY InsertsFacts
<1> HIDE DEF L
<1>2. \A i \in 1 .. Len(L) : L[i] \in Statement(kind) /\ L[i].do = "insert" /\ L[i].key = keys[i]
  <2>1. \A i \in 1 .. Len(L) : keys[i] \in Keys
    BY <1>1
  <2> QED
    BY <1>1, <2>1, StatementFacts DEF Insert
<1>3. L \in Seq(Statement(kind))
  BY <1>1, <1>2
<1>4. InOrder(kind, L)
  <2>1. ASSUME NEW i \in 1 .. Len(L), NEW k \in 1 .. Len(L), i < k PROVE May(kind, L[i], L[k])
    <3>1. kind = "control" => L[i].key # L[k].key
      BY <1>1, <1>2, <2>1
    <3> QED
      BY <1>2, <3>1 DEF May, Heads
  <2> QED
    BY <2>1 DEF InOrder
<1>5. Paired(L)
  <2>1. \A i \in 1 .. Len(L) : L[i].do # "uninstall" /\ L[i].do # "delete"
    BY <1>2
  <2>2. \A i \in 2 .. Len(L) : i \in 1 .. Len(L)
    BY <1>1
  <2> QED
    BY <2>1, <2>2 DEF Paired
<1> QED
  BY <1>2, <1>3, <1>4, <1>5 DEF Good, L

LEMMA GoodBaseline ==
  ASSUME NEW kind \in {"start", "subnet", Boot}
  PROVE  /\ Good(kind, BaselineRules) /\ \A i \in 1 .. Len(BaselineRules) : BaselineRules[i].do = "insert"
         /\ BaselineRules \in Seq(Statement(kind))
<1>1. "wg-driver" \in SourceOf(kind) /\ kind # "control"
  BY SourceFacts DEF Boot
<1>2. Baseline \in Seq(Keys)
  BY NetAssumption
<1> QED
  BY <1>1, <1>2, GoodInserts DEF BaselineRules, Good
LEMMA TwoParts ==
  ASSUME NEW S, NEW a \in Seq(S), NEW b \in Seq(S), NEW L, L = a \o b
  PROVE  /\ L \in Seq(S) /\ Len(L) = Len(a) + Len(b) /\ Len(a) \in Nat /\ Len(b) \in Nat
         /\ \A i \in 1 .. Len(a) : L[i] = a[i]
         /\ \A i \in 1 .. Len(b) : L[Len(a) + i] = b[i]
OBVIOUS

(* What L is made of: the statements a, then b, then c.                    *)
Parts(L, a, b, c) ==
  /\ Len(L) = Len(a) + Len(b) + 1 /\ Len(a) \in Nat /\ Len(b) \in Nat
  /\ \A i \in 1 .. Len(a) : L[i] = a[i]
  /\ \A i \in 1 .. Len(b) : L[Len(a) + i] = b[i]
  /\ \A i \in 1 .. Len(L) : \/ i \in 1 .. Len(a) /\ L[i] = a[i]
                            \/ \E n \in 1 .. Len(b) : i = Len(a) + n /\ L[i] = b[n]
                            \/ i = Len(L) /\ L[i] = c

LEMMA ThreeParts ==
  ASSUME NEW S, NEW a \in Seq(S), NEW b \in Seq(S), NEW c \in S
  PROVE  Append(a \o b, c) \in Seq(S) /\ Parts(Append(a \o b, c), a, b, c)
<1> DEFINE ab == a \o b
           L == Append(ab, c)
<1>1. /\ ab \in Seq(S) /\ Len(ab) = Len(a) + Len(b) /\ Len(a) \in Nat /\ Len(b) \in Nat
      /\ \A i \in 1 .. Len(a) : ab[i] = a[i]
      /\ \A i \in 1 .. Len(b) : ab[Len(a) + i] = b[i]
  BY TwoParts
<1> HIDE DEF ab
<1>2. L \in Seq(S) /\ Len(L) = Len(ab) + 1 /\ \A i \in 1 .. Len(ab) : L[i] = ab[i]
  BY <1>1
<1>3. L[Len(ab) + 1] = c
  BY <1>1, AppendProperties
<1> HIDE DEF L
<1>4. \A i \in 1 .. Len(a) : L[i] = a[i]
  BY <1>1, <1>2
<1>5. \A i \in 1 .. Len(b) : L[Len(a) + i] = b[i]
  <2>1. \A i \in 1 .. Len(b) : Len(a) + i \in 1 .. Len(ab)
    BY <1>1
  <2> QED
    BY <1>1, <1>2, <2>1
<1>6. ASSUME NEW i \in 1 .. Len(L)
      PROVE  \/ i \in 1 .. Len(a) /\ L[i] = a[i]
             \/ \E n \in 1 .. Len(b) : i = Len(a) + n /\ L[i] = b[n]
             \/ i = Len(L) /\ L[i] = c
  <2>1. CASE i <= Len(a)
    BY <1>1, <1>2, <1>3, <1>4, <2>1
  <2>2. CASE i > Len(a) /\ i # Len(L)
    <3>1. i - Len(a) \in 1 .. Len(b) /\ i = Len(a) + (i - Len(a))
      BY <1>1, <1>2, <1>3, <2>2
    <3> QED
      BY <1>5, <3>1
  <2>3. CASE i = Len(L)
    BY <1>1, <1>2, <1>3, <2>3
  <2> QED
    BY <1>1, <1>2, <1>3, <2>1, <2>2, <2>3
<1>7. Parts(L, a, b, c)
  BY <1>1, <1>2, <1>4, <1>5, <1>6 DEF Parts
<1> QED
  BY <1>2, <1>7 DEF L, ab

LEMMA OnRowsFacts ==
  ASSUME NEW S, NEW list \in Seq(S), NEW do, NEW L, L = OnRows(do, list)
  PROVE  /\ Len(L) = Len(list) /\ Len(L) \in Nat /\ L = [i \in 1 .. Len(L) |-> L[i]]
         /\ \A i \in 1 .. Len(L) : L[i] = OnRow(do, list[i]) /\ L[i].do = do /\ L[i].row = list[i]
<1>1. DOMAIN list = 1 .. Len(list) /\ Len(list) \in Nat
  OBVIOUS
<1>2. L = [i \in 1 .. Len(list) |-> OnRow(do, list[i])]
  BY <1>1 DEF OnRows
<1> QED
  BY <1>1, <1>2, OnRowFields

(* The statements of a reconcile that has both lists.                      *)
LEMMA RepairsFacts ==
  ASSUME NEW kind \in {"reconcile", Boot}, NEW missing \in Seq(Stored), NEW stale \in Seq(Row),
         \A i, k \in 1 .. Len(missing) : missing[i] = missing[k] => i = k
  PROVE  /\ Good(kind, Repairs(missing, stale))
         /\ \A i \in 1 .. Len(Repairs(missing, stale)) :
              \/ \E n \in 1 .. Len(missing) : Repairs(missing, stale)[i] = OnRow("reinsert", missing[n])
              \/ \E n \in 1 .. Len(stale) : Repairs(missing, stale)[i] = OnRow("prune", stale[n])
              \/ Repairs(missing, stale)[i] = Report
         /\ \A n \in 1 .. Len(missing) : \E i \in 1 .. Len(Repairs(missing, stale)) :
              Repairs(missing, stale)[i] = OnRow("reinsert", missing[n])
         /\ \A n \in 1 .. Len(stale) : \E i \in 1 .. Len(Repairs(missing, stale)) :
              Repairs(missing, stale)[i] = OnRow("prune", stale[n])
<1> DEFINE a == OnRows("reinsert", missing)
           b == OnRows("prune", stale)
           L == Repairs(missing, stale)
<1>1. /\ Len(a) = Len(missing) /\ Len(a) \in Nat /\ a = [i \in 1 .. Len(a) |-> a[i]]
      /\ \A i \in 1 .. Len(a) : a[i] = OnRow("reinsert", missing[i]) /\ a[i].do = "reinsert" /\ a[i].row = missing[i]
  BY OnRowsFacts
<1>2. /\ Len(b) = Len(stale) /\ Len(b) \in Nat /\ b = [i \in 1 .. Len(b) |-> b[i]]
      /\ \A i \in 1 .. Len(b) : b[i] = OnRow("prune", stale[i]) /\ b[i].do = "prune" /\ b[i].row = stale[i]
  BY OnRowsFacts
<1> HIDE DEF a, b
<1>3. /\ \A i \in 1 .. Len(missing) : missing[i] \in Stored
      /\ \A i \in 1 .. Len(stale) : stale[i] \in Row
  OBVIOUS
<1>4. a \in Seq(Statement(kind)) /\ b \in Seq(Statement(kind)) /\ Report \in Statement(kind)
  <2>1. \A i \in 1 .. Len(a) : a[i] \in Statement(kind)
    BY <1>1, <1>3, StatementFacts
  <2>2. \A i \in 1 .. Len(b) : b[i] \in Statement(kind)
    BY <1>2, <1>3, StatementFacts
  <2>3. a \in Seq(Statement(kind))
    BY <1>1, <2>1
  <2>4. b \in Seq(Statement(kind))
    BY <1>2, <2>2
  <2> QED
    BY <2>3, <2>4, StatementFacts
<1>5. L = Append(a \o b, Report)
  BY DEF Repairs, a, b
<1> HIDE DEF L
<1> DEFINE S == Statement(kind)
<1>6. a \in Seq(S) /\ b \in Seq(S) /\ Report \in S
  BY <1>4
<1> HIDE DEF S
<1>7. L \in Seq(S) /\ Parts(L, a, b, Report)
  BY <1>5, <1>6, ThreeParts
<1>8. /\ L \in Seq(S) /\ Len(L) = Len(a) + Len(b) + 1
      /\ \A i \in 1 .. Len(a) : L[i] = a[i]
      /\ \A i \in 1 .. Len(b) : L[Len(a) + i] = b[i]
      /\ \A i \in 1 .. Len(L) : \/ i \in 1 .. Len(a) /\ L[i] = a[i]
                                \/ \E n \in 1 .. Len(b) : i = Len(a) + n /\ L[i] = b[n]
                                \/ i = Len(L) /\ L[i] = Report
  BY <1>7 DEF Parts
<1>9. Report.do = "report"
  BY DEF Report
<1>10. InOrder(kind, L)
  <2> SUFFICES ASSUME NEW i \in 1 .. Len(L), NEW k \in 1 .. Len(L), i < k PROVE May(kind, L[i], L[k])
    BY DEF InOrder
  <2>1. i # Len(L)
    BY <1>1, <1>2, <1>8
  <2>2. (i \in 1 .. Len(a) /\ L[i] = a[i]) \/ L[i].do = "prune"
    BY <1>2, <1>8, <2>1
  <2>3. L[i].do \in {"reinsert", "prune"}
    BY <1>1, <2>2
  <2>4. CASE k \in 1 .. Len(a) /\ L[k] = a[k]
    <3>1. i \in 1 .. Len(a) /\ L[i] = a[i]
      BY <1>1, <1>8, <2>4
    <3>2. L[i].do = "reinsert" /\ L[k].do = "reinsert" /\ L[i].row = missing[i] /\ L[k].row = missing[k]
      BY <1>1, <2>4, <3>1
    <3>3. missing[i] # missing[k]
      BY <1>1, <2>4, <3>1
    <3> QED
      BY <3>2, <3>3 DEF May, Heads
  <2>5. CASE L[k].do \in {"prune", "report"}
    BY <2>3, <2>5 DEF May, Heads
  <2>6. (k \in 1 .. Len(a) /\ L[k] = a[k]) \/ L[k].do \in {"prune", "report"}
    BY <1>2, <1>8, <1>9
  <2> QED
    BY <2>4, <2>5, <2>6
<1>11. Paired(L)
  <2>1. \A i \in 1 .. Len(L) : L[i].do # "uninstall" /\ L[i].do # "delete"
    BY <1>1, <1>2, <1>8, <1>9
  <2>2. \A i \in 2 .. Len(L) : i \in 1 .. Len(L)
    BY <1>1, <1>2, <1>8
  <2> QED
    BY <2>1, <2>2 DEF Paired
<1>12. \A i \in 1 .. Len(L) : \/ \E n \in 1 .. Len(missing) : L[i] = OnRow("reinsert", missing[n])
                              \/ \E n \in 1 .. Len(stale) : L[i] = OnRow("prune", stale[n])
                              \/ L[i] = Report
  <2>1. \A i \in 1 .. Len(a) : i \in 1 .. Len(missing) /\ a[i] = OnRow("reinsert", missing[i])
    BY <1>1
  <2>2. \A i \in 1 .. Len(b) : i \in 1 .. Len(stale) /\ b[i] = OnRow("prune", stale[i])
    BY <1>2
  <2> QED
    BY <1>8, <2>1, <2>2
<1>13. \A n \in 1 .. Len(missing) : \E i \in 1 .. Len(L) : L[i] = OnRow("reinsert", missing[n])
  <2>1. \A n \in 1 .. Len(missing) : n \in 1 .. Len(a) /\ n \in 1 .. Len(L)
    BY <1>1, <1>2, <1>8
  <2> QED
    BY <1>1, <1>8, <2>1
<1>14. \A n \in 1 .. Len(stale) : \E i \in 1 .. Len(L) : L[i] = OnRow("prune", stale[n])
  <2>1. \A n \in 1 .. Len(stale) : n \in 1 .. Len(b) /\ Len(a) + n \in 1 .. Len(L)
    BY <1>1, <1>2, <1>8
  <2> QED
    BY <1>2, <1>8, <2>1
<1> QED
  BY <1>8, <1>10, <1>11, <1>12, <1>13, <1>14 DEF Good, L, S

LEMMA ControlInserts ==
  ASSUME NEW keys \in Seq(Keys), \A i, k \in 1 .. Len(keys) : keys[i] = keys[k] => i = k,
         NEW b, b = Inserts("control", keys)
  PROVE  /\ Len(b) = Len(keys) /\ Len(b) \in Nat /\ \A i \in 1 .. Len(b) : b[i] = Insert("control", keys[i])
         /\ Good("control", b) /\ \A i \in 1 .. Len(b) : b[i].do = "insert"
<1>1. "control" \in SourceOf("control")
  BY SourceFacts
<1>2. Len(b) = Len(keys) /\ Len(b) \in Nat /\ \A i \in 1 .. Len(b) : b[i] = Insert("control", keys[i])
  BY InsertsFacts
<1>3. /\ Good("control", Inserts("control", keys))
      /\ \A i \in 1 .. Len(Inserts("control", keys)) : Inserts("control", keys)[i].do = "insert"
  BY <1>1, GoodInserts
<1> QED
  BY <1>2, <1>3

(* The statements of a pass over the control center's rules.               *)
LEMMA DeclaresFacts ==
  ASSUME NEW list \in Seq(Stored), NEW keys \in Seq(Keys),
         \A i, k \in 1 .. Len(keys) : keys[i] = keys[k] => i = k
  PROVE  /\ Good("control", Declares(list, keys))
         /\ \A i \in 1 .. Len(Declares(list, keys)) :
              \/ \E n \in 1 .. Len(list) : Declares(list, keys)[i] = Get(list[n].id, "control")
              \/ \E n \in 1 .. Len(keys) : Declares(list, keys)[i] = Insert("control", keys[n])
              \/ Declares(list, keys)[i] = Report
         /\ \A n \in 1 .. Len(list) : \E i \in 1 .. Len(Declares(list, keys)) :
              Declares(list, keys)[i] = Get(list[n].id, "control")
         /\ \A n \in 1 .. Len(keys) : \E i \in 1 .. Len(Declares(list, keys)) :
              Declares(list, keys)[i] = Insert("control", keys[n])
<1> DEFINE a == Gets("control", list)
           b == Inserts("control", keys)
           L == Declares(list, keys)
<1>1. "control" \in SourceOf("control")
  BY SourceFacts
<1>2. /\ Len(a) = Len(list) /\ Len(a) \in Nat /\ a = [i \in 1 .. Len(a) |-> a[i]]
      /\ \A i \in 1 .. Len(a) : a[i] = Get(list[i].id, "control")
  <2>1. DOMAIN list = 1 .. Len(list) /\ Len(list) \in Nat
    OBVIOUS
  <2>2. a = [i \in 1 .. Len(list) |-> Get(list[i].id, "control")]
    BY <2>1 DEF Gets
  <2> QED
    BY <2>1, <2>2
<1>3. \A i \in 1 .. Len(a) : a[i].do = "get" /\ a[i] \in Statement("control")
  <2>1. ASSUME NEW i \in 1 .. Len(a) PROVE a[i].do = "get" /\ a[i] \in Statement("control")
    <3>1. list[i] \in Stored
      BY <1>2
    <3>2. list[i].id \in Nat
      BY <3>1, NetAssumption DEF Stored
    <3>3. Get(list[i].id, "control") \in Statement("control")
      BY <1>1, <3>2, StatementFacts
    <3> QED
      BY <1>2, <3>3 DEF Get
  <2> QED
    BY <2>1
<1>4. /\ Len(b) = Len(keys) /\ Len(b) \in Nat /\ \A i \in 1 .. Len(b) : b[i] = Insert("control", keys[i])
      /\ Good("control", b) /\ \A i \in 1 .. Len(b) : b[i].do = "insert"
  BY ControlInserts
<1>5. Good("control", b) /\ \A i \in 1 .. Len(b) : b[i].do = "insert"
  BY <1>4
<1> HIDE DEF a, b
<1>6. a \in Seq(Statement("control")) /\ b \in Seq(Statement("control")) /\ Report \in Statement("control")
  <2>1. a \in Seq(Statement("control"))
    BY <1>2, <1>3
  <2>2. b \in Seq(Statement("control"))
    BY <1>5 DEF Good
  <2>3. Report \in Statement("control")
    BY StatementFacts
  <2> QED
    BY <2>1, <2>2, <2>3
<1>7. L = Append(a \o b, Report)
  BY DEF Declares, a, b
<1> HIDE DEF L
<1> DEFINE S == Statement("control")
<1>8. a \in Seq(S) /\ b \in Seq(S) /\ Report \in S
  BY <1>6
<1> HIDE DEF S
<1>9. L \in Seq(S) /\ Parts(L, a, b, Report)
  BY <1>7, <1>8, ThreeParts
<1>10. /\ L \in Seq(S) /\ Len(L) = Len(a) + Len(b) + 1
       /\ \A i \in 1 .. Len(a) : L[i] = a[i]
       /\ \A i \in 1 .. Len(b) : L[Len(a) + i] = b[i]
       /\ \A i \in 1 .. Len(L) : \/ i \in 1 .. Len(a) /\ L[i] = a[i]
                                 \/ \E n \in 1 .. Len(b) : i = Len(a) + n /\ L[i] = b[n]
                                 \/ i = Len(L) /\ L[i] = Report
  BY <1>9 DEF Parts
<1>11. Report.do = "report"
  BY DEF Report
<1>12. InOrder("control", L)
  <2> SUFFICES ASSUME NEW i \in 1 .. Len(L), NEW k \in 1 .. Len(L), i < k PROVE May("control", L[i], L[k])
    BY DEF InOrder
  <2>1. i # Len(L)
    BY <1>2, <1>4, <1>10
  <2>2. L[i].do = "get" \/ \E n \in 1 .. Len(b) : i = Len(a) + n /\ L[i] = b[n]
    BY <1>3, <1>10, <2>1
  <2>3. L[k].do \in {"get", "report"} \/ \E n \in 1 .. Len(b) : k = Len(a) + n /\ L[k] = b[n]
    BY <1>3, <1>10, <1>11
  <2>4. L[i].do \in {"get", "insert"} /\ L[k].do \in {"get", "insert", "report"}
    BY <1>5, <2>2, <2>3
  <2>5. ASSUME L[i].do = "insert", L[k].do = "insert" PROVE L[i].key # L[k].key
    <3>1. PICK n \in 1 .. Len(b) : i = Len(a) + n /\ L[i] = b[n]
      BY <2>2, <2>5
    <3>2. PICK m \in 1 .. Len(b) : k = Len(a) + m /\ L[k] = b[m]
      BY <2>3, <2>5
    <3>3. n < m /\ n \in 1 .. Len(b) /\ m \in 1 .. Len(b)
      BY <1>2, <1>4, <3>1, <3>2
    <3>4. May("control", b[n], b[m])
      BY <1>5, <3>3 DEF Good, InOrder
    <3> QED
      BY <2>5, <3>1, <3>2, <3>4 DEF May
  <2> QED
    BY <2>4, <2>5, SourceFacts DEF May, Heads, Boot
<1>13. Paired(L)
  <2>1. \A i \in 1 .. Len(L) : L[i].do # "uninstall" /\ L[i].do # "delete"
    BY <1>3, <1>5, <1>10, <1>11
  <2>2. \A i \in 2 .. Len(L) : i \in 1 .. Len(L)
    BY <1>2, <1>4, <1>10
  <2> QED
    BY <2>1, <2>2 DEF Paired
<1>14. \A i \in 1 .. Len(L) : \/ \E n \in 1 .. Len(list) : L[i] = Get(list[n].id, "control")
                              \/ \E n \in 1 .. Len(keys) : L[i] = Insert("control", keys[n])
                              \/ L[i] = Report
  <2>1. \A i \in 1 .. Len(a) : i \in 1 .. Len(list) /\ a[i] = Get(list[i].id, "control")
    BY <1>2
  <2>2. \A i \in 1 .. Len(b) : i \in 1 .. Len(keys) /\ b[i] = Insert("control", keys[i])
    BY <1>4
  <2> QED
    BY <1>10, <2>1, <2>2
<1>15. \A n \in 1 .. Len(list) : \E i \in 1 .. Len(L) : L[i] = Get(list[n].id, "control")
  <2>1. \A n \in 1 .. Len(list) : n \in 1 .. Len(a) /\ n \in 1 .. Len(L)
    BY <1>2, <1>4, <1>10
  <2> QED
    BY <1>2, <1>10, <2>1
<1>16. \A n \in 1 .. Len(keys) : \E i \in 1 .. Len(L) : L[i] = Insert("control", keys[n])
  <2>1. \A n \in 1 .. Len(keys) : n \in 1 .. Len(b) /\ Len(a) + n \in 1 .. Len(L)
    BY <1>2, <1>4, <1>10
  <2> QED
    BY <1>4, <1>10, <2>1
<1> QED
  BY <1>10, <1>12, <1>13, <1>14, <1>15, <1>16 DEF Good, L, S
-----------------------------------------------------------------------------
(* The statements that each action leaves to its task.                     *)
Runs(t) == Types /\ Shapes /\ t \in All /\ job[t].todo # <<>> /\ UNCHANGED scope

LEMMA TaskFacts ==
  ASSUME Types, Shapes, NEW t \in All
  PROVE  Good(job[t].kind, job[t].todo) /\ JobTyped(job[t])
BY DEF Types, Shapes, JobTypes, JobTyped, Good

LEMMA StmtFacts ==
  ASSUME NEW t, Runs(t)
  PROVE  /\ Good(job[t].kind, job[t].todo) /\ JobTyped(job[t])
         /\ Len(job[t].todo) \in Nat /\ Len(job[t].todo) > 0
         /\ Stmt(t) = job[t].todo[1] /\ Stmt(t) \in Statement(job[t].kind)
         /\ \A k \in 2 .. Len(job[t].todo) :
              job[t].todo[k] \in Statement(job[t].kind) /\ May(job[t].kind, job[t].todo[1], job[t].todo[k])
<1>1. Good(job[t].kind, job[t].todo) /\ JobTyped(job[t]) /\ job[t].todo # <<>>
  BY TaskFacts DEF Runs
<1> QED
  BY <1>1, FirstOnly DEF Stmt

LEMMA AtFacts ==
  ASSUME NEW t \in All, NEW do, At(t, do), Types, Shapes, UNCHANGED scope
  PROVE  Runs(t) /\ Stmt(t).do = do
BY DEF At, Stmt, Runs

LEMMA TailItems ==
  ASSUME NEW kind, NEW todo, Good(kind, todo), todo # <<>>
  PROVE  /\ Good(kind, Tail(todo)) /\ Len(Tail(todo)) = Len(todo) - 1 /\ Len(Tail(todo)) \in Nat
         /\ \A i \in 1 .. Len(Tail(todo)) : i + 1 \in 2 .. Len(todo) /\ Tail(todo)[i] = todo[i + 1]
         /\ \A k \in 2 .. Len(todo) : k - 1 \in 1 .. Len(Tail(todo)) /\ Tail(todo)[k - 1] = todo[k]
<1>1. Good(kind, Tail(todo))
  BY GoodTail
<1>2. todo \in Seq(Statement(kind))
  BY DEF Good
<1>3. Len(Tail(todo)) = Len(todo) - 1 /\ Len(Tail(todo)) \in Nat /\ Len(todo) \in Nat
  BY <1>2
<1>4. \A i \in 1 .. Len(Tail(todo)) : i + 1 \in 2 .. Len(todo) /\ Tail(todo)[i] = todo[i + 1]
  BY <1>2, <1>3
<1>5. \A k \in 2 .. Len(todo) : k - 1 \in 1 .. Len(Tail(todo)) /\ Tail(todo)[k - 1] = todo[k]
  <2>1. ASSUME NEW k \in 2 .. Len(todo) PROVE k - 1 \in 1 .. Len(Tail(todo)) /\ Tail(todo)[k - 1] = todo[k]
    <3>1. k - 1 \in 1 .. Len(Tail(todo)) /\ (k - 1) + 1 = k
      BY <1>3
    <3> QED
      BY <1>4, <3>1
  <2> QED
    BY <2>1
<1> QED
  BY <1>1, <1>3, <1>4, <1>5

(* T is the statements s, and then the rest of todo.                       *)
Follows(T, s, todo) ==
  /\ T = s \o Tail(todo)
  /\ \A i \in 1 .. Len(T) :
       \/ i \in 1 .. Len(s) /\ T[i] = s[i]
       \/ \E k \in 2 .. Len(todo) : i = Len(s) + k - 1 /\ T[i] = todo[k]
  /\ \A i \in 1 .. Len(s) : i \in 1 .. Len(T) /\ T[i] = s[i]
  /\ \A k \in 2 .. Len(todo) : \E i \in 1 .. Len(T) : T[i] = todo[k]

LEMMA JoinedItems ==
  ASSUME NEW kind, NEW s, Good(kind, s), NEW todo, Good(kind, todo), todo # <<>>
  PROVE  Follows(s \o Tail(todo), s, todo)
<1> DEFINE T == s \o Tail(todo)
<1>1. s \in Seq(Statement(kind)) /\ todo \in Seq(Statement(kind))
  BY DEF Good
<1>2. \A i \in 1 .. Len(T) : \/ i \in 1 .. Len(s) /\ T[i] = s[i]
                            \/ \E k \in 2 .. Len(todo) : i = Len(s) + k - 1 /\ T[i] = todo[k]
  <2>1. ASSUME NEW i \in 1 .. Len(T)
        PROVE  \/ i \in 1 .. Len(s) /\ T[i] = s[i]
               \/ \E k \in 2 .. Len(todo) : i = Len(s) + k - 1 /\ T[i] = todo[k]
    <3> DEFINE S == Statement(kind)
    <3>1. s \in Seq(S) /\ todo \in Seq(S)
      BY <1>1
    <3> HIDE DEF S
    <3> QED
      BY <2>1, <3>1, JoinedFrom
  <2> QED
    BY <2>1
<1>3. /\ Len(T) = Len(s) + Len(todo) - 1 /\ Len(s) \in Nat /\ Len(todo) \in Nat /\ Len(todo) > 0
      /\ \A i \in 1 .. Len(s) : T[i] = s[i]
      /\ \A k \in 2 .. Len(todo) : T[Len(s) + k - 1] = todo[k]
  BY <1>1, Joined
<1>4. \A i \in 1 .. Len(s) : i \in 1 .. Len(T) /\ T[i] = s[i]
  BY <1>3
<1>5. \A k \in 2 .. Len(todo) : \E i \in 1 .. Len(T) : T[i] = todo[k]
  <2>1. \A k \in 2 .. Len(todo) : Len(s) + k - 1 \in 1 .. Len(T)
    BY <1>3
  <2> QED
    BY <1>3, <2>1
<1> HIDE DEF T
<1>6. T = s \o Tail(todo)
  BY DEF T
<1>7. Follows(T, s, todo)
  BY <1>2, <1>4, <1>5, <1>6 DEF Follows
<1> QED
  BY <1>7 DEF T

LEMMA FailGoes ==
  ASSUME NEW t, Runs(t), Fail(t)
  PROVE  \E T : /\ Good(job[t].kind, T) /\ Continue(t, T, FALSE)
                /\ \A i \in 1 .. Len(T) : T[i].do = "insert" /\ job[t].kind # "control"
                /\ Stmt(t).do \notin {"uninstall", "listlive", "reinsert"} => T = <<>>
                /\ job[t].kind \notin {"subnet", Boot} => T = <<>>
<1>1. CASE GoesOn(t)
  <2>1. job[t].kind \in {"subnet", Boot} /\ job[t].kind # "control"
    BY <1>1 DEF GoesOn, Boot
  <2>2. Good(job[t].kind, BaselineRules) /\ \A i \in 1 .. Len(BaselineRules) : BaselineRules[i].do = "insert"
    BY <2>1, GoodBaseline
  <2>3. Continue(t, BaselineRules, FALSE)
    BY <1>1 DEF Fail
  <2>4. Stmt(t).do \in {"uninstall", "listlive", "reinsert"}
    BY <1>1 DEF GoesOn
  <2> QED
    BY <2>1, <2>2, <2>3, <2>4
<1>2. CASE ~GoesOn(t)
  <2>1. Continue(t, <<>>, FALSE)
    BY <1>2 DEF Fail
  <2> DEFINE T == <<>>
  <2>2. Good(job[t].kind, T) /\ \A i \in 1 .. Len(T) : T[i].do = "insert" /\ job[t].kind # "control"
    BY GoodEmpty
  <2> QED
    BY <2>1, <2>2
<1> QED
  BY <1>1, <1>2

LEMMA InsertGoes ==
  ASSUME NEW t, Runs(t), InsertRow(t)
  PROVE  LET row == [id |-> fresh + 1, src |-> Stmt(t).src, key |-> Stmt(t).key]
             s   == <<OnRow("append", row)>>
             T   == s \o Tail(job[t].todo)
         IN  /\ Stmt(t).do = "insert" /\ row \in Stored /\ row.src \in SourceOf(job[t].kind)
             /\ rows' = rows \union {row} /\ fresh' = fresh + 1 /\ fresh' \in 0 .. MaxFresh
             /\ Good(job[t].kind, s) /\ Good(job[t].kind, T) /\ Continue(t, T, TRUE)
             /\ Len(s) = 1 /\ s[1] = OnRow("append", row)
<1> DEFINE row == [id |-> fresh + 1, src |-> Stmt(t).src, key |-> Stmt(t).key]
           s   == <<OnRow("append", row)>>
           kind == job[t].kind
           todo == job[t].todo
<1>1. Stmt(t).do = "insert" /\ fresh < MaxFresh /\ fresh' = fresh + 1 /\ rows' = rows \union {row}
      /\ Continue(t, s \o Tail(todo), TRUE)
  BY DEF InsertRow, At, Stmt, Expand
<1>2. Stmt(t) \in Statement(kind) /\ Stmt(t) = todo[1]
      /\ \A k \in 2 .. Len(todo) : todo[k] \in Statement(kind) /\ May(kind, todo[1], todo[k])
  BY StmtFacts
<1>3. Stmt(t).src \in SourceOf(kind) /\ Stmt(t).key \in Keys
  BY <1>1, <1>2, StatementOf
<1>4. fresh + 1 \in 1 .. MaxFresh /\ fresh' \in 0 .. MaxFresh
  BY <1>1, NetAssumption DEF Runs, Types
<1>5. Stmt(t).src \in Sources
  BY <1>3, SourcesOf
<1>6. row \in Stored /\ row.src \in SourceOf(kind)
  BY <1>3, <1>4, <1>5 DEF Stored
<1> HIDE DEF row
<1>7. OnRow("append", row) \in Statement(kind) /\ OnRow("append", row).do = "append"
  BY <1>6, StatementFacts, OnRowFields
<1>8. Good(kind, s) /\ Len(s) = 1 /\ s[1] = OnRow("append", row)
  BY <1>7, GoodSingle
<1>9. \A k \in 2 .. Len(todo) : May(kind, OnRow("append", row), todo[k])
  BY <1>1, <1>2, <1>7 DEF May
<1>10. todo # <<>> /\ todo[1].do # "uninstall" /\ Good(kind, todo)
  BY <1>1, <1>2, StmtFacts DEF Runs
<1> HIDE DEF s
<1>11. Good(kind, s \o Tail(todo))
  BY <1>8, <1>9, <1>10, GoodJoined
<1> QED
  BY <1>1, <1>4, <1>6, <1>8, <1>11 DEF row, s
-----------------------------------------------------------------------------
(* A step of a task: nothing of the other tasks changes, and the task ends *)
(* or keeps its operation.                                                 *)
Moves(t, c) ==
  /\ JobTypes' /\ Shapes' /\ \A u \in All : u # t => job'[u] = job[u]
  /\ \/ job'[t] = NoJob
     \/ /\ job'[t].kind = job[t].kind /\ job'[t].desired = job[t].desired /\ job'[t].prune = job[t].prune
        /\ job'[t].clean => job[t].clean /\ c

(* Its first statement is replaced by the statements s.                    *)
Replaces(t, s, c) ==
  /\ Moves(t, c)
  /\ \A i \in 1 .. Len(job'[t].todo) :
       \/ \E n \in 1 .. Len(s) : job'[t].todo[i] = s[n]
       \/ \E k \in 2 .. Len(job[t].todo) : job'[t].todo[i] = job[t].todo[k]
  /\ job'[t] # NoJob => /\ \A n \in 1 .. Len(s) : Has(job'[t], s[n])
                        /\ \A k \in 2 .. Len(job[t].todo) : Has(job'[t], job[t].todo[k])
  /\ 1 \in 1 .. Len(job'[t].todo) /\ job'[t].todo[1].do = "delete" =>
       \/ 1 \in 1 .. Len(s) /\ job'[t].todo[1] = s[1]
       \/ job[t].todo[1] = OnRow("uninstall", job'[t].todo[1].row)

(* Or it fails: at most the baseline rules are left to do.                 *)
Fails(t) ==
  /\ Moves(t, FALSE)
  /\ \A i \in 1 .. Len(job'[t].todo) : job'[t].todo[i].do = "insert" /\ job[t].kind # "control"

LEMMA ShapesKept ==
  ASSUME Shapes, NEW t \in All, \A u \in All : u # t => job'[u] = job[u],
         InOrder(job'[t].kind, job'[t].todo), Paired(job'[t].todo)
  PROVE  Shapes'
<1>1. ASSUME NEW u \in All PROVE InOrder(job'[u].kind, job'[u].todo) /\ Paired(job'[u].todo)
  <2>1. CASE u = t
    BY <2>1
  <2>2. CASE u # t
    BY <2>2 DEF Shapes
  <2> QED
    BY <2>1, <2>2
<1>2. Shapes' <=> \A u \in All : InOrder(job'[u].kind, job'[u].todo) /\ Paired(job'[u].todo)
  BY DEF Shapes, InOrder, Paired, May, Heads, All
<1> QED
  BY <1>1, <1>2

LEMMA Moving ==
  ASSUME NEW t, Runs(t), NEW T, Good(job[t].kind, T), NEW c \in BOOLEAN, Continue(t, T, c)
  PROVE  Moves(t, c) /\ (job'[t] = NoJob \/ job'[t].todo = T)
<1>1. t \in All /\ JobTypes /\ Shapes /\ job[t].todo # <<>> /\ UNCHANGED scope
  BY DEF Runs, Types
<1>2. T \in Seq(Statement(job[t].kind)) /\ InOrder(job[t].kind, T) /\ Paired(T)
  BY DEF Good
<1>3. /\ JobTypes' /\ \A u \in All : u # t => job'[u] = job[u]
      /\ Goes(job[t], job'[t], T) /\ (job'[t].clean /\ job'[t] # NoJob => c)
  BY <1>1, <1>2, Moved
<1>4. InOrder(job'[t].kind, job'[t].todo) /\ Paired(job'[t].todo)
  <2>1. CASE job'[t] = NoJob
    BY <2>1, NoJobFacts
  <2>2. CASE job'[t] # NoJob
    <3>1. job'[t].todo = T /\ job'[t].kind = job[t].kind
      BY <1>3, <2>2 DEF Goes
    <3> QED
      BY <1>2, <3>1
  <2> QED
    BY <2>1, <2>2
<1>5. Shapes'
  BY <1>1, <1>3, <1>4, ShapesKept
<1> QED
  BY <1>3, <1>5 DEF Moves, Goes

LEMMA Replaced ==
  ASSUME NEW t, Runs(t), NEW s, Good(job[t].kind, s), s = <<>> \/ job[t].todo[1].do # "uninstall",
         \A i \in 1 .. Len(s), k \in 2 .. Len(job[t].todo) : May(job[t].kind, s[i], job[t].todo[k]),
         NEW c \in BOOLEAN, Continue(t, s \o Tail(job[t].todo), c)
  PROVE  Replaces(t, s, c)
<1> DEFINE kind == job[t].kind
           todo == job[t].todo
           T == s \o Tail(todo)
<1>1. Good(kind, todo) /\ todo # <<>> /\ s \in Seq(Statement(kind)) /\ todo \in Seq(Statement(kind))
  BY StmtFacts DEF Runs, Good
<1>2. Good(kind, T)
  BY <1>1, GoodJoined
<1>3. /\ \A i \in 1 .. Len(T) : \/ i \in 1 .. Len(s) /\ T[i] = s[i]
                               \/ \E k \in 2 .. Len(todo) : i = Len(s) + k - 1 /\ T[i] = todo[k]
      /\ \A i \in 1 .. Len(s) : i \in 1 .. Len(T) /\ T[i] = s[i]
      /\ \A k \in 2 .. Len(todo) : \E i \in 1 .. Len(T) : T[i] = todo[k]
  <2>1. Follows(T, s, todo)
    BY <1>1, JoinedItems
  <2> HIDE DEF T
  <2> QED
    BY <2>1 DEF Follows
<1>4. Len(s) \in Nat /\ Len(todo) \in Nat
  BY <1>1
<1>5. Continue(t, T, c)
  OBVIOUS
<1> HIDE DEF T
<1>6. Moves(t, c) /\ (job'[t] = NoJob \/ job'[t].todo = T)
  BY <1>2, <1>5, Moving
<1>7. CASE job'[t] = NoJob
  BY <1>6, <1>7, NoJobFacts DEF Replaces
<1>8. CASE job'[t] # NoJob
  <2>1. job'[t].todo = T
    BY <1>6, <1>8
  <2>2. \A i \in 1 .. Len(T) : (\E n \in 1 .. Len(s) : T[i] = s[n]) \/ \E k \in 2 .. Len(todo) : T[i] = todo[k]
    BY <1>3
  <2>3. /\ \A n \in 1 .. Len(s) : Has(job'[t], s[n])
        /\ \A k \in 2 .. Len(todo) : Has(job'[t], todo[k])
    BY <1>3, <2>1 DEF Has
  <2>4. ASSUME 1 \in 1 .. Len(T), T[1].do = "delete"
        PROVE  (1 \in 1 .. Len(s) /\ T[1] = s[1]) \/ todo[1] = OnRow("uninstall", T[1].row)
    <3>1. CASE 1 \in 1 .. Len(s) /\ T[1] = s[1]
      BY <3>1
    <3>2. ASSUME NEW k \in 2 .. Len(todo), 1 = Len(s) + k - 1, T[1] = todo[k]
          PROVE  todo[1] = OnRow("uninstall", T[1].row)
      <4>1. k = 2
        BY <1>4, <3>2
      <4>2. todo[2].do = "delete" /\ 2 \in 2 .. Len(todo) /\ 2 - 1 = 1
        BY <2>4, <3>2, <4>1
      <4>3. todo[2 - 1] = OnRow("uninstall", todo[2].row)
        BY <1>1, <4>2 DEF Good, Paired
      <4> QED
        BY <3>2, <4>1, <4>2, <4>3
    <3> QED
      BY <1>3, <2>4, <3>1, <3>2
  <2> QED
    BY <1>6, <2>1, <2>2, <2>3, <2>4 DEF Replaces
<1> QED
  BY <1>7, <1>8

LEMMA Advanced ==
  ASSUME NEW t, Runs(t), Advance(t)
  PROVE  Replaces(t, <<>>, TRUE)
<1> DEFINE s == <<>>
<1>1. Good(job[t].kind, job[t].todo) /\ job[t].todo # <<>>
  BY StmtFacts DEF Runs
<1>2. Tail(job[t].todo) = s \o Tail(job[t].todo)
  BY <1>1, GoodTail
<1>3. Continue(t, s \o Tail(job[t].todo), TRUE)
  BY <1>2 DEF Advance
<1>4. Good(job[t].kind, s) /\ Len(s) = 0 /\ s = <<>>
  BY GoodEmpty
<1> HIDE DEF s
<1>5. \A i \in 1 .. Len(s), k \in 2 .. Len(job[t].todo) : May(job[t].kind, s[i], job[t].todo[k])
  BY <1>4
<1>6. Replaces(t, s, TRUE)
  BY <1>3, <1>4, <1>5, Replaced
<1> QED
  BY <1>6 DEF s

LEMMA Failed ==
  ASSUME NEW t, Runs(t), Fail(t)
  PROVE  /\ Fails(t)
         /\ Stmt(t).do \notin {"uninstall", "listlive", "reinsert"} => job'[t] = NoJob
<1>1. PICK T : /\ Good(job[t].kind, T) /\ Continue(t, T, FALSE)
               /\ \A i \in 1 .. Len(T) : T[i].do = "insert" /\ job[t].kind # "control"
               /\ Stmt(t).do \notin {"uninstall", "listlive", "reinsert"} => T = <<>>
  BY FailGoes
<1>2. Moves(t, FALSE) /\ (job'[t] = NoJob \/ job'[t].todo = T)
  BY <1>1, Moving
<1>3. ASSUME T = <<>> PROVE job'[t] = NoJob
  <2>1. DOMAIN job = All /\ t \in All
    BY DEF Runs, Types, JobTypes
  <2> QED
    BY <1>1, <1>3, <2>1 DEF Continue
<1>4. CASE job'[t] = NoJob
  <2>1. \A i \in 1 .. Len(job'[t].todo) : FALSE
    BY <1>4, NoJobFacts
  <2> QED
    BY <1>2, <1>4, <2>1 DEF Fails
<1>5. CASE job'[t] # NoJob
  <2>1. job'[t].todo = T
    BY <1>2, <1>5
  <2> QED
    BY <1>1, <1>2, <1>3, <2>1 DEF Fails
<1> QED
  BY <1>4, <1>5
-----------------------------------------------------------------------------
(* What holds whatever the tasks do beside each other.                     *)
Base == Types /\ OneRow /\ Shapes

LEMMA NamedFacts ==
  /\ \A s : s.do \in {"insert", "get", "bysource", "listrows", "match", "report"} => Named(s) = {}
  /\ \A s : s.do \in {"append", "rollback", "uninstall", "delete", "reinsert", "prune"} => Named(s) = {s.row}
  /\ \A s : s.do = "listlive" => Named(s) = s.rows
  /\ \A do \in {"append", "rollback", "uninstall", "delete", "reinsert", "prune"} : \A row :
       Named(OnRow(do, row)) = {row}
BY OnRowFields DEF Named

LEMMA MentionedFacts ==
  /\ rows \subseteq Mentioned /\ Live(kernel) \subseteq Mentioned
  /\ \A t \in All : \A i \in 1 .. Len(job[t].todo) : Named(job[t].todo[i]) \subseteq Mentioned
BY DEF Mentioned, NamedBy

LEMMA MentionedStep ==
  ASSUME NEW t \in All, \A u \in All : u # t => job'[u] = job[u], NEW X,
         \A i \in 1 .. Len(job'[t].todo) : Named(job'[t].todo[i]) \subseteq X,
         rows' \subseteq X, Live(kernel') \subseteq X, Mentioned \subseteq X
  PROVE  Mentioned' \subseteq X
<1>1. ASSUME NEW u \in All, NEW i \in 1 .. Len(job'[u].todo) PROVE Named(job'[u].todo[i]) \subseteq X
  <2>1. CASE u = t
    BY <1>1, <2>1
  <2>2. CASE u # t
    <3>1. job'[u] = job[u]
      BY <2>2
    <3> QED
      BY <1>1, <3>1, MentionedFacts
  <2> QED
    BY <2>1, <2>2
<1>2. Mentioned' = rows' \union Live(kernel') \union UNION {NamedBy(job'[u]) : u \in All}
  BY DEF Mentioned, Live, RowOf, NamedBy, Named, All
<1>3. \A u \in All : NamedBy(job'[u]) \subseteq X
  BY <1>1 DEF NamedBy
<1> QED
  BY <1>2, <1>3

LEMMA ReplacesNamed ==
  ASSUME NEW t \in All, NEW s, NEW c, Replaces(t, s, c), NEW X, Mentioned \subseteq X,
         \A n \in 1 .. Len(s) : Named(s[n]) \subseteq X, Len(job[t].todo) \in Nat
  PROVE  \A i \in 1 .. Len(job'[t].todo) : Named(job'[t].todo[i]) \subseteq X
<1>1. \A k \in 2 .. Len(job[t].todo) : k \in 1 .. Len(job[t].todo)
  OBVIOUS
<1>2. \A k \in 2 .. Len(job[t].todo) : Named(job[t].todo[k]) \subseteq X
  BY <1>1, MentionedFacts
<1> QED
  BY <1>2 DEF Replaces

LEMMA FailsNamed ==
  ASSUME NEW t \in All, Fails(t)
  PROVE  \A i \in 1 .. Len(job'[t].todo) : Named(job'[t].todo[i]) = {}
BY NamedFacts DEF Fails

(* A step that mentions no new row.                                        *)
LEMMA BaseKept ==
  ASSUME Base, NEW t, Runs(t), UNCHANGED <<wg, fresh, scope>>, Moves(t, TRUE) \/ Moves(t, FALSE),
         \A i \in 1 .. Len(job'[t].todo) : Named(job'[t].todo[i]) \subseteq Mentioned,
         rows' \subseteq rows, kernel' \subseteq Entry, IsFiniteSet(kernel'), Live(kernel') \subseteq Mentioned
  PROVE  Base'
<1>1. t \in All
  BY DEF Runs
<1>2. JobTypes' /\ Shapes' /\ \A u \in All : u # t => job'[u] = job[u]
  BY DEF Moves
<1>3. rows' \subseteq Mentioned
  BY MentionedFacts
<1>4. Mentioned' \subseteq Mentioned
  BY <1>1, <1>2, <1>3, MentionedStep
<1>5. OneRow'
  BY <1>4 DEF OneRow, Base
<1>6. IsFiniteSet(rows')
  BY FS_Subset DEF Base, Types
<1>7. Types'
  BY <1>2, <1>6 DEF Base, Types
<1> QED
  BY <1>2, <1>5, <1>7 DEF Base

LEMMA BaseReplaced ==
  ASSUME Base, NEW t, Runs(t), UNCHANGED <<wg, fresh, scope>>, NEW s, NEW c \in BOOLEAN, Replaces(t, s, c),
         \A n \in 1 .. Len(s) : Named(s[n]) \subseteq Mentioned,
         rows' \subseteq rows, kernel' \subseteq Entry, IsFiniteSet(kernel'), Live(kernel') \subseteq Mentioned
  PROVE  Base'
<1>1. t \in All /\ Len(job[t].todo) \in Nat
  BY StmtFacts DEF Runs
<1>2. \A i \in 1 .. Len(job'[t].todo) : Named(job'[t].todo[i]) \subseteq Mentioned
  BY <1>1, ReplacesNamed
<1>3. Moves(t, TRUE) \/ Moves(t, FALSE)
  BY DEF Replaces
<1> QED
  BY <1>2, <1>3, BaseKept

LEMMA BaseFailed ==
  ASSUME Base, NEW t, Runs(t), UNCHANGED <<kernel, wg, fresh, scope>>, Fails(t), rows' \subseteq rows
  PROVE  Base'
<1>1. t \in All
  BY DEF Runs
<1>2. \A i \in 1 .. Len(job'[t].todo) : Named(job'[t].todo[i]) \subseteq Mentioned
  BY <1>1, FailsNamed
<1>3. Moves(t, FALSE)
  BY DEF Fails
<1>4. kernel' \subseteq Entry /\ IsFiniteSet(kernel') /\ Live(kernel') \subseteq Mentioned
  BY MentionedFacts DEF Base, Types
<1> QED
  BY <1>2, <1>3, <1>4, BaseKept
-----------------------------------------------------------------------------
(* What each action does.                                                  *)
Ready(t) == Base /\ t \in All /\ UNCHANGED scope

LEMMA ReadyFacts ==
  ASSUME NEW t, Ready(t), NEW do, At(t, do)
  PROVE  /\ Runs(t) /\ Stmt(t).do = do /\ Stmt(t) = job[t].todo[1] /\ Stmt(t) \in Statement(job[t].kind)
         /\ 1 \in 1 .. Len(job[t].todo) /\ Named(Stmt(t)) \subseteq Mentioned
         /\ \A k \in 2 .. Len(job[t].todo) : May(job[t].kind, Stmt(t), job[t].todo[k])
         /\ kernel \subseteq Entry /\ IsFiniteSet(kernel) /\ rows \subseteq Stored /\ IsFiniteSet(rows)
<1>1. Runs(t) /\ Stmt(t).do = do /\ t \in All
  BY AtFacts DEF Ready, Base
<1>2. /\ Stmt(t) = job[t].todo[1] /\ Stmt(t) \in Statement(job[t].kind)
      /\ \A k \in 2 .. Len(job[t].todo) : May(job[t].kind, Stmt(t), job[t].todo[k])
      /\ Len(job[t].todo) \in Nat /\ Len(job[t].todo) > 0
  BY <1>1, StmtFacts
<1>3. 1 \in 1 .. Len(job[t].todo)
  BY <1>2
<1>4. Named(Stmt(t)) \subseteq Mentioned
  BY <1>1, <1>2, <1>3, MentionedFacts
<1> QED
  BY <1>1, <1>2, <1>3, <1>4 DEF Ready, Base, Types

LEMMA InsertDoes ==
  ASSUME NEW t, Ready(t), InsertRow(t)
  PROVE  LET row == [id |-> fresh + 1, src |-> Stmt(t).src, key |-> Stmt(t).key]
         IN  /\ Runs(t) /\ Stmt(t).do = "insert" /\ row \in Stored /\ row.src \in SourceOf(job[t].kind)
             /\ rows' = rows \union {row} /\ fresh' = fresh + 1 /\ fresh' \in 0 .. MaxFresh
             /\ UNCHANGED <<kernel, wg>>
             /\ Replaces(t, <<OnRow("append", row)>>, TRUE)
<1> DEFINE row == [id |-> fresh + 1, src |-> Stmt(t).src, key |-> Stmt(t).key]
           s   == <<OnRow("append", row)>>
<1>1. Runs(t) /\ Stmt(t) = job[t].todo[1]
  BY ReadyFacts DEF InsertRow
<1>2. /\ Stmt(t).do = "insert" /\ row \in Stored /\ row.src \in SourceOf(job[t].kind)
      /\ rows' = rows \union {row} /\ fresh' = fresh + 1 /\ fresh' \in 0 .. MaxFresh
      /\ Good(job[t].kind, s) /\ Continue(t, s \o Tail(job[t].todo), TRUE)
      /\ Len(s) = 1 /\ s[1] = OnRow("append", row)
  BY <1>1, InsertGoes
<1>3. \A k \in 2 .. Len(job[t].todo) : May(job[t].kind, job[t].todo[1], job[t].todo[k])
  BY <1>1, StmtFacts
<1>4. \A i \in 1 .. Len(s), k \in 2 .. Len(job[t].todo) : May(job[t].kind, s[i], job[t].todo[k])
  <2>1. \A k \in 2 .. Len(job[t].todo) : May(job[t].kind, OnRow("append", row), job[t].todo[k])
    <3>1. job[t].todo[1].do = "insert" /\ OnRow("append", row).do = "append"
      BY <1>1, <1>2, OnRowFields
    <3>2. ASSUME NEW k \in 2 .. Len(job[t].todo)
          PROVE  May(job[t].kind, OnRow("append", row), job[t].todo[k])
      <4>1. May(job[t].kind, job[t].todo[1], job[t].todo[k])
        BY <1>3
      <4>2. /\ job[t].todo[k].do \notin Heads /\ job[t].todo[k].do # "reinsert"
            /\ ~(job[t].todo[k].do = "report" /\ job[t].kind \in {"reconcile", Boot})
        BY <3>1, <4>1 DEF May
      <4> QED
        BY <3>1, <4>2 DEF May
    <3> QED
      BY <3>2
  <2> HIDE DEF s, row
  <2>2. \A i \in 1 .. Len(s) : s[i] = OnRow("append", row)
    BY <1>2
  <2> QED
    BY <2>1, <2>2
<1>5. job[t].todo[1].do # "uninstall" /\ TRUE \in BOOLEAN
  BY <1>1, <1>2
<1> HIDE DEF s
<1>6. Replaces(t, s, TRUE)
  BY <1>1, <1>2, <1>4, <1>5, Replaced
<1> QED
  BY <1>1, <1>2, <1>6 DEF InsertRow, s

(* Statements that leave only the rest of the list.                        *)
LEMMA AdvanceDoes ==
  ASSUME NEW t, Ready(t), NEW do, At(t, do), Advance(t)
  PROVE  Replaces(t, <<>>, TRUE)
BY ReadyFacts, Advanced

LEMMA FailDoes ==
  ASSUME NEW t, Ready(t), NEW do, At(t, do), Fail(t)
  PROVE  /\ Fails(t)
         /\ do \notin {"uninstall", "listlive", "reinsert"} => job'[t] = NoJob
BY ReadyFacts, Failed

(* A rule that cannot be installed: its row is taken back, and no more.    *)
LEMMA InstallFailsDoes ==
  ASSUME NEW t, Ready(t), InstallFails(t)
  PROVE  /\ Moves(t, FALSE) /\ Stmt(t).do = "append"
         /\ \A i \in 1 .. Len(job'[t].todo) : job'[t].todo[i] = OnRow("rollback", Stmt(t).row)
<1> DEFINE r == OnRow("rollback", Stmt(t).row)
           s == <<r>>
<1>1. Runs(t) /\ Stmt(t).do = "append" /\ Stmt(t) \in Statement(job[t].kind)
  BY ReadyFacts DEF InstallFails
<1>2. Continue(t, s, FALSE)
  BY DEF InstallFails
<1>3. Stmt(t).row \in Stored /\ Stmt(t).row.src \in SourceOf(job[t].kind)
  BY <1>1, StatementOf
<1>4. r \in Statement(job[t].kind) /\ r.do = "rollback"
  BY <1>3, StatementFacts, OnRowFields
<1> HIDE DEF r
<1>5. Good(job[t].kind, s) /\ Len(s) = 1 /\ s[1] = r
  BY <1>4, GoodSingle
<1> HIDE DEF s
<1>6. Moves(t, FALSE) /\ (job'[t] = NoJob \/ job'[t].todo = s)
  BY <1>1, <1>2, <1>5, Moving
<1>7. \A i \in 1 .. Len(job'[t].todo) : job'[t].todo[i] = r
  <2>1. CASE job'[t] = NoJob
    <3>1. \A i \in 1 .. Len(job'[t].todo) : FALSE
      BY <2>1, NoJobFacts
    <3> QED
      BY <3>1
  <2>2. CASE job'[t].todo = s
    BY <1>5, <2>2
  <2> QED
    BY <1>6, <2>1, <2>2
<1> QED
  BY <1>1, <1>6, <1>7 DEF r

(* Statements of the task that come first in its list do no more than the  *)
(* ones that they replace.                                                 *)
LEMMA ExpandDoes ==
  ASSUME NEW t, Ready(t), NEW do, At(t, do), do # "uninstall", NEW s, Good(job[t].kind, s), Expand(t, s),
         \A i \in 1 .. Len(s), k \in 2 .. Len(job[t].todo) : May(job[t].kind, s[i], job[t].todo[k])
  PROVE  Replaces(t, s, TRUE)
<1>1. Runs(t) /\ job[t].todo[1].do # "uninstall" /\ TRUE \in BOOLEAN
  BY ReadyFacts
<1>2. Continue(t, s \o Tail(job[t].todo), TRUE)
  BY DEF Expand
<1> QED
  BY <1>1, <1>2, Replaced

(* The removals of the rows of list are put before the rest.               *)
LEMMA UninstallsDoes ==
  ASSUME NEW t, Ready(t), NEW do \in {"get", "bysource"}, At(t, do),
         NEW list \in Seq({r \in rows : r.src \in SourceOf(job[t].kind)}), Expand(t, Uninstalls(list))
  PROVE  Replaces(t, Uninstalls(list), TRUE)
<1> DEFINE S == {r \in rows : r.src \in SourceOf(job[t].kind)}
           s == Uninstalls(list)
<1>1. /\ Stmt(t).do = do /\ rows \subseteq Stored
      /\ \A k \in 2 .. Len(job[t].todo) : May(job[t].kind, Stmt(t), job[t].todo[k])
  BY ReadyFacts
<1>2. S \in SUBSET {r \in Stored : r.src \in SourceOf(job[t].kind)} /\ list \in Seq(S)
  BY <1>1
<1>3. Good(job[t].kind, s)
  BY <1>2, GoodUninstalls
<1>4. \A i \in 1 .. Len(s) : s[i].do = "uninstall" \/ s[i].do = "delete"
  <2> HIDE DEF S
  <2>1. \A i \in 1 .. Len(s) : \E n \in 1 .. Len(list) :
          s[i] = OnRow("uninstall", list[n]) \/ s[i] = OnRow("delete", list[n])
    BY <1>2, UninstallsFacts
  <2> QED
    BY <2>1, OnRowFields, SMTT(20)
<1> HIDE DEF s
<1>5. ASSUME NEW i \in 1 .. Len(s), NEW k \in 2 .. Len(job[t].todo) PROVE May(job[t].kind, s[i], job[t].todo[k])
  <2>1. May(job[t].kind, Stmt(t), job[t].todo[k])
    BY <1>1
  <2>2. s[i].do = "uninstall" \/ s[i].do = "delete"
    BY <1>4
  <2>3. job[t].todo[k].do # "reinsert" /\ job[t].todo[k].do \notin Heads
    BY <1>1, <2>1 DEF May
  <2>4. ~(job[t].todo[k].do = "report" /\ job[t].kind \in {"reconcile", Boot})
    BY <1>1, <2>1 DEF May
  <2> QED
    BY <2>2, <2>3, <2>4 DEF May
<1>6. Expand(t, s)
  BY DEF s
<1>7. Replaces(t, s, TRUE)
  BY <1>1, <1>3, <1>5, <1>6, ExpandDoes
<1> QED
  BY <1>7 DEF s
LEMMA GetDoes ==
  ASSUME NEW t, Ready(t), GetRow(t)
  PROVE  /\ Stmt(t).do = "get" /\ UNCHANGED <<rows, kernel, wg, fresh>>
         /\ \/ Owned(Stmt(t).id, Stmt(t).src) = {} /\ job'[t] = NoJob /\ Fails(t)
            \/ \E r \in Owned(Stmt(t).id, Stmt(t).src) :
                 r.src \in SourceOf(job[t].kind) /\ Replaces(t, Uninstalls(<<r>>), TRUE)
<1>1. /\ At(t, "get") /\ Stmt(t).do = "get" /\ Stmt(t) \in Statement(job[t].kind)
      /\ UNCHANGED <<rows, kernel, wg, fresh>>
  BY ReadyFacts DEF GetRow
<1>2. Stmt(t).src \in SourceOf(job[t].kind)
  BY <1>1, StatementOf
<1>3. CASE Owned(Stmt(t).id, Stmt(t).src) = {} /\ Fail(t)
  BY <1>1, <1>3, FailDoes
<1>4. ASSUME NEW r \in Owned(Stmt(t).id, Stmt(t).src), Expand(t, Uninstalls(<<r>>))
      PROVE  r.src \in SourceOf(job[t].kind) /\ Replaces(t, Uninstalls(<<r>>), TRUE)
  <2> DEFINE S == {q \in rows : q.src \in SourceOf(job[t].kind)}
  <2>1. r \in S
    BY <1>2 DEF Owned
  <2>2. <<r>> \in Seq(S)
    <3> HIDE DEF S
    <3> QED
      BY <2>1
  <2>3. "get" \in {"get", "bysource"}
    OBVIOUS
  <2> DEFINE list == <<r>>
  <2>4. list \in Seq({q \in rows : q.src \in SourceOf(job[t].kind)}) /\ Expand(t, Uninstalls(list))
    BY <1>4, <2>2
  <2> HIDE DEF list
  <2>5. Replaces(t, Uninstalls(list), TRUE)
    BY <1>1, <2>3, <2>4, UninstallsDoes
  <2> QED
    BY <2>1, <2>5 DEF list
<1> QED
  BY <1>1, <1>3, <1>4 DEF GetRow

LEMMA ListSourceDoes ==
  ASSUME NEW t, Ready(t), ListSource(t)
  PROVE  /\ Stmt(t).do = "bysource" /\ UNCHANGED <<rows, kernel, wg, fresh>>
         /\ \E list \in Seq({r \in rows : r.src \in SourceOf(job[t].kind)}) : Replaces(t, Uninstalls(list), TRUE)
<1> DEFINE S == {r \in rows : r.src = Stmt(t).src}
<1>1. /\ At(t, "bysource") /\ Stmt(t).do = "bysource" /\ Stmt(t) \in Statement(job[t].kind) /\ IsFiniteSet(rows)
      /\ UNCHANGED <<rows, kernel, wg, fresh>>
  BY ReadyFacts DEF ListSource
<1>2. Stmt(t).src \in SourceOf(job[t].kind)
  BY <1>1, StatementOf
<1>3. PICK list \in Listed(S) : Expand(t, Uninstalls(list))
  BY DEF ListSource
<1>4. IsFiniteSet(S) /\ S \subseteq {r \in rows : r.src \in SourceOf(job[t].kind)}
  BY <1>1, <1>2, FS_Subset
<1>5. list \in Seq({r \in rows : r.src \in SourceOf(job[t].kind)})
  <2> HIDE DEF S
  <2>1. list \in Seq(S)
    BY <1>4, ListedFacts
  <2> QED
    BY <1>4, <2>1
<1>6. "bysource" \in {"get", "bysource"}
  OBVIOUS
<1>7. Replaces(t, Uninstalls(list), TRUE)
  BY <1>1, <1>3, <1>5, <1>6, UninstallsDoes
<1> QED
  BY <1>1, <1>5, <1>7

LEMMA ReadRowsDoes ==
  ASSUME NEW t, Ready(t), ReadRows(t)
  PROVE  /\ Stmt(t).do = "listrows" /\ UNCHANGED <<rows, kernel, wg, fresh>>
         /\ Replaces(t, <<ListLive(rows)>>, TRUE)
<1> DEFINE l == ListLive(rows)
           s == <<l>>
<1>1. /\ At(t, "listrows") /\ Stmt(t).do = "listrows" /\ Stmt(t) \in Statement(job[t].kind)
      /\ rows \subseteq Stored /\ IsFiniteSet(rows)
      /\ \A k \in 2 .. Len(job[t].todo) : May(job[t].kind, Stmt(t), job[t].todo[k])
      /\ UNCHANGED <<rows, kernel, wg, fresh>> /\ Expand(t, s)
  BY ReadyFacts DEF ReadRows
<1>2. l \in Statement(job[t].kind) /\ l.do = "listlive"
  <2>1. job[t].kind \in {"reconcile", Boot}
    BY <1>1, StatementOf
  <2>2. l \in Statement(job[t].kind)
    BY <1>1, <2>1, StatementFacts
  <2> QED
    BY <2>2 DEF ListLive
<1> HIDE DEF l
<1>3. Good(job[t].kind, s) /\ Len(s) = 1 /\ s[1] = l
  BY <1>2, GoodSingle
<1> HIDE DEF s
<1>4. \A i \in 1 .. Len(s), k \in 2 .. Len(job[t].todo) : May(job[t].kind, s[i], job[t].todo[k])
  <2>1. \A i \in 1 .. Len(s) : s[i].do = "listlive"
    BY <1>2, <1>3
  <2>2. \A k \in 2 .. Len(job[t].todo) : job[t].todo[k].do = "insert" /\ job[t].kind # "control"
    BY <1>1 DEF May
  <2> QED
    BY <2>1, <2>2 DEF May, Heads
<1>5. Replaces(t, s, TRUE)
  BY <1>1, <1>3, <1>4, ExpandDoes
<1> QED
  BY <1>1, <1>5 DEF l, s

LEMMA ReadLiveDoes ==
  ASSUME NEW t, Ready(t), ReadLive(t)
  PROVE  /\ Stmt(t).do = "listlive" /\ UNCHANGED <<rows, kernel, wg, fresh>>
         /\ \E s : /\ Replaces(t, s, TRUE)
                   /\ \A i \in 1 .. Len(s) :
                        \/ \E r \in Stmt(t).rows : s[i] = OnRow("reinsert", r) /\ ~Installed(kernel, r)
                        \/ \E e \in kernel : s[i] = OnRow("prune", RowOf(e)) /\ \A r \in Stmt(t).rows : r.id # e.id
                        \/ s[i] = Report
                   /\ \A r \in Stmt(t).rows : Installed(kernel, r) \/ \E i \in 1 .. Len(s) : s[i] = OnRow("reinsert", r)
                   /\ \A e \in kernel : \/ \E r \in Stmt(t).rows : r.id = e.id
                                        \/ \E i \in 1 .. Len(s) : s[i] = OnRow("prune", RowOf(e))
<1> DEFINE M == {r \in Stmt(t).rows : ~Installed(kernel, r)}
           E == {e \in kernel : \A r \in Stmt(t).rows : r.id # e.id}
<1>1. /\ At(t, "listlive") /\ Stmt(t).do = "listlive" /\ Stmt(t) \in Statement(job[t].kind)
      /\ kernel \subseteq Entry /\ IsFiniteSet(kernel)
      /\ \A k \in 2 .. Len(job[t].todo) : May(job[t].kind, Stmt(t), job[t].todo[k])
      /\ UNCHANGED <<rows, kernel, wg, fresh>>
  BY ReadyFacts DEF ReadLive
<1>2. job[t].kind \in {"reconcile", Boot} /\ Stmt(t).rows \subseteq Stored /\ IsFiniteSet(Stmt(t).rows)
  BY <1>1, StatementOf
<1>3. PICK missing \in Listed(M), old \in Orders(E) : Expand(t, Repairs(missing, [i \in DOMAIN old |-> RowOf(old[i])]))
  BY DEF ReadLive
<1>4. IsFiniteSet(M) /\ M \subseteq Stored /\ IsFiniteSet(E) /\ E \subseteq kernel
  BY <1>1, <1>2, FS_Subset
<1> DEFINE stale == [i \in DOMAIN old |-> RowOf(old[i])]
           s == Repairs(missing, stale)
<1>5. /\ missing \in Seq(Stored) /\ \A i \in 1 .. Len(missing) : missing[i] \in M
      /\ \A x \in M : \E i \in 1 .. Len(missing) : missing[i] = x
      /\ \A i, k \in 1 .. Len(missing) : missing[i] = missing[k] => i = k
  <2> HIDE DEF M
  <2>1. /\ missing \in Seq(M) /\ \A i \in 1 .. Len(missing) : missing[i] \in M
        /\ \A x \in M : \E i \in 1 .. Len(missing) : missing[i] = x
        /\ \A i, k \in 1 .. Len(missing) : missing[i] = missing[k] => i = k
    BY <1>4, ListedFacts
  <2> QED
    BY <1>4, <2>1
<1>6. /\ stale \in Seq(Row) /\ \A i \in 1 .. Len(stale) : \E e \in E : stale[i] = RowOf(e)
      /\ \A e \in E : \E i \in 1 .. Len(stale) : stale[i] = RowOf(e)
  <2> HIDE DEF E
  <2>1. /\ Len(old) \in Nat /\ DOMAIN old = 1 .. Len(old)
        /\ \A i \in 1 .. Len(old) : old[i] \in E
        /\ \A x \in E : \E i \in 1 .. Len(old) : old[i] = x
    BY <1>4, OrdersFacts
  <2>2. \A e \in E : RowOf(e) \in Row
    BY <1>1, <1>4 DEF Entry, Row, RowOf
  <2>3. \A i \in 1 .. Len(old) : RowOf(old[i]) \in Row
    BY <2>1, <2>2
  <2>4. stale = [i \in 1 .. Len(old) |-> RowOf(old[i])]
    BY <2>1
  <2>5. stale \in Seq(Row) /\ Len(stale) = Len(old) /\ \A i \in 1 .. Len(stale) : stale[i] = RowOf(old[i])
    BY <2>1, <2>3, <2>4
  <2> QED
    BY <2>1, <2>5
<1> HIDE DEF stale
<1>7. /\ Good(job[t].kind, s)
      /\ \A i \in 1 .. Len(s) : \/ \E n \in 1 .. Len(missing) : s[i] = OnRow("reinsert", missing[n])
                                \/ \E n \in 1 .. Len(stale) : s[i] = OnRow("prune", stale[n])
                                \/ s[i] = Report
      /\ \A n \in 1 .. Len(missing) : \E i \in 1 .. Len(s) : s[i] = OnRow("reinsert", missing[n])
      /\ \A n \in 1 .. Len(stale) : \E i \in 1 .. Len(s) : s[i] = OnRow("prune", stale[n])
  BY <1>2, <1>5, <1>6, RepairsFacts, ZenonT(40)
<1>8. Expand(t, s)
  BY <1>3 DEF s, stale
<1> HIDE DEF s
<1>9. \A i \in 1 .. Len(s), k \in 2 .. Len(job[t].todo) : May(job[t].kind, s[i], job[t].todo[k])
  <2>1. \A i \in 1 .. Len(s) : s[i].do \in {"reinsert", "prune", "report"}
    BY <1>7, OnRowFields DEF Report
  <2>2. \A k \in 2 .. Len(job[t].todo) : job[t].todo[k].do = "insert" /\ job[t].kind # "control"
    BY <1>1 DEF May
  <2> QED
    BY <2>1, <2>2 DEF May, Heads
<1>10. Replaces(t, s, TRUE)
  BY <1>1, <1>7, <1>8, <1>9, ExpandDoes
<1>11. ASSUME NEW i \in 1 .. Len(s)
       PROVE  \/ \E r \in Stmt(t).rows : s[i] = OnRow("reinsert", r) /\ ~Installed(kernel, r)
              \/ \E e \in kernel : s[i] = OnRow("prune", RowOf(e)) /\ \A r \in Stmt(t).rows : r.id # e.id
              \/ s[i] = Report
  <2>1. CASE \E n \in 1 .. Len(missing) : s[i] = OnRow("reinsert", missing[n])
    BY <1>5, <2>1
  <2>2. CASE \E n \in 1 .. Len(stale) : s[i] = OnRow("prune", stale[n])
    BY <1>6, <2>2
  <2> QED
    BY <1>7, <2>1, <2>2
<1>12. \A r \in Stmt(t).rows : Installed(kernel, r) \/ \E i \in 1 .. Len(s) : s[i] = OnRow("reinsert", r)
  <2>1. ASSUME NEW r \in Stmt(t).rows, ~Installed(kernel, r) PROVE \E i \in 1 .. Len(s) : s[i] = OnRow("reinsert", r)
    <3>1. PICK n \in 1 .. Len(missing) : missing[n] = r
      BY <1>5, <2>1
    <3> QED
      BY <1>7, <3>1
  <2> QED
    BY <2>1
<1>13. \A e \in kernel : \/ \E r \in Stmt(t).rows : r.id = e.id
                         \/ \E i \in 1 .. Len(s) : s[i] = OnRow("prune", RowOf(e))
  <2>1. ASSUME NEW e \in kernel, \A r \in Stmt(t).rows : r.id # e.id
        PROVE  \E i \in 1 .. Len(s) : s[i] = OnRow("prune", RowOf(e))
    <3>1. PICK n \in 1 .. Len(stale) : stale[n] = RowOf(e)
      BY <1>6, <2>1
    <3> QED
      BY <1>7, <3>1
  <2> QED
    BY <2>1
<1> QED
  BY <1>1, <1>10, <1>11, <1>12, <1>13
ControlSet == {r \in rows : r.src = "control"}
Removed(j) == IF j.prune THEN Extra(ControlSet, j.desired) ELSE {}

LEMMA MatchDoes ==
  ASSUME NEW t, Ready(t), MatchControl(t)
  PROVE  /\ Stmt(t).do = "match" /\ job[t].kind = "control" /\ UNCHANGED <<rows, kernel, wg, fresh>>
         /\ \/ Fails(t) /\ job'[t] = NoJob
            \/ \E s : /\ Replaces(t, s, TRUE)
                      /\ \A i \in 1 .. Len(s) :
                           \/ \E r \in Removed(job[t]) : s[i] = Get(r.id, "control")
                           \/ \E k \in Wanted(job[t].desired, ControlSet) : s[i] = Insert("control", k)
                           \/ s[i] = Report
                      /\ \A r \in Removed(job[t]) : \E i \in 1 .. Len(s) : s[i] = Get(r.id, "control")
                      /\ \A k \in Wanted(job[t].desired, ControlSet) :
                           \E i \in 1 .. Len(s) : s[i] = Insert("control", k)
<1> DEFINE D == Removed(job[t])
           W == Wanted(job[t].desired, ControlSet)
<1>1. /\ At(t, "match") /\ Stmt(t).do = "match" /\ Stmt(t) \in Statement(job[t].kind) /\ Runs(t)
      /\ rows \subseteq Stored /\ IsFiniteSet(rows)
      /\ \A k \in 2 .. Len(job[t].todo) : May(job[t].kind, Stmt(t), job[t].todo[k])
      /\ UNCHANGED <<rows, kernel, wg, fresh>>
  BY ReadyFacts DEF MatchControl
<1>2. job[t].kind = "control"
  BY <1>1, StatementOf
<1>3. CASE Fail(t)
  BY <1>1, <1>2, <1>3, FailDoes
<1>4. CASE ~Fail(t)
  <2>1. \E list \in Listed(D), keys \in Orders(W) : Expand(t, Declares(list, keys))
    BY <1>4 DEF MatchControl, Removed, ControlSet
  <2>2. PICK list \in Listed(D), keys \in Orders(W) : Expand(t, Declares(list, keys))
    BY <2>1
  <2>3. IsFiniteSet(D) /\ D \subseteq Stored
    <3>1. D \subseteq rows
      BY DEF Removed, Extra, ControlSet
    <3> QED
      BY <1>1, <3>1, FS_Subset
  <2>4. IsFiniteSet(W) /\ W \subseteq Keys
    <3>1. JobTyped(job[t])
      BY <1>1, StmtFacts
    <3>2. W \subseteq job[t].desired
      BY DEF Wanted
    <3> QED
      BY <3>1, <3>2, FS_Subset DEF JobTyped
  <2> DEFINE s == Declares(list, keys)
  <2> HIDE DEF D, W
  <2>5. /\ list \in Seq(Stored) /\ \A i \in 1 .. Len(list) : list[i] \in D
        /\ \A x \in D : \E i \in 1 .. Len(list) : list[i] = x
    <3>1. /\ list \in Seq(D) /\ \A i \in 1 .. Len(list) : list[i] \in D
          /\ \A x \in D : \E i \in 1 .. Len(list) : list[i] = x
      BY <2>3, ListedFacts
    <3> QED
      BY <2>3, <3>1
  <2>6. /\ keys \in Seq(Keys) /\ \A i \in 1 .. Len(keys) : keys[i] \in W
        /\ \A x \in W : \E i \in 1 .. Len(keys) : keys[i] = x
        /\ \A i, k \in 1 .. Len(keys) : keys[i] = keys[k] => i = k
    <3>1. /\ keys \in Seq(W) /\ \A i \in 1 .. Len(keys) : keys[i] \in W
          /\ \A x \in W : \E i \in 1 .. Len(keys) : keys[i] = x
          /\ \A i, k \in 1 .. Len(keys) : keys[i] = keys[k] => i = k
      BY <2>4, OrdersFacts
    <3> QED
      BY <2>4, <3>1
  <2>7. /\ Good("control", s)
        /\ \A i \in 1 .. Len(s) : \/ \E n \in 1 .. Len(list) : s[i] = Get(list[n].id, "control")
                                  \/ \E n \in 1 .. Len(keys) : s[i] = Insert("control", keys[n])
                                  \/ s[i] = Report
        /\ \A n \in 1 .. Len(list) : \E i \in 1 .. Len(s) : s[i] = Get(list[n].id, "control")
        /\ \A n \in 1 .. Len(keys) : \E i \in 1 .. Len(s) : s[i] = Insert("control", keys[n])
    BY <2>5, <2>6, DeclaresFacts
  <2>8. Expand(t, s)
    BY <2>2
  <2> HIDE DEF s
  <2>9. \A i \in 1 .. Len(s), k \in 2 .. Len(job[t].todo) : May(job[t].kind, s[i], job[t].todo[k])
    <3>1. \A k \in 2 .. Len(job[t].todo) : FALSE
      BY <1>1, <1>2 DEF May
    <3> QED
      BY <3>1
  <2>10. Replaces(t, s, TRUE)
    BY <1>1, <1>2, <2>7, <2>8, <2>9, ExpandDoes
  <2>11. ASSUME NEW i \in 1 .. Len(s)
         PROVE  \/ \E r \in D : s[i] = Get(r.id, "control")
                \/ \E k \in W : s[i] = Insert("control", k)
                \/ s[i] = Report
    BY <2>5, <2>6, <2>7
  <2>12. \A r \in D : \E i \in 1 .. Len(s) : s[i] = Get(r.id, "control")
    <3>1. ASSUME NEW r \in D PROVE \E i \in 1 .. Len(s) : s[i] = Get(r.id, "control")
      <4>1. PICK n \in 1 .. Len(list) : list[n] = r
        BY <2>5
      <4> QED
        BY <2>7, <4>1
    <3> QED
      BY <3>1
  <2>13. \A k \in W : \E i \in 1 .. Len(s) : s[i] = Insert("control", k)
    <3>1. ASSUME NEW k \in W PROVE \E i \in 1 .. Len(s) : s[i] = Insert("control", k)
      <4>1. PICK n \in 1 .. Len(keys) : keys[n] = k
        BY <2>6
      <4> QED
        BY <2>7, <4>1
    <3> QED
      BY <3>1
  <2> QED
    BY <1>1, <1>2, <2>10, <2>11, <2>12, <2>13 DEF D, W
<1> QED
  BY <1>3, <1>4
-----------------------------------------------------------------------------
(* The steps of a task keep the base, and change only what the operation   *)
(* may change.                                                             *)
Bounded(t) ==
  /\ \A r \in Difference(rows, rows') : r.src \in SourceOf(job[t].kind)
  /\ \A r \in Difference(Live(kernel), Live(kernel')) : r.src \in RuleSourceOf(job[t].kind)

LEMMA RowsOnly ==
  ASSUME NEW t, UNCHANGED kernel, NEW row, row.src \in SourceOf(job[t].kind),
         rows' = rows \/ rows' = rows \union {row} \/ rows' = rows \ {row}
  PROVE  Bounded(t)
<1>1. Live(kernel') = Live(kernel)
  OBVIOUS
<1> QED
  BY <1>1 DEF Bounded, Difference

LEMMA NothingChanged ==
  ASSUME NEW t, UNCHANGED <<rows, kernel>>
  PROVE  Bounded(t)
<1>1. Live(kernel') = Live(kernel)
  OBVIOUS
<1> QED
  BY <1>1 DEF Bounded, Difference

(* A row of the kernel that has the id of row is row, since an id names    *)
(* one row; the rules of an earlier installation have the id 0.            *)
LEMMA SameRow ==
  ASSUME OneRow, NEW a \in Mentioned, NEW b \in Mentioned, a.id = b.id, a.id # 0
  PROVE  a = b
BY DEF OneRow

LEMMA StoredId ==
  ASSUME NEW row \in Stored
  PROVE  row.id # 0 /\ row.id \in Nat
BY NetAssumption DEF Stored

LEMMA InsertBase ==
  ASSUME NEW t, Ready(t), InsertRow(t)
  PROVE  Base' /\ Bounded(t)
<1> DEFINE row == [id |-> fresh + 1, src |-> Stmt(t).src, key |-> Stmt(t).key]
           s   == <<OnRow("append", row)>>
<1>1. /\ Runs(t) /\ row \in Stored /\ row.src \in SourceOf(job[t].kind) /\ rows' = rows \union {row}
      /\ fresh' = fresh + 1 /\ fresh' \in 0 .. MaxFresh /\ UNCHANGED <<kernel, wg>> /\ Replaces(t, s, TRUE)
  BY InsertDoes
<1>2. row.id = fresh + 1
  OBVIOUS
<1>3. \A n \in 1 .. Len(s) : s[n] = OnRow("append", row)
  OBVIOUS
<1>4. Types /\ OneRow /\ t \in All /\ Len(job[t].todo) \in Nat /\ UNCHANGED scope
  BY <1>1, StmtFacts DEF Ready, Base
<1> DEFINE X == Mentioned \union {row}
<1> HIDE DEF row, s
<1>5. \A n \in 1 .. Len(s) : Named(s[n]) \subseteq X
  BY <1>3, NamedFacts
<1>6. \A i \in 1 .. Len(job'[t].todo) : Named(job'[t].todo[i]) \subseteq X
  BY <1>1, <1>4, <1>5, ReplacesNamed
<1>7. rows' \subseteq X /\ Live(kernel') \subseteq X
  BY <1>1, MentionedFacts
<1>8. JobTypes' /\ Shapes' /\ \A u \in All : u # t => job'[u] = job[u]
  BY <1>1 DEF Replaces, Moves
<1>9. Mentioned' \subseteq X
  BY <1>4, <1>6, <1>7, <1>8, MentionedStep
<1>10. OneRow'
  <2>1. fresh \in Nat
    BY <1>4, NetAssumption DEF Types
  <2>2. \A a \in Mentioned : a.id \in 0 .. fresh /\ a.id # row.id
    BY <1>2, <1>4, <2>1 DEF OneRow
  <2>3. \A a \in X : a.id \in 0 .. fresh + 1
    BY <1>2, <2>1, <2>2
  <2>4. ASSUME NEW a \in X, NEW b \in X, a.id = b.id, a.id # 0 PROVE a = b
    <3>1. CASE a = row \/ b = row
      BY <2>2, <2>4, <3>1
    <3>2. CASE a \in Mentioned /\ b \in Mentioned
      BY <1>4, <2>4, <3>2 DEF OneRow
    <3> QED
      BY <3>1, <3>2
  <2>5. /\ \A a \in Mentioned' : a.id \in 0 .. fresh'
        /\ \A a, b \in Mentioned' : a.id = b.id /\ a.id # 0 => a = b
    BY <1>1, <1>9, <2>3, <2>4
  <2> QED
    BY <2>5 DEF OneRow
<1>11. Types'
  <2>1. rows' \subseteq Stored /\ IsFiniteSet(rows')
    BY <1>1, <1>4, FS_AddElement DEF Types
  <2> QED
    BY <1>1, <1>4, <1>8, <2>1 DEF Types
<1>12. Bounded(t)
  BY <1>1, RowsOnly
<1> QED
  BY <1>8, <1>10, <1>11, <1>12 DEF Base
(* register puts a stored rule in the kernel; reconcile puts one back.     *)
LEMMA AppendDoes ==
  ASSUME NEW t, Ready(t), InstallRule(t) \/ Reinsert(t)
  PROVE  /\ Runs(t) /\ Replaces(t, <<>>, TRUE) /\ UNCHANGED <<rows, wg, fresh>>
         /\ Stmt(t).do \in {"append", "reinsert"} /\ (Stmt(t).do = "append" <=> InstallRule(t))
         /\ Stmt(t) = job[t].todo[1] /\ Stmt(t).row \in Stored
         /\ Stmt(t).row.src \in RuleSourceOf(job[t].kind) /\ Stmt(t).row \in Mentioned
         /\ AppendRule(Stmt(t).row)
<1>1. PICK do \in {"append", "reinsert"} : At(t, do)
  BY DEF InstallRule, Reinsert
<1>2. /\ Runs(t) /\ Stmt(t).do = do /\ Stmt(t) = job[t].todo[1] /\ Stmt(t) \in Statement(job[t].kind)
      /\ Named(Stmt(t)) \subseteq Mentioned
  BY <1>1, ReadyFacts
<1>3. Replaces(t, <<>>, TRUE)
  BY <1>1, AdvanceDoes DEF InstallRule, Reinsert
<1>4. Stmt(t).row \in Stored /\ Stmt(t).row.src \in Sources
  BY <1>2, StatementOf DEF Stored
<1>5. Stmt(t).row.src \in RuleSourceOf(job[t].kind)
  <2>1. CASE do = "append"
    BY <1>2, <2>1, StatementOf, SourcesOf
  <2>2. CASE do = "reinsert"
    <3>1. job[t].kind \in {"reconcile", Boot}
      BY <1>2, <2>2, StatementOf
    <3> QED
      BY <1>4, <3>1, SourceFacts
  <2> QED
    BY <2>1, <2>2
<1>6. Stmt(t).row \in Mentioned
  BY <1>2, NamedFacts
<1>7. Stmt(t).do = "append" <=> InstallRule(t)
  BY <1>2 DEF InstallRule, Reinsert, At, Stmt
<1> QED
  BY <1>2, <1>3, <1>4, <1>5, <1>6, <1>7 DEF InstallRule, Reinsert

LEMMA NoneNamed ==
  \A n \in 1 .. Len(<<>>) : Named(<<>>[n]) \subseteq Mentioned
OBVIOUS

LEMMA AppendBase ==
  ASSUME NEW t, Ready(t), InstallRule(t) \/ Reinsert(t)
  PROVE  Base' /\ Bounded(t)
<1> DEFINE row == Stmt(t).row
<1>1. /\ Runs(t) /\ Replaces(t, <<>>, TRUE) /\ UNCHANGED <<rows, wg, fresh>> /\ row \in Stored
      /\ row.src \in RuleSourceOf(job[t].kind) /\ row \in Mentioned /\ AppendRule(row)
  BY AppendDoes
<1> HIDE DEF row
<1>2. kernel \subseteq Entry /\ IsFiniteSet(kernel) /\ Base /\ UNCHANGED scope
  BY DEF Ready, Base, Types
<1>3. kernel' \subseteq Entry /\ IsFiniteSet(kernel') /\ Live(kernel') = Live(kernel) \union {row}
  BY <1>1, <1>2, AppendEffect
<1>4. Live(kernel') \subseteq Mentioned /\ rows' \subseteq rows
  BY <1>1, <1>3, MentionedFacts
<1>5. Base'
  <2> DEFINE s == <<>>
  <2>1. Replaces(t, s, TRUE) /\ \A n \in 1 .. Len(s) : Named(s[n]) \subseteq Mentioned
    BY <1>1, NoneNamed
  <2> HIDE DEF s
  <2> QED
    BY <1>1, <1>2, <1>3, <1>4, <2>1, BaseReplaced
<1>6. Bounded(t)
  BY <1>1, <1>3 DEF Bounded, Difference
<1> QED
  BY <1>5, <1>6

(* A removal of the rule of an owned row; a prune of what has none.        *)
LEMMA DeleteDoes ==
  ASSUME NEW t, Ready(t), Uninstall(t) \/ Prune(t)
  PROVE  /\ Runs(t) /\ Replaces(t, <<>>, TRUE) /\ UNCHANGED <<rows, wg, fresh>>
         /\ Stmt(t).do \in {"uninstall", "prune"} /\ Stmt(t) = job[t].todo[1]
         /\ Stmt(t).row \in Mentioned
         /\ DeleteRule(Stmt(t).row) \/ (Stmt(t).do = "prune" /\ UNCHANGED kernel)
         /\ Stmt(t).do = "uninstall" => Stmt(t).row \in Stored /\ Stmt(t).row.src \in SourceOf(job[t].kind)
         /\ Stmt(t).do = "prune" => job[t].kind \in {"reconcile", Boot}
<1>1. PICK do \in {"uninstall", "prune"} : At(t, do)
  BY DEF Uninstall, Prune
<1>2. /\ Runs(t) /\ Stmt(t).do = do /\ Stmt(t) = job[t].todo[1] /\ Stmt(t) \in Statement(job[t].kind)
      /\ Named(Stmt(t)) \subseteq Mentioned
  BY <1>1, ReadyFacts
<1>3. Replaces(t, <<>>, TRUE)
  BY <1>1, AdvanceDoes DEF Uninstall, Prune
<1>4. Stmt(t).row \in Mentioned
  BY <1>2, NamedFacts
<1>5. DeleteRule(Stmt(t).row) \/ (Stmt(t).do = "prune" /\ UNCHANGED kernel)
  BY <1>2 DEF Uninstall, Prune, At, Stmt
<1> QED
  BY <1>2, <1>3, <1>4, <1>5, StatementOf DEF Uninstall, Prune

LEMMA DeleteBase ==
  ASSUME NEW t, Ready(t), Uninstall(t) \/ Prune(t)
  PROVE  Base' /\ Bounded(t)
<1> DEFINE row == Stmt(t).row
<1>1. /\ Runs(t) /\ Replaces(t, <<>>, TRUE) /\ UNCHANGED <<rows, wg, fresh>> /\ row \in Mentioned
      /\ Stmt(t).do \in {"uninstall", "prune"}
      /\ DeleteRule(row) \/ (Stmt(t).do = "prune" /\ UNCHANGED kernel)
      /\ Stmt(t).do = "uninstall" => row \in Stored /\ row.src \in SourceOf(job[t].kind)
      /\ Stmt(t).do = "prune" => job[t].kind \in {"reconcile", Boot}
  BY DeleteDoes
<1> HIDE DEF row
<1>2. kernel \subseteq Entry /\ IsFiniteSet(kernel) /\ Base /\ UNCHANGED scope /\ OneRow
  BY DEF Ready, Base, Types
<1>3. /\ kernel' \subseteq Entry /\ IsFiniteSet(kernel') /\ Live(kernel') \subseteq Live(kernel)
      /\ (\A r \in Live(kernel) : r.id # row.id => r \in Live(kernel')) \/ UNCHANGED kernel
  <2>1. CASE DeleteRule(row)
    BY <1>2, <2>1, DeleteEffect
  <2>2. CASE UNCHANGED kernel
    BY <1>2, <2>2
  <2> QED
    BY <1>1, <2>1, <2>2
<1>4. Live(kernel') \subseteq Mentioned /\ rows' \subseteq rows
  BY <1>1, <1>3, MentionedFacts
<1>5. Base'
  <2> DEFINE s == <<>>
  <2>1. Replaces(t, s, TRUE) /\ \A n \in 1 .. Len(s) : Named(s[n]) \subseteq Mentioned
    BY <1>1, NoneNamed
  <2> HIDE DEF s
  <2> QED
    BY <1>1, <1>2, <1>3, <1>4, <2>1, BaseReplaced
<1>6. ASSUME NEW r \in Live(kernel), r \notin Live(kernel') PROVE r.src \in RuleSourceOf(job[t].kind)
  <2>1. r.id = row.id
    BY <1>3, <1>6
  <2>2. CASE Stmt(t).do = "uninstall"
    <3>1. r = row
      BY <1>1, <1>2, <2>1, <2>2, SameRow, StoredId, MentionedFacts
    <3> QED
      BY <1>1, <2>2, <3>1, SourcesOf
  <2>3. CASE Stmt(t).do = "prune"
    <3>1. r.src \in Sources
      BY <1>2 DEF Live, RowOf, Entry
    <3> QED
      BY <1>1, <2>3, <3>1, SourceFacts
  <2> QED
    BY <1>1, <2>2, <2>3
<1>7. Bounded(t)
  BY <1>1, <1>3, <1>6 DEF Bounded, Difference
<1> QED
  BY <1>5, <1>7

LEMMA DeleteRowDoes ==
  ASSUME NEW t, Ready(t), DeleteRow(t)
  PROVE  /\ Runs(t) /\ UNCHANGED <<kernel, wg, fresh>> /\ Stmt(t).do = "delete" /\ Stmt(t) = job[t].todo[1]
         /\ Stmt(t).row \in Stored /\ Stmt(t).row.src \in SourceOf(job[t].kind) /\ Stmt(t).row \in Mentioned
         /\ rows' = rows \ {Stmt(t).row}
         /\ \/ Replaces(t, <<>>, TRUE) /\ (Stmt(t).row \in rows \/ job[t].kind \in {"stop", "subnet"})
            \/ Fails(t) /\ job'[t] = NoJob
<1>1. /\ At(t, "delete") /\ Runs(t) /\ Stmt(t).do = "delete" /\ Stmt(t) = job[t].todo[1]
      /\ Stmt(t) \in Statement(job[t].kind) /\ Named(Stmt(t)) \subseteq Mentioned
  BY ReadyFacts DEF DeleteRow
<1>2. Stmt(t).row \in Stored /\ Stmt(t).row.src \in SourceOf(job[t].kind) /\ Stmt(t).row \in Mentioned
  BY <1>1, StatementOf, NamedFacts
<1>3. CASE Fail(t)
  BY <1>1, <1>2, <1>3, FailDoes DEF DeleteRow
<1>4. CASE ~Fail(t)
  BY <1>1, <1>2, <1>4, AdvanceDoes DEF DeleteRow
<1> QED
  BY <1>3, <1>4
LEMMA RollbackDoes ==
  ASSUME NEW t, Ready(t), Rollback(t)
  PROVE  /\ Runs(t) /\ UNCHANGED <<kernel, wg, fresh>> /\ Stmt(t).do = "rollback" /\ Stmt(t) = job[t].todo[1]
         /\ Stmt(t).row.src \in SourceOf(job[t].kind)
         /\ rows' = rows \ {Stmt(t).row} \/ UNCHANGED rows
         /\ Fails(t) /\ job'[t] = NoJob
<1>1. /\ At(t, "rollback") /\ Runs(t) /\ Stmt(t).do = "rollback" /\ Stmt(t) = job[t].todo[1]
      /\ Stmt(t) \in Statement(job[t].kind)
  BY ReadyFacts DEF Rollback
<1>2. Stmt(t).row.src \in SourceOf(job[t].kind)
  BY <1>1, StatementOf
<1>3. Fails(t) /\ job'[t] = NoJob
  BY <1>1, FailDoes DEF Rollback
<1> QED
  BY <1>1, <1>2, <1>3 DEF Rollback

LEMMA RollbackBase ==
  ASSUME NEW t, Ready(t), Rollback(t)
  PROVE  Base' /\ Bounded(t)
<1>1. /\ Runs(t) /\ UNCHANGED <<kernel, wg, fresh, scope>> /\ Fails(t) /\ Base
      /\ Stmt(t).row.src \in SourceOf(job[t].kind) /\ (rows' = rows \ {Stmt(t).row} \/ UNCHANGED rows)
  BY RollbackDoes DEF Ready
<1>2. rows' \subseteq rows
  BY <1>1
<1>3. Base'
  BY <1>1, <1>2, BaseFailed
<1>4. Bounded(t)
  BY <1>1, RowsOnly
<1> QED
  BY <1>3, <1>4

LEMMA DeleteRowBase ==
  ASSUME NEW t, Ready(t), DeleteRow(t)
  PROVE  Base' /\ Bounded(t)
<1>1. /\ Runs(t) /\ UNCHANGED <<kernel, wg, fresh, scope>> /\ Base
      /\ Stmt(t).row.src \in SourceOf(job[t].kind) /\ rows' = rows \ {Stmt(t).row}
      /\ Replaces(t, <<>>, TRUE) \/ Fails(t)
  BY DeleteRowDoes DEF Ready
<1>2. rows' \subseteq rows
  BY <1>1
<1>3. ASSUME Replaces(t, <<>>, TRUE) PROVE Base'
  <2> DEFINE s == <<>>
  <2>1. Replaces(t, s, TRUE) /\ \A n \in 1 .. Len(s) : Named(s[n]) \subseteq Mentioned
    BY <1>3, NoneNamed
  <2>2. kernel' \subseteq Entry /\ IsFiniteSet(kernel') /\ Live(kernel') \subseteq Mentioned
    BY <1>1, MentionedFacts DEF Base, Types
  <2> HIDE DEF s
  <2> QED
    BY <1>1, <1>2, <2>1, <2>2, BaseReplaced
<1>4. ASSUME Fails(t) PROVE Base'
  BY <1>1, <1>2, <1>4, BaseFailed
<1>5. Bounded(t)
  BY <1>1, RowsOnly
<1> QED
  BY <1>1, <1>3, <1>4, <1>5

LEMMA InstallFailsBase ==
  ASSUME NEW t, Ready(t), InstallFails(t)
  PROVE  Base' /\ Bounded(t)
<1>1. /\ Runs(t) /\ UNCHANGED <<rows, kernel, wg, fresh, scope>> /\ Base /\ Moves(t, FALSE)
      /\ \A i \in 1 .. Len(job'[t].todo) : job'[t].todo[i] = OnRow("rollback", Stmt(t).row)
      /\ Stmt(t).do = "append" /\ Named(Stmt(t)) \subseteq Mentioned
  BY ReadyFacts, InstallFailsDoes DEF InstallFails, Ready
<1>2. Named(OnRow("rollback", Stmt(t).row)) \subseteq Mentioned
  BY <1>1, NamedFacts
<1>3. \A i \in 1 .. Len(job'[t].todo) : Named(job'[t].todo[i]) \subseteq Mentioned
  BY <1>1, <1>2
<1>4. kernel' \subseteq Entry /\ IsFiniteSet(kernel') /\ Live(kernel') \subseteq Mentioned /\ rows' \subseteq rows
  BY <1>1, MentionedFacts DEF Base, Types
<1>5. Base'
  BY <1>1, <1>3, <1>4, BaseKept
<1> QED
  BY <1>1, <1>5, NothingChanged

(* What only reads, or fails.                                              *)
Reads(t) ==
  \/ GetRow(t) \/ ListSource(t) \/ ReadRows(t) \/ ReadLive(t) \/ MatchControl(t)
  \/ Return(t) \/ UninstallRefused(t)
Errs(t) == RefuseRule(t) \/ UninstallFails(t) \/ ReconcileFails(t)

LEMMA ErrsDoes ==
  ASSUME NEW t, Ready(t), Errs(t)
  PROVE  Runs(t) /\ Fails(t) /\ UNCHANGED <<rows, kernel, wg, fresh>>
<1>1. PICK do : At(t, do) /\ Fail(t)
  BY DEF Errs, RefuseRule, UninstallFails, ReconcileFails
<1>2. Runs(t) /\ Fails(t)
  BY <1>1, ReadyFacts, FailDoes
<1> QED
  BY <1>2 DEF Errs, RefuseRule, UninstallFails, ReconcileFails

LEMMA ReadsBase ==
  ASSUME NEW t, Ready(t), Reads(t) \/ Errs(t)
  PROVE  Base' /\ Bounded(t)
<1>1. UNCHANGED <<rows, kernel, wg, fresh, scope>> /\ Base
  BY DEF Ready, Reads, Errs, GetRow, ListSource, ReadRows, ReadLive, MatchControl, Return,
         UninstallRefused, RefuseRule, UninstallFails, ReconcileFails
<1>2. /\ kernel' \subseteq Entry /\ IsFiniteSet(kernel') /\ Live(kernel') \subseteq Mentioned /\ rows' \subseteq rows
      /\ rows \subseteq Mentioned
  BY <1>1, MentionedFacts DEF Base, Types
<1>3. Bounded(t)
  BY <1>1, NothingChanged
<1>4. ASSUME Runs(t), Fails(t) PROVE Base'
  BY <1>1, <1>2, <1>4, BaseFailed
<1>5. ASSUME Runs(t), NEW s, Replaces(t, s, TRUE), \A n \in 1 .. Len(s) : Named(s[n]) \subseteq Mentioned
      PROVE  Base'
  BY <1>1, <1>2, <1>5, BaseReplaced
<1>6. ASSUME NEW S, NEW list \in Seq(S), S \subseteq rows
      PROVE  \A n \in 1 .. Len(Uninstalls(list)) : Named(Uninstalls(list)[n]) \subseteq Mentioned
  <2> DEFINE s == Uninstalls(list)
  <2>1. \A i \in 1 .. Len(s) : \E n \in 1 .. Len(list) :
          s[i] = OnRow("uninstall", list[n]) \/ s[i] = OnRow("delete", list[n])
    BY <1>6, UninstallsFacts
  <2>2. \A n \in 1 .. Len(list) : list[n] \in Mentioned
    BY <1>2, <1>6
  <2> HIDE DEF s
  <2>3. \A i \in 1 .. Len(s) : Named(s[i]) \subseteq Mentioned
    BY <2>1, <2>2, NamedFacts
  <2> QED
    BY <2>3 DEF s
<1>7. ASSUME Errs(t) PROVE Base'
  BY <1>4, <1>7, ErrsDoes
<1>8. ASSUME GetRow(t) PROVE Base'
  <2>1. Runs(t)
    BY <1>8, ReadyFacts DEF GetRow
  <2>2. ASSUME Fails(t) PROVE Base'
    BY <1>4, <2>1, <2>2
  <2>3. ASSUME NEW r \in Owned(Stmt(t).id, Stmt(t).src), Replaces(t, Uninstalls(<<r>>), TRUE) PROVE Base'
    <3> DEFINE S == {r}
               list == <<r>>
    <3>1. list \in Seq(S) /\ S \subseteq rows
      BY DEF Owned
    <3>2. S \subseteq rows /\ list \in Seq(S) /\ Replaces(t, Uninstalls(list), TRUE)
      BY <2>3, <3>1
    <3> HIDE DEF S, list
    <3>3. \A n \in 1 .. Len(Uninstalls(list)) : Named(Uninstalls(list)[n]) \subseteq Mentioned
      BY <1>6, <3>2
    <3> QED
      BY <1>5, <2>1, <3>2, <3>3
  <2> QED
    BY <1>8, <2>2, <2>3, GetDoes
<1>9. ASSUME ListSource(t) PROVE Base'
  <2>1. Runs(t)
    BY <1>9, ReadyFacts DEF ListSource
  <2> DEFINE S == {r \in rows : r.src \in SourceOf(job[t].kind)}
  <2>2. PICK list \in Seq(S) : Replaces(t, Uninstalls(list), TRUE)
    BY <1>9, ListSourceDoes
  <2>3. S \subseteq rows
    OBVIOUS
  <2> HIDE DEF S
  <2>4. \A n \in 1 .. Len(Uninstalls(list)) : Named(Uninstalls(list)[n]) \subseteq Mentioned
    BY <1>6, <2>3
  <2> QED
    BY <1>5, <2>1, <2>2, <2>4
<1>10. ASSUME ReadRows(t) PROVE Base'
  <2>1. Runs(t)
    BY <1>10, ReadyFacts DEF ReadRows
  <2> DEFINE s == <<ListLive(rows)>>
  <2>2. Named(ListLive(rows)) = rows
    BY NamedFacts DEF ListLive
  <2>3. \A n \in 1 .. Len(s) : Named(s[n]) \subseteq Mentioned
    BY <1>2, <2>2
  <2>4. Replaces(t, s, TRUE)
    BY <1>10, ReadRowsDoes
  <2> HIDE DEF s
  <2> QED
    BY <1>5, <2>1, <2>3, <2>4
<1>11. ASSUME ReadLive(t) PROVE Base'
  <2>1. Runs(t) /\ Stmt(t).do = "listlive" /\ Named(Stmt(t)) \subseteq Mentioned
    BY <1>11, ReadyFacts DEF ReadLive
  <2>2. Stmt(t).rows \subseteq Mentioned
    BY <2>1, NamedFacts
  <2>3. PICK s : /\ Replaces(t, s, TRUE)
                 /\ \A i \in 1 .. Len(s) :
                      \/ \E r \in Stmt(t).rows : s[i] = OnRow("reinsert", r) /\ ~Installed(kernel, r)
                      \/ \E e \in kernel : s[i] = OnRow("prune", RowOf(e)) /\ \A r \in Stmt(t).rows : r.id # e.id
                      \/ s[i] = Report
    BY <1>11, ReadLiveDoes, ZenonT(40)
  <2>4. \A e \in kernel : RowOf(e) \in Mentioned
    BY MentionedFacts, LiveFacts
  <2>5. Report.do = "report"
    BY DEF Report
  <2>6. \A i \in 1 .. Len(s) : Named(s[i]) \subseteq Mentioned
    BY <2>2, <2>3, <2>4, <2>5, NamedFacts
  <2> QED
    BY <1>5, <2>1, <2>3, <2>6
<1>12. ASSUME MatchControl(t) PROVE Base'
  <2>1. Runs(t)
    BY <1>12, ReadyFacts DEF MatchControl
  <2>2. ASSUME Fails(t) PROVE Base'
    BY <1>4, <2>1, <2>2
  <2>3. ASSUME ~Fails(t) PROVE Base'
    <3>1. PICK s : /\ Replaces(t, s, TRUE)
                   /\ \A i \in 1 .. Len(s) :
                        \/ \E r \in Removed(job[t]) : s[i] = Get(r.id, "control")
                        \/ \E k \in Wanted(job[t].desired, ControlSet) : s[i] = Insert("control", k)
                        \/ s[i] = Report
                   /\ \A r \in Removed(job[t]) : \E i \in 1 .. Len(s) : s[i] = Get(r.id, "control")
                   /\ \A k \in Wanted(job[t].desired, ControlSet) :
                        \E i \in 1 .. Len(s) : s[i] = Insert("control", k)
      BY <1>12, <2>3, MatchDoes
    <3>2. ASSUME NEW i \in 1 .. Len(s) PROVE s[i].do \in {"get", "insert", "report"}
      <4>1. \A id, src, key : Get(id, src).do = "get" /\ Insert(src, key).do = "insert" /\ Report.do = "report"
        BY DEF Get, Insert, Report
      <4> QED
        BY <3>1, <4>1
    <3>3. \A i \in 1 .. Len(s) : Named(s[i]) \subseteq Mentioned
      BY <3>2, NamedFacts
    <3> QED
      BY <1>5, <2>1, <3>1, <3>3
  <2> QED
    BY <2>2, <2>3
<1>13. ASSUME Return(t) PROVE Base'
  <2>1. Runs(t) /\ Replaces(t, <<>>, TRUE)
    BY <1>13, ReadyFacts, AdvanceDoes DEF Return
  <2> DEFINE s == <<>>
  <2>2. Replaces(t, s, TRUE) /\ \A n \in 1 .. Len(s) : Named(s[n]) \subseteq Mentioned
    BY <2>1, NoneNamed
  <2> HIDE DEF s
  <2> QED
    BY <1>5, <2>1, <2>2
<1>14. ASSUME UninstallRefused(t) PROVE Base'
  <2>1. Runs(t) /\ Replaces(t, <<>>, TRUE)
    BY <1>14, ReadyFacts, AdvanceDoes DEF UninstallRefused
  <2> DEFINE s == <<>>
  <2>2. Replaces(t, s, TRUE) /\ \A n \in 1 .. Len(s) : Named(s[n]) \subseteq Mentioned
    BY <2>1, NoneNamed
  <2> HIDE DEF s
  <2> QED
    BY <1>5, <2>1, <2>2
<1>15. Base'
  BY <1>7, <1>8, <1>9, <1>10, <1>11, <1>12, <1>13, <1>14 DEF Reads
<1> QED
  BY <1>3, <1>15

LEMMA RunBase ==
  ASSUME NEW t \in All, Base, Run(t), UNCHANGED scope
  PROVE  Base' /\ Bounded(t) /\ \A u \in All : u # t => job'[u] = job[u]
<1>1. Ready(t)
  BY DEF Ready
<1>2. Base' /\ Bounded(t)
  BY <1>1, InsertBase, AppendBase, DeleteBase, DeleteRowBase, RollbackBase, InstallFailsBase, ReadsBase
     DEF Run, Reads, Errs
<1>3. PICK todo, c : Continue(t, todo, c)
  BY DEF Run, InsertRow, RefuseRule, InstallRule, InstallFails, Rollback, GetRow, ListSource, Uninstall,
         UninstallRefused, UninstallFails, DeleteRow, ReadRows, ReadLive, Reinsert, ReconcileFails, Prune, Return, MatchControl,
         Fail, Expand, Advance
<1>4. DOMAIN job = All
  BY DEF Base, Types, JobTypes
<1>5. \A u \in All : u # t => job'[u] = job[u]
  BY <1>3, <1>4 DEF Continue
<1> QED
  BY <1>2, <1>5
-----------------------------------------------------------------------------
(* Where operations start.                                                 *)
Begun(j, kind) ==
  /\ JobTyped(j) /\ InOrder(j.kind, j.todo) /\ Paired(j.todo) /\ j.kind = kind
  /\ \A i \in 1 .. Len(j.todo) : /\ j.todo[i].do \in {"insert", "get", "bysource", "listrows", "match"}
                                 /\ kind = "control" => j.todo[i].do = "match"

LEMMA GoodThen ==
  ASSUME NEW kind, kind # "control", NEW a \in Statement(kind), a.do \in {"listrows", "bysource"},
         NEW b, Good(kind, b), \A i \in 1 .. Len(b) : b[i].do = "insert",
         NEW L, L = <<a>> \o b
  PROVE  Good(kind, L) /\ \A i \in 1 .. Len(L) : L[i].do \in {a.do, "insert"}
<1> DEFINE S == Statement(kind)
           s == <<a>>
<1>1. s \in Seq(S) /\ b \in Seq(S) /\ Len(s) = 1 /\ s[1] = a
  BY DEF Good
<1>2. L = s \o b
  OBVIOUS
<1> HIDE DEF S, s
<1>3. /\ L \in Seq(S) /\ Len(L) = Len(s) + Len(b) /\ Len(b) \in Nat
      /\ \A i \in 1 .. Len(s) : L[i] = s[i]
      /\ \A i \in 1 .. Len(b) : L[Len(s) + i] = b[i]
  BY <1>1, <1>2, TwoParts
<1>4. ASSUME NEW i \in 1 .. Len(L), i # 1 PROVE i - 1 \in 1 .. Len(b) /\ L[i] = b[i - 1] /\ L[i].do = "insert"
  <2>1. i - 1 \in 1 .. Len(b) /\ Len(s) + (i - 1) = i
    BY <1>1, <1>3, <1>4
  <2> QED
    BY <1>3, <2>1
<1>5. L[1] = a
  BY <1>1, <1>3
<1>6. InOrder(kind, L)
  <2>1. ASSUME NEW i \in 1 .. Len(L), NEW k \in 1 .. Len(L), i < k PROVE May(kind, L[i], L[k])
    <3>1. k # 1 /\ L[k].do = "insert"
      BY <1>3, <1>4, <2>1
    <3>2. L[i].do \in {a.do, "insert"}
      BY <1>4, <1>5
    <3> QED
      BY <3>1, <3>2 DEF May, Heads
  <2> QED
    BY <2>1 DEF InOrder
<1>7. \A i \in 1 .. Len(L) : L[i].do \in {a.do, "insert"}
  BY <1>4, <1>5
<1>8. Paired(L)
  <2>1. \A i \in 1 .. Len(L) : L[i].do # "uninstall" /\ L[i].do # "delete"
    BY <1>7
  <2>2. \A i \in 2 .. Len(L) : i \in 1 .. Len(L)
    BY <1>1, <1>3
  <2> QED
    BY <2>1, <2>2 DEF Paired
<1> QED
  BY <1>3, <1>6, <1>7, <1>8 DEF Good, S

LEMMA BegunFacts ==
  ASSUME NEW kind \in {Boot} \union AllKinds, NEW todo, Good(kind, todo),
         NEW desired \in SUBSET Keys, IsFiniteSet(desired), NEW prune \in BOOLEAN,
         \A i \in 1 .. Len(todo) : /\ todo[i].do \in {"insert", "get", "bysource", "listrows", "match"}
                                   /\ kind = "control" => todo[i].do = "match"
  PROVE  /\ Begun([NewJob(kind, todo) EXCEPT !.desired = desired, !.prune = prune], kind)
         /\ Begun(NewJob(kind, todo), kind)
<1> DEFINE n == NewJob(kind, todo)
           j == [n EXCEPT !.desired = desired, !.prune = prune]
<1>1. IsFiniteSet({})
  BY FS_EmptySet
<1>2. DOMAIN n = {"kind", "todo", "clean", "dropped", "desired", "prune"}
  BY DEF NewJob, NoJob
<1>3. n.kind = kind /\ n.todo = todo /\ n.desired = {}
  BY DEF NewJob, NoJob
<1>4. n.clean = TRUE /\ n.dropped = FALSE /\ n.prune = FALSE
  BY DEF NewJob, NoJob
<1> HIDE DEF n
<1>5. DOMAIN j = DOMAIN n /\ j.kind = kind /\ j.todo = todo /\ j.desired = desired
  BY <1>2, <1>3
<1>6. j.clean = n.clean /\ j.dropped = n.dropped /\ j.prune = prune
  BY <1>2
<1> HIDE DEF j
<1>7. kind # "none" /\ todo \in Seq(Statement(kind)) /\ InOrder(kind, todo) /\ Paired(todo)
  BY DEF Good, AllKinds, Boot
<1>8. JobTyped(j)
  BY <1>2, <1>4, <1>5, <1>6, <1>7 DEF JobTyped
<1>9. JobTyped(n)
  BY <1>1, <1>2, <1>3, <1>4, <1>7 DEF JobTyped
<1>10. Begun(j, kind)
  BY <1>5, <1>7, <1>8 DEF Begun
<1>11. Begun(n, kind)
  BY <1>3, <1>7, <1>9 DEF Begun
<1> QED
  BY <1>10, <1>11 DEF n, j

LEMMA BegunPlain ==
  ASSUME NEW kind \in {Boot} \union AllKinds, NEW todo, Good(kind, todo), kind # "control",
         \A i \in 1 .. Len(todo) : todo[i].do \in {"insert", "get", "bysource", "listrows", "match"}
  PROVE  Begun(NewJob(kind, todo), kind)
<1>1. IsFiniteSet({}) /\ {} \in SUBSET Keys /\ TRUE \in BOOLEAN
  BY FS_EmptySet
<1> QED
  BY <1>1, BegunFacts

LEMMA BootBegun ==
  ASSUME NEW enabled \in BOOLEAN
  PROVE  Begun(BootJob(enabled), Boot) /\ BootJob(enabled) # NoJob /\ Head(BootJob(enabled).todo) = ListRows
<1> DEFINE b == IF enabled THEN BaselineRules ELSE <<>>
           a == ListRows
           L == <<a>> \o b
<1>1. Boot \in {"start", "subnet", Boot} /\ Boot # "control"
  BY DEF Boot
<1>2. Good(Boot, b) /\ \A i \in 1 .. Len(b) : b[i].do = "insert"
  <2>1. CASE enabled
    BY <1>1, <2>1, GoodBaseline
  <2>2. CASE ~enabled
    BY <2>2, GoodEmpty
  <2> QED
    BY <2>1, <2>2
<1>3. a \in Statement(Boot) /\ a.do = "listrows"
  BY StatementFacts DEF ListRows
<1>4. BootJob(enabled) = NewJob(Boot, L)
  BY DEF BootJob
<1> HIDE DEF a, b
<1>5. Good(Boot, L) /\ \A i \in 1 .. Len(L) : L[i].do \in {"listrows", "insert"}
  <2>1. a.do \in {"listrows", "bysource"}
    BY <1>3
  <2> QED
    BY <1>1, <1>2, <1>3, <2>1, GoodThen
<1>6. Head(L) = a
  <2>1. b \in Seq(Statement(Boot)) /\ <<a>> \in Seq(Statement(Boot))
    BY <1>2, <1>3 DEF Good
  <2> QED
    BY <2>1
<1> HIDE DEF L
<1>7. Begun(NewJob(Boot, L), Boot)
  BY <1>1, <1>5, BegunPlain
<1>8. NewJob(Boot, L).todo = L /\ NewJob(Boot, L).kind = Boot /\ NoJob.kind = "none"
  BY DEF NewJob, NoJob
<1> QED
  BY <1>4, <1>6, <1>7, <1>8 DEF Boot, a

(* A request changes the list of its task alone.                           *)
LEMMA StartDoes ==
  ASSUME Base, UNCHANGED scope, NEW t \in Tasks,
         \/ StartRegister(t) \/ StartRemove(t) \/ StartReconcile(t)
         \/ StartWg(t) \/ StopWg(t) \/ SetSubnet(t) \/ StartControl(t)
  PROVE  /\ Up /\ Idle(t) /\ \E kind \in scope[t] : kind \in AllKinds /\ Begun(job'[t], kind)
         /\ \A u \in All : u # t => job'[u] = job[u]
         /\ DOMAIN job' = All /\ UNCHANGED <<rows, kernel, fresh>> /\ wg' \in BOOLEAN
<1>1. DOMAIN job = All /\ wg \in BOOLEAN /\ scope[t] \subseteq AllKinds /\ t \in All /\ fresh \in Nat
  BY NetAssumption DEF Base, Types, JobTypes, All
<1>2. ASSUME NEW kind, NEW todo, Begin(t, kind, todo), Begun(NewJob(kind, todo), kind)
      PROVE  /\ Up /\ Idle(t) /\ kind \in scope[t] /\ kind \in AllKinds /\ Begun(job'[t], kind)
             /\ \A u \in All : u # t => job'[u] = job[u]
             /\ DOMAIN job' = All /\ UNCHANGED <<rows, kernel, fresh>>
  <2>1. job' = [job EXCEPT ![t] = NewJob(kind, todo)] /\ Up /\ Idle(t) /\ kind \in scope[t]
        /\ UNCHANGED <<rows, kernel, fresh>>
    BY <1>2 DEF Begin
  <2>2. job'[t] = NewJob(kind, todo)
    BY <1>1, <2>1
  <2> QED
    BY <1>1, <1>2, <2>1, <2>2
<1>3. ASSUME NEW kind \in AllKinds, kind # "control", NEW s \in Statement(kind), s.do \in {"insert", "get", "bysource", "listrows"}
      PROVE  Begun(NewJob(kind, <<s>>), kind)
  <2> DEFINE l == <<s>>
  <2>1. Good(kind, l) /\ Len(l) = 1 /\ l[1] = s
    BY <1>3, GoodSingle
  <2> HIDE DEF l
  <2>2. Begun(NewJob(kind, l), kind)
    BY <1>3, <2>1, BegunPlain
  <2> QED
    BY <2>2 DEF l
<1>4. CASE StartRegister(t)
  <2>1. PICK key \in Valid : Begin(t, "register", <<Insert("user", key)>>)
    BY <1>4 DEF StartRegister
  <2>2. Insert("user", key) \in Statement("register") /\ Insert("user", key).do = "insert"
    BY SourceFacts, StatementFacts DEF Insert, Valid, Complete
  <2>3. "register" \in AllKinds
    BY DEF AllKinds
  <2>4. Begun(NewJob("register", <<Insert("user", key)>>), "register")
    BY <1>3, <2>2, <2>3
  <2> QED
    BY <1>1, <1>2, <1>4, <2>1, <2>4 DEF StartRegister
<1>5. CASE StartRemove(t)
  <2>1. PICK id \in 1 .. fresh : Begin(t, "remove", <<Get(id, "user")>>)
    BY <1>5 DEF StartRemove
  <2>2. Get(id, "user") \in Statement("remove") /\ Get(id, "user").do = "get"
    BY <1>1, SourceFacts, StatementFacts DEF Get
  <2>3. "remove" \in AllKinds
    BY DEF AllKinds
  <2>4. Begun(NewJob("remove", <<Get(id, "user")>>), "remove")
    BY <1>3, <2>2, <2>3
  <2> QED
    BY <1>1, <1>2, <1>5, <2>1, <2>4 DEF StartRemove
<1>6. CASE StartReconcile(t)
  <2>1. ListRows \in Statement("reconcile") /\ ListRows.do = "listrows"
    BY StatementFacts DEF ListRows
  <2>2. "reconcile" \in AllKinds
    BY DEF AllKinds
  <2>3. Begun(NewJob("reconcile", <<ListRows>>), "reconcile")
    BY <1>3, <2>1, <2>2
  <2> QED
    BY <1>1, <1>2, <1>6, <2>3 DEF StartReconcile
<1>7. CASE StartWg(t)
  <2>1. Good("start", BaselineRules) /\ \A i \in 1 .. Len(BaselineRules) : BaselineRules[i].do = "insert"
    BY GoodBaseline
  <2>2. "start" \in {Boot} \union AllKinds
    BY DEF AllKinds
  <2>3. Begun(NewJob("start", BaselineRules), "start")
    BY <2>1, <2>2, BegunPlain
  <2> QED
    BY <1>1, <1>2, <1>7, <2>3 DEF StartWg
<1>8. BySource("wg-driver") \in Statement("stop") /\ BySource("wg-driver") \in Statement("subnet")
      /\ BySource("wg-driver").do = "bysource"
  BY SourceFacts, StatementFacts DEF BySource
<1>9. CASE StopWg(t)
  <2>1. "stop" \in AllKinds
    BY DEF AllKinds
  <2>2. Begun(NewJob("stop", <<BySource("wg-driver")>>), "stop")
    BY <1>3, <1>8, <2>1
  <2> QED
    BY <1>1, <1>2, <1>9, <2>2 DEF StopWg
<1>10. CASE SetSubnet(t)
  <2> DEFINE a == BySource("wg-driver")
             L == <<a>> \o BaselineRules
  <2>1. a \in Statement("subnet") /\ a.do = "bysource"
    BY <1>8
  <2>2. Good("subnet", BaselineRules) /\ \A i \in 1 .. Len(BaselineRules) : BaselineRules[i].do = "insert"
    BY GoodBaseline
  <2>3. Begin(t, "subnet", L)
    BY <1>10 DEF SetSubnet
  <2> HIDE DEF a
  <2>4. Good("subnet", L) /\ \A i \in 1 .. Len(L) : L[i].do \in {"bysource", "insert"}
    <3>1. a.do \in {"listrows", "bysource"}
      BY <2>1
    <3> QED
      BY <2>1, <2>2, <3>1, GoodThen
  <2>5. "subnet" \in {Boot} \union AllKinds
    BY DEF AllKinds
  <2> HIDE DEF L
  <2>6. Begun(NewJob("subnet", L), "subnet")
    BY <2>4, <2>5, BegunPlain
  <2> QED
    BY <1>1, <1>2, <1>10, <2>3, <2>6 DEF SetSubnet
<1>11. CASE StartControl(t)
  <2> DEFINE s == Match
             l == <<s>>
  <2>1. PICK desired \in Snapshots, prune \in BOOLEAN :
          /\ Up /\ Idle(t) /\ "control" \in scope[t]
          /\ job' = [job EXCEPT ![t] = [NewJob("control", l) EXCEPT !.desired = desired, !.prune = prune]]
          /\ UNCHANGED <<rows, kernel, wg, fresh>>
    BY <1>11 DEF StartControl
  <2>2. s \in Statement("control") /\ s.do = "match"
    BY StatementFacts DEF Match
  <2> HIDE DEF s
  <2>3. Good("control", l) /\ Len(l) = 1 /\ l[1] = s
    BY <2>2, GoodSingle
  <2> HIDE DEF l
  <2>4. desired \in SUBSET Keys /\ IsFiniteSet(desired) /\ "control" \in {Boot} \union AllKinds
    BY NetAssumption DEF AllKinds
  <2> DEFINE j == [NewJob("control", l) EXCEPT !.desired = desired, !.prune = prune]
  <2>5. Begun(j, "control")
    <3>1. \A i \in 1 .. Len(l) : l[i].do = "match"
      BY <2>2, <2>3
    <3> QED
      BY <2>3, <2>4, <3>1, BegunFacts
  <2> HIDE DEF j
  <2>6. job' = [job EXCEPT ![t] = j]
    BY <2>1 DEF j
  <2>7. job'[t] = j /\ DOMAIN job' = All /\ \A u \in All : u # t => job'[u] = job[u]
    BY <1>1, <2>6
  <2>8. "control" \in AllKinds
    BY DEF AllKinds
  <2> QED
    BY <1>1, <2>1, <2>5, <2>7, <2>8
<1> QED
  BY <1>4, <1>5, <1>6, <1>7, <1>9, <1>10, <1>11
LEMMA BegunNames ==
  ASSUME NEW j, NEW kind, Begun(j, kind)
  PROVE  \A i \in 1 .. Len(j.todo) : Named(j.todo[i]) = {}
BY NamedFacts DEF Begun

(* One task changes its list; tables, kernel and the other tasks do not.   *)
LEMMA JobBase ==
  ASSUME Base, UNCHANGED <<rows, kernel, fresh, scope>>, wg' \in BOOLEAN, NEW t \in All,
         \A u \in All : u # t => job'[u] = job[u], DOMAIN job' = All,
         JobTyped(job'[t]), InOrder(job'[t].kind, job'[t].todo), Paired(job'[t].todo),
         job'[t].kind \in {"none"} \union IF t = Boot THEN {Boot} ELSE scope[t],
         \A i \in 1 .. Len(job'[t].todo) : Named(job'[t].todo[i]) \subseteq Mentioned
  PROVE  Base' /\ Bounded(t)
<1>1. Mentioned' \subseteq Mentioned
  <2>1. rows' \subseteq Mentioned /\ Live(kernel') \subseteq Mentioned
    BY MentionedFacts
  <2> QED
    BY <2>1, MentionedStep
<1>2. OneRow'
  BY <1>1 DEF OneRow, Base
<1>3. Shapes'
  BY ShapesKept DEF Base
<1>4. JobTypes'
  <2>1. ASSUME NEW u \in All
        PROVE  JobTyped(job'[u]) /\ job'[u].kind \in {"none"} \union IF u = Boot THEN {Boot} ELSE scope'[u]
    BY <2>1 DEF Base, Types, JobTypes
  <2>2. JobTypes' <=> /\ DOMAIN job' = All
                      /\ \A u \in All : /\ JobTyped(job'[u])
                                        /\ job'[u].kind \in {"none"} \union IF u = Boot THEN {Boot} ELSE scope'[u]
    BY DEF JobTypes
  <2> QED
    BY <2>1, <2>2
<1>5. Types'
  BY <1>4 DEF Base, Types
<1> QED
  BY <1>2, <1>3, <1>5, NothingChanged DEF Base

LEMMA GiveUpDoes ==
  ASSUME Base, UNCHANGED scope, NEW t \in Tasks, GiveUp(t)
  PROVE  /\ UNCHANGED <<rows, kernel, wg, fresh>> /\ \A u \in All : u # t => job'[u] = job[u]
         /\ DOMAIN job' = All /\ JobTyped(job'[t])
         /\ \/ job'[t] = NoJob
            \/ /\ job'[t].kind = job[t].kind /\ job'[t].todo = job[t].todo /\ job'[t].clean = job[t].clean
               /\ job'[t].desired = job[t].desired /\ job'[t].prune = job[t].prune
<1>1. DOMAIN job = All /\ t \in All /\ JobTyped(job[t])
  BY DEF Base, Types, JobTypes, All
<1>2. CASE job' = [job EXCEPT ![t] = NoJob]
  BY <1>1, <1>2, NoJobFacts DEF GiveUp
<1>3. CASE job' = [job EXCEPT ![t].dropped = TRUE]
  <2> DEFINE j == [job[t] EXCEPT !.dropped = TRUE]
  <2>1. job'[t] = j /\ DOMAIN job' = All /\ \A u \in All : u # t => job'[u] = job[u]
    BY <1>1, <1>3
  <2>2. DOMAIN job[t] = {"kind", "todo", "clean", "dropped", "desired", "prune"} /\ job[t].kind # "none"
    BY <1>1 DEF JobTyped, GiveUp
  <2>3. /\ DOMAIN j = DOMAIN job[t] /\ j.kind = job[t].kind /\ j.todo = job[t].todo
        /\ j.desired = job[t].desired
    BY <2>2
  <2>4. j.clean = job[t].clean /\ j.prune = job[t].prune /\ j.dropped = TRUE
    BY <2>2
  <2> HIDE DEF j
  <2>5. JobTyped(j)
    BY <1>1, <2>2, <2>3, <2>4 DEF JobTyped
  <2> QED
    BY <2>1, <2>3, <2>4, <2>5 DEF GiveUp
<1> QED
  BY <1>2, <1>3 DEF GiveUp

LEMMA RequestBase ==
  ASSUME Base, UNCHANGED scope, NEW t \in Tasks, Request(t)
  PROVE  Base' /\ Bounded(t) /\ \A u \in All : u # t => job'[u] = job[u]
<1>1. t \in All /\ t # Boot /\ wg \in BOOLEAN /\ Shapes /\ JobTypes
  BY NetAssumption DEF All, Base, Types
<1>2. CASE GiveUp(t)
  <2>1. /\ UNCHANGED <<rows, kernel, wg, fresh>> /\ \A u \in All : u # t => job'[u] = job[u]
        /\ DOMAIN job' = All /\ JobTyped(job'[t])
        /\ \/ job'[t] = NoJob
           \/ job'[t].kind = job[t].kind /\ job'[t].todo = job[t].todo
    BY <1>2, GiveUpDoes
  <2>2. /\ InOrder(job'[t].kind, job'[t].todo) /\ Paired(job'[t].todo)
        /\ job'[t].kind \in {"none"} \union IF t = Boot THEN {Boot} ELSE scope[t]
        /\ \A i \in 1 .. Len(job'[t].todo) : Named(job'[t].todo[i]) \subseteq Mentioned
    <3>1. CASE job'[t] = NoJob
      <4>1. \A i \in 1 .. Len(job'[t].todo) : FALSE
        BY <3>1, NoJobFacts
      <4> QED
        BY <3>1, <4>1, NoJobFacts
    <3>2. CASE job'[t].kind = job[t].kind /\ job'[t].todo = job[t].todo
      BY <1>1, <3>2, MentionedFacts DEF Shapes, JobTypes
    <3> QED
      BY <2>1, <3>1, <3>2
  <2> QED
    BY <1>1, <2>1, <2>2, JobBase
<1>3. CASE ~GiveUp(t)
  <2>1. /\ \E kind \in scope[t] : Begun(job'[t], kind)
        /\ \A u \in All : u # t => job'[u] = job[u]
        /\ DOMAIN job' = All /\ UNCHANGED <<rows, kernel, fresh>> /\ wg' \in BOOLEAN
    BY <1>3, StartDoes DEF Request
  <2>2. PICK kind \in scope[t] : Begun(job'[t], kind)
    BY <2>1
  <2>3. /\ JobTyped(job'[t]) /\ InOrder(job'[t].kind, job'[t].todo) /\ Paired(job'[t].todo) /\ job'[t].kind = kind
    BY <2>2 DEF Begun
  <2>4. \A i \in 1 .. Len(job'[t].todo) : Named(job'[t].todo[i]) \subseteq Mentioned
    BY <2>2, BegunNames
  <2>5. job'[t].kind \in {"none"} \union IF t = Boot THEN {Boot} ELSE scope[t]
    BY <1>1, <2>2, <2>3
  <2> QED
    BY <1>1, <2>1, <2>3, <2>4, <2>5, JobBase
<1> QED
  BY <1>2, <1>3

(* The list of every task after a start of the process.                    *)
BootState(j) ==
  \E enabled \in BOOLEAN : j = [t \in All |-> IF t = Boot THEN BootJob(enabled) ELSE NoJob]

LEMMA BootFacts ==
  ASSUME NEW j, BootState(j)
  PROVE  /\ DOMAIN j = All /\ \A t \in All : t # Boot => j[t] = NoJob
         /\ Begun(j[Boot], Boot) /\ j[Boot] # NoJob /\ Head(j[Boot].todo) = ListRows
         /\ \A t \in All : /\ JobTyped(j[t]) /\ InOrder(j[t].kind, j[t].todo) /\ Paired(j[t].todo)
                           /\ \A i \in 1 .. Len(j[t].todo) : Named(j[t].todo[i]) = {}
                           /\ j[t].kind \in {"none"} \union IF t = Boot THEN {Boot} ELSE {}
<1>1. PICK enabled \in BOOLEAN : j = [t \in All |-> IF t = Boot THEN BootJob(enabled) ELSE NoJob]
  BY DEF BootState
<1>2. DOMAIN j = All /\ Boot \in All /\ j[Boot] = BootJob(enabled) /\ \A t \in All : t # Boot => j[t] = NoJob
  BY <1>1 DEF All
<1>3. Begun(j[Boot], Boot) /\ j[Boot] # NoJob /\ Head(j[Boot].todo) = ListRows
  BY <1>2, BootBegun
<1>4. ASSUME NEW t \in All
      PROVE  /\ JobTyped(j[t]) /\ InOrder(j[t].kind, j[t].todo) /\ Paired(j[t].todo)
             /\ \A i \in 1 .. Len(j[t].todo) : Named(j[t].todo[i]) = {}
             /\ j[t].kind \in {"none"} \union IF t = Boot THEN {Boot} ELSE {}
  <2>1. CASE t = Boot
    BY <1>3, <2>1, BegunNames DEF Begun
  <2>2. CASE t # Boot
    <3>1. j[t] = NoJob
      BY <1>2, <2>2
    <3>2. \A i \in 1 .. Len(j[t].todo) : FALSE
      BY <3>1, NoJobFacts
    <3> QED
      BY <3>1, <3>2, NoJobFacts
  <2> QED
    BY <2>1, <2>2
<1> QED
  BY <1>2, <1>3, <1>4

LEMMA NoneNamedBy ==
  ASSUME NEW j, \A i \in 1 .. Len(j.todo) : Named(j.todo[i]) = {}
  PROVE  NamedBy(j) = {}
<1>1. ASSUME NEW a \in NamedBy(j) PROVE FALSE
  <2>1. PICK i \in 1 .. Len(j.todo) : a \in Named(j.todo[i])
    BY DEF NamedBy
  <2> QED
    BY <2>1
<1> QED
  BY <1>1

LEMMA RestartDoes ==
  ASSUME Restart
  PROVE  BootState(job') /\ wg' \in BOOLEAN /\ (kernel' = kernel \/ kernel' = {}) /\ UNCHANGED <<rows, fresh>>
BY DEF Restart, BootState, All

LEMMA RestartBase ==
  ASSUME Base, UNCHANGED scope, Restart
  PROVE  Base'
<1>1. BootState(job') /\ wg' \in BOOLEAN /\ (kernel' = kernel \/ kernel' = {}) /\ UNCHANGED <<rows, fresh>>
  BY RestartDoes
<1>2. /\ DOMAIN job' = All
      /\ \A t \in All : /\ JobTyped(job'[t]) /\ InOrder(job'[t].kind, job'[t].todo) /\ Paired(job'[t].todo)
                        /\ \A i \in 1 .. Len(job'[t].todo) : Named(job'[t].todo[i]) = {}
                        /\ job'[t].kind \in {"none"} \union IF t = Boot THEN {Boot} ELSE {}
  BY <1>1, BootFacts
<1>3. Shapes'
  BY <1>2 DEF Shapes, All
<1>4. JobTypes'
  <2>1. \A u \in All : job'[u].kind \in {"none"} \union IF u = Boot THEN {Boot} ELSE scope'[u]
    BY <1>2
  <2>2. JobTypes' <=> /\ DOMAIN job' = All
                      /\ \A u \in All : /\ JobTyped(job'[u])
                                        /\ job'[u].kind \in {"none"} \union IF u = Boot THEN {Boot} ELSE scope'[u]
    BY DEF JobTypes
  <2> QED
    BY <1>2, <2>1, <2>2
<1>5. kernel' \subseteq Entry /\ IsFiniteSet(kernel') /\ Live(kernel') \subseteq Live(kernel)
  BY <1>1, FS_EmptySet DEF Base, Types, Live
<1>6. Mentioned' \subseteq Mentioned
  <2>1. Mentioned' = rows' \union Live(kernel') \union UNION {NamedBy(job'[u]) : u \in All}
    BY DEF Mentioned, Live, RowOf, NamedBy, Named, All
  <2>2. \A u \in All : NamedBy(job'[u]) = {}
    BY <1>2, NoneNamedBy
  <2> QED
    BY <1>1, <1>5, <2>1, <2>2, MentionedFacts
<1>7. OneRow'
  BY <1>1, <1>6 DEF OneRow, Base
<1>8. Types'
  BY <1>1, <1>4, <1>5 DEF Types, Base
<1> QED
  BY <1>3, <1>7, <1>8 DEF Base

LEMMA InitBase ==
  ASSUME Init
  PROVE  Base
<1>1. BootState(job) /\ rows = {} /\ fresh = 0 /\ wg \in BOOLEAN /\ scope \in Scopes
  BY DEF Init, BootState, All
<1>2. /\ DOMAIN job = All
      /\ \A t \in All : /\ JobTyped(job[t]) /\ InOrder(job[t].kind, job[t].todo) /\ Paired(job[t].todo)
                        /\ \A i \in 1 .. Len(job[t].todo) : Named(job[t].todo[i]) = {}
                        /\ job[t].kind \in {"none"} \union IF t = Boot THEN {Boot} ELSE {}
  BY <1>1, BootFacts
<1>3. Shapes
  BY <1>2 DEF Shapes
<1>4. JobTypes
  BY <1>2 DEF JobTypes
<1>5. kernel = {} \/ \E e \in Strays : kernel = {e}
  BY DEF Init
<1>6. kernel \subseteq Entry /\ IsFiniteSet(kernel) /\ \A e \in kernel : e.id = 0
  <2>1. CASE kernel = {}
    BY <2>1, FS_EmptySet
  <2>2. ASSUME NEW e \in Strays, kernel = {e} PROVE kernel \subseteq Entry /\ IsFiniteSet(kernel) /\ \A f \in kernel : f.id = 0
    <3>1. e \in Entry /\ e.id = 0
      BY NetAssumption DEF Entry
    <3> QED
      BY <2>2, <3>1, FS_Singleton
  <2> QED
    BY <1>5, <2>1, <2>2
<1>7. \A a \in Mentioned : a.id = 0
  <2>1. \A u \in All : NamedBy(job[u]) = {}
    BY <1>2, NoneNamedBy
  <2>2. \A a \in Live(kernel) : a.id = 0
    BY <1>6 DEF Live, RowOf
  <2> QED
    BY <1>1, <2>1, <2>2 DEF Mentioned
<1>8. OneRow
  BY <1>1, <1>7 DEF OneRow
<1>9. Types
  BY <1>1, <1>4, <1>6, NetAssumption, FS_EmptySet DEF Types
<1> QED
  BY <1>3, <1>8, <1>9 DEF Base

LEMMA StutterBase ==
  ASSUME Base, UNCHANGED vars
  PROVE  Base'
<1>1. UNCHANGED <<rows, kernel, job, wg, fresh, scope>>
  BY DEF vars
<1>2. Types'
  BY <1>1 DEF Base, Types, JobTypes, JobTyped, All
<1>3. OneRow'
  <2>1. Mentioned' = Mentioned
    BY <1>1 DEF Mentioned, NamedBy, Named, Live, RowOf, All
  <2> QED
    BY <1>1, <2>1 DEF Base, OneRow
<1>4. Shapes'
  BY <1>1 DEF Base, Shapes, InOrder, Paired, May, Heads, All
<1> QED
  BY <1>2, <1>3, <1>4 DEF Base

LEMMA BaseNext ==
  ASSUME Base, [Next /\ UNCHANGED scope]_vars
  PROVE  Base'
<1>1. CASE UNCHANGED vars
  BY <1>1, StutterBase
<1>2. ASSUME NEW t \in All, Run(t), UNCHANGED scope PROVE Base'
  BY <1>2, RunBase
<1>3. ASSUME NEW t \in Tasks, Request(t), UNCHANGED scope PROVE Base'
  BY <1>3, RequestBase
<1>4. CASE Restart /\ UNCHANGED scope
  BY <1>4, RestartBase
<1> QED
  BY <1>1, <1>2, <1>3, <1>4 DEF Next, All

(* Every statement that a task still has to make is one of its operation,  *)
(* about its own sources, in an order that the code can have put it; and   *)
(* an id names one row wherever it is mentioned.                           *)
THEOREM BaseAlways == Spec => []Base
<1>1. Init => Base
  BY InitBase
<1>2. Base /\ [Next /\ UNCHANGED scope]_vars => Base'
  BY BaseNext
<1> QED
  BY <1>1, <1>2, PTL DEF Spec

(* The histories.                                                          *)
HistoryTypes == refused \subseteq 1 .. MaxFresh /\ owed \in [All -> SUBSET Row]

LEMMA RememberTypes ==
  ASSUME Base, HistoryTypes, NEW t \in All, Run(t), Remember(t), UNCHANGED scope
  PROVE  HistoryTypes'
<1>1. rows \subseteq Row
  BY NetAssumption DEF Base, Types, Stored, Row
<1>2. UninstallRefused(t) => Stmt(t).row \in Stored
  <2> SUFFICES ASSUME UninstallRefused(t) PROVE Stmt(t).row \in Stored
    OBVIOUS
  <2>1. At(t, "uninstall") /\ Ready(t)
    BY DEF UninstallRefused, Ready
  <2> QED
    BY <2>1, ReadyFacts, StatementOf
<1>3. refused' \subseteq refused \union IF UninstallRefused(t) THEN {Stmt(t).row.id} ELSE {}
  BY DEF Remember, Remaining
<1>4. refused' \subseteq 1 .. MaxFresh
  BY <1>2, <1>3 DEF HistoryTypes, Stored
<1>5. owed' \in [All -> SUBSET Row]
  BY <1>1 DEF Remember, HistoryTypes, All
<1> QED
  BY <1>4, <1>5 DEF HistoryTypes, Row, All

LEMMA HistoryNext ==
  ASSUME Base, HistoryTypes, [Next /\ UNCHANGED scope]_vars
  PROVE  HistoryTypes'
<1>1. CASE UNCHANGED vars
  BY <1>1 DEF vars, HistoryTypes, Row, All
<1>2. ASSUME NEW t \in All, Run(t), Remember(t), UNCHANGED scope PROVE HistoryTypes'
  BY <1>2, RememberTypes
<1>3. ASSUME NEW t \in Tasks, UNCHANGED refused, owed' = [owed EXCEPT ![t] = {}] PROVE HistoryTypes'
  <2>1. owed' \in [All -> SUBSET Row]
    BY <1>3 DEF HistoryTypes, All
  <2> QED
    BY <1>3, <2>1 DEF HistoryTypes, Row, All
<1>4. ASSUME refused' = Remaining(refused), owed' = [t \in Tasks \union {Boot} |-> {}] PROVE HistoryTypes'
  <2>1. owed' \in [All -> SUBSET Row] /\ refused' \subseteq refused
    BY <1>4 DEF Remaining, All
  <2> QED
    BY <2>1 DEF HistoryTypes, Row, All
<1> QED
  BY <1>1, <1>2, <1>3, <1>4 DEF Next, All

(* The ids of refused rules are those of rows, and what is owed are rows.  *)
THEOREM HistoryAlways == Spec => []HistoryTypes
<1>1. Init => HistoryTypes
  BY DEF Init, HistoryTypes, All
<1>2. Base /\ HistoryTypes /\ [Next /\ UNCHANGED scope]_vars => HistoryTypes'
  BY HistoryNext
<1> QED
  BY <1>1, <1>2, BaseAlways, PTL DEF Spec

(* The types, and a rule id that is used once: a tag names one row, and    *)
(* the ids of the rows have been given out.                                *)
THEOREM NetTypes == Spec => []TypeOK
<1>1. Base /\ HistoryTypes => TypeOK
  <2> SUFFICES ASSUME Base, HistoryTypes PROVE TypeOK
    OBVIOUS
  <2>1. Types /\ OneRow /\ JobTypes
    BY DEF Base, Types
  <2>2. fresh \in Nat /\ MaxFresh \in Nat
    BY <2>1, NetAssumption DEF Types
  <2>3. Stored \subseteq Row
    BY <2>2 DEF Stored, Row
  <2>4. ASSUME NEW t \in All
        PROVE  /\ job[t].kind \in {"none"} \union IF t = Boot THEN {Boot} ELSE scope[t]
               /\ job[t].clean \in BOOLEAN /\ job[t].dropped \in BOOLEAN /\ job[t].prune \in BOOLEAN
               /\ job[t].desired \subseteq Keys
    BY <2>1, <2>4 DEF JobTypes, JobTyped
  <2>5. \A r, s \in rows : r.id = s.id => r = s
    BY <2>1, MentionedFacts, StoredId, SameRow DEF Types
  <2>6. \A r \in rows : r.id \in 1 .. fresh
    <3>1. ASSUME NEW r \in rows PROVE r.id \in 1 .. fresh
      <4>1. r.id \in 0 .. fresh /\ r.id # 0 /\ r.id \in Nat
        BY <2>1, MentionedFacts, StoredId DEF OneRow, Types
      <4> QED
        BY <2>2, <4>1
    <3> QED
      BY <3>1
  <2> QED
    BY <2>1, <2>3, <2>4, <2>5, <2>6 DEF TypeOK, Types, HistoryTypes, All
<1> QED
  BY <1>1, BaseAlways, HistoryAlways, PTL

(* What a task changes in the table and in the kernel belongs to its own   *)
(* sources, whatever it interleaves with: remove_by_source, the id and     *)
(* source of remove_one_by_id, and the control poller's own rows.          *)
THEOREM BoundaryKept == Spec => SourceBoundary
<1> DEFINE Kept == \A t \in All : job'[t] # job[t] /\ ~Restarts => Bounded(t)
<1>1. ASSUME Base, [Next /\ UNCHANGED scope]_vars PROVE [Kept]_vars
  <2>1. CASE UNCHANGED vars
    BY <2>1
  <2>2. ASSUME NEW u \in All, Bounded(u), \A t \in All : t # u => job'[t] = job[t] PROVE Kept
    BY <2>2
  <2>3. ASSUME NEW t \in All, Run(t), UNCHANGED scope PROVE Kept
    BY <1>1, <2>2, <2>3, RunBase
  <2>4. ASSUME NEW t \in Tasks, Request(t), UNCHANGED scope PROVE Kept
    BY <1>1, <2>2, <2>4, RequestBase DEF All
  <2>5. CASE Restart
    <3>1. Restarts
      BY <2>5, RestartDoes, BootFacts DEF Restarts
    <3> QED
      BY <3>1
  <2> QED
    BY <1>1, <2>1, <2>3, <2>4, <2>5 DEF Next, All
<1>2. Kept <=> \A t \in Tasks \union {Boot} : job'[t] # job[t] /\ ~Restarts =>
       /\ \A r \in Difference(rows, rows') : r.src \in SourceOf(job[t].kind)
       /\ \A r \in Difference(Live(kernel), Live(kernel')) : r.src \in RuleSourceOf(job[t].kind)
  BY DEF Bounded, All
<1> QED
  BY <1>1, <1>2, BaseAlways, PTL DEF Spec, SourceBoundary
-----------------------------------------------------------------------------
(* Operations of disjoint sources side by side: what one takes for granted *)
(* the others leave alone.                                                 *)
LEMMA OthersApart ==
  ASSUME Disjoint, NEW t \in All, NEW u \in All, t # u, Bounded(t)
  PROVE  /\ \A r : r.src \in RuleSourceOf(job[u].kind) =>
              (r \in rows <=> r \in rows') /\ (r \in Live(kernel) <=> r \in Live(kernel'))
         /\ job[u].kind \in {"reconcile", Boot} => rows' = rows /\ Live(kernel') = Live(kernel)
<1>1. RuleSourceOf(job[t].kind) \intersect RuleSourceOf(job[u].kind) = {}
  BY DEF Disjoint
<1>2. SourceOf(job[t].kind) \subseteq RuleSourceOf(job[t].kind) /\ RuleSourceOf(job[t].kind) \subseteq Sources
  BY SourcesOf
<1>3. \A r \in Difference(rows, rows') : r.src \in RuleSourceOf(job[t].kind)
  BY <1>2 DEF Bounded
<1>4. \A r \in Difference(Live(kernel), Live(kernel')) : r.src \in RuleSourceOf(job[t].kind)
  BY DEF Bounded
<1>5. ASSUME NEW r, r.src \in RuleSourceOf(job[u].kind)
      PROVE  (r \in rows <=> r \in rows') /\ (r \in Live(kernel) <=> r \in Live(kernel'))
  BY <1>1, <1>3, <1>4, <1>5 DEF Difference
<1>6. ASSUME job[u].kind \in {"reconcile", Boot} PROVE rows' = rows /\ Live(kernel') = Live(kernel)
  <2>1. RuleSourceOf(job[t].kind) = {}
    BY <1>1, <1>2, <1>6, SourceFacts
  <2>2. Difference(rows, rows') = {} /\ Difference(Live(kernel), Live(kernel')) = {}
    BY <1>3, <1>4, <2>1
  <2> QED
    BY <2>2 DEF Difference
<1> QED
  BY <1>5, <1>6

(* What -D was refused for is remembered while the rule is there.          *)
Recalled == \A r \in Live(kernel') : r.id \in refused => r.id \in refused'

LEMMA RecalledFacts ==
  ASSUME NEW t, Remember(t)
  PROVE  /\ Recalled
         /\ UninstallRefused(t) => \A r \in Live(kernel') : r.id = Stmt(t).row.id => r.id \in refused'
<1>1. \A r \in Live(kernel') : \E e \in kernel' : e.id = r.id
  BY DEF Live, RowOf
<1>2. refused' = Remaining(refused \union IF UninstallRefused(t) THEN {Stmt(t).row.id} ELSE {})
  BY DEF Remember
<1> QED
  BY <1>1, <1>2 DEF Remaining, Recalled

LEMMA FirmOther ==
  ASSUME Base, Disjoint, Recalled, NEW t \in All, NEW u \in All, t # u, Bounded(t), job'[u] = job[u],
         Firm(job[u], rows, Live(kernel), refused)
  PROVE  Firm(job'[u], rows', Live(kernel'), refused')
<1> DEFINE kind == job[u].kind
           todo == job[u].todo
<1>1. /\ \A r : r.src \in RuleSourceOf(kind) => (r \in rows <=> r \in rows') /\ (r \in Live(kernel) <=> r \in Live(kernel'))
      /\ kind \in {"reconcile", Boot} => rows' = rows /\ Live(kernel') = Live(kernel)
  BY OthersApart
<1>2. todo \in Seq(Statement(kind))
  BY DEF Base, Types, JobTypes, JobTyped
<1>3. \A i \in 1 .. Len(todo) : todo[i] \in Statement(kind)
  BY <1>2
<1>4. SourceOf(kind) \subseteq RuleSourceOf(kind)
  BY SourcesOf
<1>5. ASSUME NEW i \in 1 .. Len(todo) PROVE FirmStatement(todo[i], rows', Live(kernel'))
  <2>1. FirmStatement(todo[i], rows, Live(kernel)) /\ todo[i] \in Statement(kind)
    BY <1>3 DEF Firm
  <2>2. ASSUME todo[i].do \in {"append", "rollback"}
        PROVE  todo[i].row \in rows' /\ todo[i].row \notin Live(kernel')
    <3>1. todo[i].row.src \in RuleSourceOf(kind)
      BY <1>4, <2>1, <2>2, StatementOf
    <3> QED
      BY <1>1, <2>1, <2>2, <3>1 DEF FirmStatement
  <2>3. ASSUME todo[i].do \in {"reinsert", "listlive"} PROVE FirmStatement(todo[i], rows', Live(kernel'))
    <3>1. kind \in {"reconcile", Boot}
      BY <2>1, <2>3, StatementOf
    <3> QED
      BY <1>1, <2>1, <3>1
  <2> QED
    BY <2>1, <2>2, <2>3 DEF FirmStatement
<1>6. ASSUME 1 \in 1 .. Len(todo), todo[1].do = "delete"
      PROVE  todo[1].row \notin Live(kernel') \/ todo[1].row.id \in refused'
  <2>1. todo[1].row.src \in RuleSourceOf(kind)
    BY <1>3, <1>4, <1>6, StatementOf
  <2>2. todo[1].row \notin Live(kernel) \/ todo[1].row.id \in refused
    BY <1>6 DEF Firm
  <2> QED
    BY <1>1, <2>1, <2>2 DEF Recalled
<1> QED
  BY <1>5, <1>6 DEF Firm

LEMMA FirmNoJob ==
  ASSUME NEW R, NEW L, NEW X
  PROVE  Firm(NoJob, R, L, X)
BY NoJobFacts DEF Firm

(* Statements that take nothing for granted.                               *)
Plain(s) == s.do \in {"insert", "get", "bysource", "listrows", "match", "report", "uninstall", "delete"}
LEMMA PlainFirm ==
  ASSUME NEW s, Plain(s), NEW R, NEW L
  PROVE  FirmStatement(s, R, L)
BY DEF Plain, FirmStatement

LEMMA FailsFirm ==
  ASSUME NEW t, Fails(t), NEW R, NEW L, NEW X
  PROVE  Firm(job'[t], R, L, X)
BY DEF Fails, Firm, FirmStatement

(* The rest of the list behind the first statement is as firm as before;   *)
(* what replaces that statement has to be shown.                           *)
LEMMA FirmReplaced ==
  ASSUME NEW t, Ready(t), NEW do, At(t, do), NEW s, NEW c, Replaces(t, s, c), NEW R, NEW L, NEW X,
         Firm(job[t], rows, Live(kernel), refused),
         \A n \in 1 .. Len(s) : FirmStatement(s[n], R, L),
         1 \in 1 .. Len(s) => s[1].do # "delete",
         do = "uninstall" => Stmt(t).row \notin L \/ Stmt(t).row.id \in X,
         do = "reinsert" => rows = R /\ \A r \in L : r \in Live(kernel) \/ r = Stmt(t).row
  PROVE  Firm(job'[t], R, L, X)
<1> DEFINE todo == job[t].todo
           new  == job'[t].todo
<1>1. /\ Stmt(t).do = do /\ Stmt(t) = todo[1] /\ \A k \in 2 .. Len(todo) : May(job[t].kind, Stmt(t), todo[k])
      /\ Runs(t)
  BY ReadyFacts
<1>2. Len(todo) \in Nat
  BY <1>1, StmtFacts
<1>3. ASSUME NEW k \in 2 .. Len(todo) PROVE FirmStatement(todo[k], R, L)
  <2>1. May(job[t].kind, Stmt(t), todo[k])
    BY <1>1
  <2>2. FirmStatement(todo[k], rows, Live(kernel))
    <3>1. k \in 1 .. Len(todo)
      BY <1>2
    <3> QED
      BY <3>1 DEF Firm
  <2>3. todo[k].do \notin {"append", "rollback", "listlive"}
    BY <2>1 DEF May, Heads
  <2>4. ASSUME todo[k].do = "reinsert" PROVE todo[k].row \in R /\ todo[k].row \notin L
    <3>1. Stmt(t).do = "reinsert" /\ Stmt(t).row # todo[k].row
      BY <2>1, <2>4 DEF May
    <3> QED
      BY <1>1, <2>2, <2>4, <3>1 DEF FirmStatement
  <2> QED
    BY <2>2, <2>3, <2>4 DEF FirmStatement
<1>4. \A i \in 1 .. Len(new) : FirmStatement(new[i], R, L)
  BY <1>3 DEF Replaces
<1>5. ASSUME 1 \in 1 .. Len(new), new[1].do = "delete" PROVE new[1].row \notin L \/ new[1].row.id \in X
  <2>1. todo[1] = OnRow("uninstall", new[1].row)
    BY <1>5 DEF Replaces
  <2>2. do = "uninstall" /\ Stmt(t).row = new[1].row
    BY <1>1, <2>1, OnRowFields
  <2> QED
    BY <2>2
<1> QED
  BY <1>4, <1>5 DEF Firm
-----------------------------------------------------------------------------
(* Every rule of the kernel that was not refused -D has its row.           *)
HasRow(R, L, X) == \A r \in L : r.id # 0 => r \in R \/ r.id \in X

LEMMA HasRowFacts ==
  /\ Accounted <=> HasRow(rows, Live(kernel), refused)
  /\ Accounted' <=> HasRow(rows', Live(kernel'), refused')
<1>1. \A e : RowOf(e).id = e.id
  BY DEF RowOf
<1>2. Accounted <=> HasRow(rows, Live(kernel), refused)
  BY <1>1 DEF Accounted, HasRow, Live
<1>3. Accounted' <=> HasRow(rows', Live(kernel'), refused')
  <2>1. Accounted' <=> \A e \in kernel' : e.id # 0 => RowOf(e) \in rows' \/ e.id \in refused'
    BY DEF Accounted, RowOf
  <2> QED
    BY <1>1, <2>1 DEF HasRow, Live
<1> QED
  BY <1>2, <1>3

(* What a task may count on before a step, and what the step leaves.       *)
SafeFor(t) ==
  /\ Ready(t) /\ Recalled /\ OneEntry
  /\ HasRow(rows, Live(kernel), refused) /\ Firm(job[t], rows, Live(kernel), refused)
SafeAfter(t) ==
  OneEntry' /\ HasRow(rows', Live(kernel'), refused') /\ Firm(job'[t], rows', Live(kernel'), refused')

LEMMA HasRowLess ==
  ASSUME Recalled, HasRow(rows, Live(kernel), refused), rows \subseteq rows', Live(kernel') \subseteq Live(kernel)
  PROVE  HasRow(rows', Live(kernel'), refused')
BY DEF HasRow, Recalled

LEMMA FirmFirst ==
  ASSUME NEW t, SafeFor(t), NEW do, At(t, do)
  PROVE  /\ do \in {"append", "rollback", "reinsert"} => Stmt(t).row \in rows /\ Stmt(t).row \notin Live(kernel)
         /\ do = "delete" => Stmt(t).row \notin Live(kernel) \/ Stmt(t).row.id \in refused
         /\ do = "listlive" => Stmt(t).rows = rows
<1>1. Stmt(t).do = do /\ Stmt(t) = job[t].todo[1] /\ 1 \in 1 .. Len(job[t].todo)
  BY ReadyFacts DEF SafeFor
<1> QED
  BY <1>1 DEF SafeFor, Firm, FirmStatement

LEMMA InsertSafe ==
  ASSUME NEW t, SafeFor(t), InsertRow(t)
  PROVE  SafeAfter(t)
<1> DEFINE row == [id |-> fresh + 1, src |-> Stmt(t).src, key |-> Stmt(t).key]
           s   == <<OnRow("append", row)>>
<1>1. Ready(t) /\ At(t, "insert") /\ "insert" # "uninstall" /\ "insert" # "reinsert"
  BY DEF SafeFor, InsertRow
<1>2. row \in Stored /\ rows' = rows \union {row} /\ UNCHANGED <<kernel, wg>> /\ Replaces(t, s, TRUE)
  BY <1>1, InsertDoes
<1>3. row.id = fresh + 1
  OBVIOUS
<1>4. \A n \in 1 .. Len(s) : s[n] = OnRow("append", row)
  OBVIOUS
<1> HIDE DEF row, s
<1>5. row \in rows' /\ row \notin Live(kernel')
  <2>1. fresh \in Nat /\ \A a \in Mentioned : a.id \in 0 .. fresh
    BY <1>1, NetAssumption DEF Ready, Base, Types, OneRow
  <2>2. row \notin Mentioned
    BY <1>3, <2>1
  <2> QED
    BY <1>2, <2>2, MentionedFacts
<1>6. \A n \in 1 .. Len(s) : FirmStatement(s[n], rows', Live(kernel'))
  BY <1>4, <1>5, OnRowFields DEF FirmStatement
<1>7. 1 \in 1 .. Len(s) => s[1].do # "delete"
  BY <1>4, OnRowFields
<1>8. Firm(job'[t], rows', Live(kernel'), refused')
  BY <1>1, <1>2, <1>6, <1>7, FirmReplaced DEF SafeFor
<1>9. OneEntry' /\ HasRow(rows', Live(kernel'), refused')
  BY <1>2, HasRowLess DEF SafeFor, OneEntry
<1> QED
  BY <1>8, <1>9 DEF SafeAfter

LEMMA EmptyFirm ==
  ASSUME NEW t, SafeFor(t), NEW do, At(t, do), Replaces(t, <<>>, TRUE),
         do = "uninstall" => Stmt(t).row \notin Live(kernel') \/ Stmt(t).row.id \in refused',
         do = "reinsert" => rows' = rows /\ \A r \in Live(kernel') : r \in Live(kernel) \/ r = Stmt(t).row
  PROVE  Firm(job'[t], rows', Live(kernel'), refused')
<1> DEFINE s == <<>>
<1>1. Len(s) = 0
  OBVIOUS
<1>2. Replaces(t, s, TRUE)
  OBVIOUS
<1> HIDE DEF s
<1>3. /\ \A n \in 1 .. Len(s) : FirmStatement(s[n], rows', Live(kernel'))
      /\ 1 \in 1 .. Len(s) => s[1].do # "delete"
  BY <1>1
<1> QED
  BY <1>2, <1>3, FirmReplaced DEF SafeFor

LEMMA AppendSafe ==
  ASSUME NEW t, SafeFor(t), InstallRule(t) \/ Reinsert(t)
  PROVE  SafeAfter(t)
<1> DEFINE row == Stmt(t).row
<1>1. PICK do \in {"append", "reinsert"} : At(t, do)
  BY DEF InstallRule, Reinsert
<1>2. /\ Replaces(t, <<>>, TRUE) /\ UNCHANGED <<rows, wg, fresh>>
      /\ row \in Stored /\ AppendRule(row) /\ row \in Mentioned
  BY AppendDoes DEF SafeFor
<1>3. row \in rows /\ row \notin Live(kernel)
  BY <1>1, FirmFirst
<1>4. kernel \subseteq Entry /\ IsFiniteSet(kernel) /\ OneRow /\ OneEntry
  BY DEF SafeFor, Ready, Base, Types
<1> HIDE DEF row
<1>5. \A r \in Live(kernel) : r.id # row.id
  BY <1>2, <1>3, <1>4, SameRow, StoredId, MentionedFacts
<1>6. Live(kernel') = Live(kernel) \union {row} /\ OneEntry'
  BY <1>2, <1>4, <1>5, AppendEffect
<1>7. HasRow(rows', Live(kernel'), refused')
  BY <1>2, <1>3, <1>6 DEF SafeFor, HasRow, Recalled
<1>8. Firm(job'[t], rows', Live(kernel'), refused')
  <2>1. do # "uninstall" /\ rows' = rows /\ \A r \in Live(kernel') : r \in Live(kernel) \/ r = Stmt(t).row
    BY <1>1, <1>2, <1>6 DEF row
  <2> QED
    BY <1>1, <1>2, <2>1, EmptyFirm
<1> QED
  BY <1>6, <1>7, <1>8 DEF SafeAfter

LEMMA DeleteSafe ==
  ASSUME NEW t, SafeFor(t), Uninstall(t) \/ Prune(t)
  PROVE  SafeAfter(t)
<1> DEFINE row == Stmt(t).row
<1>1. PICK do \in {"uninstall", "prune"} : At(t, do) /\ Stmt(t).do = do
  BY DEF Uninstall, Prune, At, Stmt
<1>2. /\ Replaces(t, <<>>, TRUE) /\ UNCHANGED <<rows, wg, fresh>>
      /\ DeleteRule(row) \/ (Stmt(t).do = "prune" /\ UNCHANGED kernel)
  BY DeleteDoes DEF SafeFor
<1>3. kernel \subseteq Entry /\ IsFiniteSet(kernel) /\ OneEntry
  BY DEF SafeFor, Ready, Base, Types
<1> HIDE DEF row
<1>4. /\ Live(kernel') \subseteq Live(kernel) /\ OneEntry'
      /\ do = "uninstall" => row \notin Live(kernel')
  <2>1. CASE DeleteRule(row)
    BY <1>3, <2>1, DeleteEffect
  <2>2. CASE do = "prune" /\ UNCHANGED kernel
    BY <1>3, <2>2 DEF OneEntry
  <2> QED
    BY <1>1, <1>2, <2>1, <2>2
<1>5. HasRow(rows', Live(kernel'), refused')
  BY <1>2, <1>4, HasRowLess DEF SafeFor
<1>6. Firm(job'[t], rows', Live(kernel'), refused')
  <2>1. do # "reinsert" /\ (do = "uninstall" => Stmt(t).row \notin Live(kernel'))
    BY <1>1, <1>4 DEF row
  <2> QED
    BY <1>1, <1>2, <2>1, EmptyFirm
<1> QED
  BY <1>4, <1>5, <1>6 DEF SafeAfter

LEMMA DeleteRowSafe ==
  ASSUME NEW t, SafeFor(t), DeleteRow(t) \/ Rollback(t)
  PROVE  SafeAfter(t)
<1> DEFINE row == Stmt(t).row
<1>1. PICK do \in {"delete", "rollback"} : At(t, do)
  BY DEF DeleteRow, Rollback
<1>2. /\ UNCHANGED <<kernel, wg, fresh>> /\ (rows' = rows \ {row} \/ UNCHANGED rows)
      /\ Replaces(t, <<>>, TRUE) \/ Fails(t)
  BY DeleteRowDoes, RollbackDoes DEF SafeFor
<1>3. row \notin Live(kernel) \/ row.id \in refused
  BY <1>1, FirmFirst
<1> HIDE DEF row
<1>4. OneEntry' /\ HasRow(rows', Live(kernel'), refused')
  BY <1>2, <1>3 DEF SafeFor, OneEntry, HasRow, Recalled
<1>5. ASSUME Replaces(t, <<>>, TRUE) PROVE Firm(job'[t], rows', Live(kernel'), refused')
  <2>1. do # "uninstall" /\ do # "reinsert"
    BY <1>1
  <2> QED
    BY <1>1, <1>5, <2>1, EmptyFirm
<1>6. ASSUME Fails(t) PROVE Firm(job'[t], rows', Live(kernel'), refused')
  BY <1>6, FailsFirm
<1> QED
  BY <1>2, <1>4, <1>5, <1>6 DEF SafeAfter

LEMMA InstallFailsSafe ==
  ASSUME NEW t, SafeFor(t), InstallFails(t)
  PROVE  SafeAfter(t)
<1>1. \A i \in 1 .. Len(job'[t].todo) : job'[t].todo[i] = OnRow("rollback", Stmt(t).row)
  BY InstallFailsDoes DEF SafeFor
<1>2. At(t, "append") /\ UNCHANGED <<rows, kernel>>
  BY DEF InstallFails
<1>3. Stmt(t).row \in rows /\ Stmt(t).row \notin Live(kernel)
  BY <1>2, FirmFirst
<1>4. FirmStatement(OnRow("rollback", Stmt(t).row), rows', Live(kernel'))
  BY <1>2, <1>3, OnRowFields DEF FirmStatement
<1>5. Firm(job'[t], rows', Live(kernel'), refused')
  BY <1>1, <1>4, OnRowFields DEF Firm
<1> QED
  BY <1>2, <1>5, HasRowLess DEF SafeAfter, SafeFor, OneEntry

LEMMA UninstallsPlain ==
  ASSUME NEW S, NEW list \in Seq(S), NEW s, s = Uninstalls(list)
  PROVE  (\A i \in 1 .. Len(s) : Plain(s[i])) /\ (1 \in 1 .. Len(s) => s[1].do # "delete")
<1>1. /\ \A i \in 1 .. Len(s) : \E n \in 1 .. Len(list) :
           s[i] = OnRow("uninstall", list[n]) \/ s[i] = OnRow("delete", list[n])
      /\ Len(s) > 0 => s[1].do = "uninstall"
      /\ Len(s) \in Nat
  BY UninstallsFacts, ZenonT(40)
<1>2. \A i \in 1 .. Len(s) : Plain(s[i])
  BY <1>1, OnRowFields DEF Plain
<1>3. 1 \in 1 .. Len(s) => s[1].do # "delete"
  BY <1>1
<1> QED
  BY <1>2, <1>3

LEMMA UninstallsFirm ==
  ASSUME NEW t, SafeFor(t), NEW do \in {"get", "bysource"}, At(t, do), UNCHANGED <<rows, kernel>>,
         NEW S, NEW list \in Seq(S), Replaces(t, Uninstalls(list), TRUE)
  PROVE  Firm(job'[t], rows', Live(kernel'), refused')
<1>1. PICK s : s = Uninstalls(list)
  OBVIOUS
<1>2. (\A i \in 1 .. Len(s) : Plain(s[i])) /\ (1 \in 1 .. Len(s) => s[1].do # "delete")
  BY <1>1, UninstallsPlain
<1>3. Replaces(t, s, TRUE)
  BY <1>1
<1>4. \A i \in 1 .. Len(s) : FirmStatement(s[i], rows', Live(kernel'))
  BY <1>2, PlainFirm
<1>5. do # "uninstall" /\ do # "reinsert"
  OBVIOUS
<1> QED
  BY <1>2, <1>3, <1>4, <1>5, FirmReplaced DEF SafeFor

LEMMA ReadsSafe ==
  ASSUME NEW t, SafeFor(t), Remember(t), Reads(t) \/ Errs(t)
  PROVE  SafeAfter(t)
<1>1. UNCHANGED <<rows, kernel>> /\ Ready(t)
  BY DEF SafeFor, Reads, Errs, GetRow, ListSource, ReadRows, ReadLive, MatchControl, Return,
         UninstallRefused, RefuseRule, UninstallFails, ReconcileFails
<1>2. OneEntry' /\ HasRow(rows', Live(kernel'), refused')
  BY <1>1, HasRowLess DEF SafeFor, OneEntry
<1> DEFINE Goal == Firm(job'[t], rows', Live(kernel'), refused')
<1>3. ASSUME Fails(t) PROVE Goal
  BY <1>3, FailsFirm
<1>4. ASSUME NEW do, At(t, do), do \notin {"uninstall", "reinsert"}, NEW s, Replaces(t, s, TRUE),
             \A n \in 1 .. Len(s) : FirmStatement(s[n], rows', Live(kernel')) /\ s[n].do # "delete"
      PROVE  Goal
  BY <1>4, FirmReplaced DEF SafeFor
<1>5. ASSUME GetRow(t) PROVE Goal
  <2>1. At(t, "get") /\ "get" \in {"get", "bysource"}
    BY <1>5 DEF GetRow
  <2>2. ASSUME NEW r \in Owned(Stmt(t).id, Stmt(t).src), Replaces(t, Uninstalls(<<r>>), TRUE) PROVE Goal
    <3> DEFINE S == {r}
               list == <<r>>
    <3>1. list \in Seq(S)
      OBVIOUS
    <3>2. list \in Seq(S) /\ Replaces(t, Uninstalls(list), TRUE)
      BY <2>2, <3>1
    <3> HIDE DEF S, list
    <3> QED
      BY <1>1, <2>1, <3>2, UninstallsFirm
  <2> HIDE DEF Goal
  <2> QED
    BY <1>1, <1>3, <1>5, <2>2, GetDoes
<1>6. ASSUME ListSource(t) PROVE Goal
  <2>1. At(t, "bysource") /\ "bysource" \in {"get", "bysource"}
    BY <1>6 DEF ListSource
  <2> DEFINE S == {r \in rows : r.src \in SourceOf(job[t].kind)}
  <2>2. PICK list \in Seq(S) : Replaces(t, Uninstalls(list), TRUE)
    BY <1>1, <1>6, ListSourceDoes
  <2> HIDE DEF S
  <2> QED
    BY <1>1, <2>1, <2>2, UninstallsFirm
<1>7. ASSUME ReadRows(t) PROVE Goal
  <2> DEFINE s == <<ListLive(rows)>>
  <2>1. At(t, "listrows") /\ Replaces(t, s, TRUE)
    BY <1>1, <1>7, ReadRowsDoes DEF ReadRows
  <2>2. FirmStatement(ListLive(rows), rows', Live(kernel')) /\ ListLive(rows).do # "delete"
    BY <1>1 DEF FirmStatement, ListLive
  <2>3. \A n \in 1 .. Len(s) : s[n] = ListLive(rows)
    OBVIOUS
  <2> HIDE DEF s, Goal
  <2>4. \A n \in 1 .. Len(s) : FirmStatement(s[n], rows', Live(kernel')) /\ s[n].do # "delete"
    BY <2>2, <2>3
  <2> QED
    BY <1>4, <2>1, <2>4
<1>8. ASSUME ReadLive(t) PROVE Goal
  <2>1. At(t, "listlive") /\ Stmt(t).rows = rows
    BY <1>8, FirmFirst DEF ReadLive
  <2>2. PICK s : /\ Replaces(t, s, TRUE)
                 /\ \A i \in 1 .. Len(s) :
                      \/ \E r \in Stmt(t).rows : s[i] = OnRow("reinsert", r) /\ ~Installed(kernel, r)
                      \/ \E e \in kernel : s[i] = OnRow("prune", RowOf(e)) /\ \A r \in Stmt(t).rows : r.id # e.id
                      \/ s[i] = Report
    BY <1>1, <1>8, ReadLiveDoes, ZenonT(40)
  <2>3. \A r : ~Installed(kernel, r) => r \notin Live(kernel)
    BY DEF Installed, Live, RowOf
  <2>4. ASSUME NEW i \in 1 .. Len(s) PROVE FirmStatement(s[i], rows', Live(kernel')) /\ s[i].do # "delete"
    <3>1. ASSUME NEW r \in Stmt(t).rows, s[i] = OnRow("reinsert", r), ~Installed(kernel, r)
          PROVE  FirmStatement(s[i], rows', Live(kernel')) /\ s[i].do # "delete"
      <4>1. s[i].do = "reinsert" /\ s[i].row = r /\ r \in rows' /\ r \notin Live(kernel')
        BY <1>1, <2>1, <2>3, <3>1, OnRowFields
      <4> QED
        BY <4>1 DEF FirmStatement
    <3>2. ASSUME NEW e \in kernel, s[i] = OnRow("prune", RowOf(e)), \A r \in Stmt(t).rows : r.id # e.id
          PROVE  FirmStatement(s[i], rows', Live(kernel')) /\ s[i].do # "delete"
      <4>1. s[i].do = "prune"
        BY <3>2, OnRowFields
      <4> QED
        BY <4>1 DEF FirmStatement
    <3>3. ASSUME s[i] = Report PROVE FirmStatement(s[i], rows', Live(kernel')) /\ s[i].do # "delete"
      BY <3>3 DEF Report, FirmStatement
    <3> QED
      BY <2>2, <3>1, <3>2, <3>3
  <2> HIDE DEF Goal
  <2> QED
    BY <1>4, <2>1, <2>2, <2>4
<1>9. ASSUME MatchControl(t) PROVE Goal
  <2>1. At(t, "match")
    BY <1>9 DEF MatchControl
  <2>2. ASSUME NEW s, Replaces(t, s, TRUE),
               \A i \in 1 .. Len(s) :
                 \/ \E r \in Removed(job[t]) : s[i] = Get(r.id, "control")
                 \/ \E k \in Wanted(job[t].desired, ControlSet) : s[i] = Insert("control", k)
                 \/ s[i] = Report
        PROVE  Goal
    <3>1. \A id, src, key : Get(id, src).do = "get" /\ Insert(src, key).do = "insert" /\ Report.do = "report"
      BY DEF Get, Insert, Report
    <3>2. ASSUME NEW i \in 1 .. Len(s) PROVE s[i].do \in {"get", "insert", "report"}
      BY <2>2, <3>1
    <3>3. \A i \in 1 .. Len(s) : Plain(s[i]) /\ s[i].do # "delete"
      BY <3>2 DEF Plain
    <3>4. \A i \in 1 .. Len(s) : FirmStatement(s[i], rows', Live(kernel')) /\ s[i].do # "delete"
      BY <3>3, PlainFirm
    <3> HIDE DEF Goal
    <3> QED
      BY <1>4, <2>1, <2>2, <3>4
  <2> HIDE DEF Goal
  <2> QED
    BY <1>1, <1>3, <1>9, <2>2, MatchDoes
<1>10. ASSUME Return(t) PROVE Goal
  <2>1. At(t, "report") /\ Replaces(t, <<>>, TRUE)
    BY <1>1, <1>10, AdvanceDoes DEF Return
  <2>2. "report" # "uninstall" /\ "report" # "reinsert"
    OBVIOUS
  <2> QED
    BY <2>1, <2>2, EmptyFirm
<1>11. ASSUME UninstallRefused(t) PROVE Goal
  <2>1. At(t, "uninstall") /\ Replaces(t, <<>>, TRUE)
    BY <1>1, <1>11, AdvanceDoes DEF UninstallRefused
  <2>2. Stmt(t).row \notin Live(kernel') \/ Stmt(t).row.id \in refused'
    BY <1>11, RecalledFacts
  <2>3. "uninstall" # "reinsert"
    OBVIOUS
  <2> QED
    BY <2>1, <2>2, <2>3, EmptyFirm
<1>12. ASSUME Errs(t) PROVE Goal
  BY <1>1, <1>3, <1>12, ErrsDoes
<1> HIDE DEF Goal
<1>13. Goal
  BY <1>5, <1>6, <1>7, <1>8, <1>9, <1>10, <1>11, <1>12 DEF Reads
<1> QED
  BY <1>2, <1>13 DEF SafeAfter, Goal

LEMMA RunSafe ==
  ASSUME NEW t, SafeFor(t), Remember(t), Run(t)
  PROVE  SafeAfter(t)
BY InsertSafe, AppendSafe, DeleteSafe, DeleteRowSafe, InstallFailsSafe, ReadsSafe DEF Run, Reads, Errs
-----------------------------------------------------------------------------
(* Rules and rows with operations of disjoint sources side by side.        *)
Safe == Base /\ Disjoint /\ OneEntry /\ Accounted /\ AllFirm

LEMMA SafeForEach ==
  ASSUME Safe, Recalled, UNCHANGED scope, NEW t \in All
  PROVE  SafeFor(t)
BY HasRowFacts DEF Safe, SafeFor, Ready, AllFirm

LEMMA DisjointKept ==
  ASSUME Disjoint, NEW t \in All, \A u \in All : u # t => job'[u] = job[u],
         job'[t] = NoJob \/ job'[t].kind = job[t].kind
  PROVE  Disjoint'
<1>1. \A u \in All : RuleSourceOf(job'[u].kind) \subseteq RuleSourceOf(job[u].kind)
  <2>1. ASSUME NEW u \in All PROVE RuleSourceOf(job'[u].kind) \subseteq RuleSourceOf(job[u].kind)
    <3>1. CASE job'[u].kind = job[u].kind
      BY <3>1
    <3>2. CASE job'[u] = NoJob
      BY <3>2, NoJobFacts, SourceFacts
    <3> QED
      BY <3>1, <3>2
  <2> QED
    BY <2>1
<1>2. Disjoint' <=> \A u, v \in All : u # v => RuleSourceOf(job'[u].kind) \intersect RuleSourceOf(job'[v].kind) = {}
  BY DEF Disjoint, RuleSourceOf, SourceOf, All
<1> QED
  BY <1>1, <1>2 DEF Disjoint

LEMMA FirmKept ==
  ASSUME Base, Disjoint, AllFirm, Recalled, NEW t \in All, Bounded(t), \A u \in All : u # t => job'[u] = job[u],
         Firm(job'[t], rows', Live(kernel'), refused')
  PROVE  AllFirm'
<1>1. ASSUME NEW u \in All PROVE Firm(job'[u], rows', Live(kernel'), refused')
  <2>1. CASE u = t
    BY <2>1
  <2>2. CASE u # t
    BY <2>2, FirmOther DEF AllFirm
  <2> QED
    BY <2>1, <2>2
<1>2. AllFirm' <=> \A u \in All : Firm(job'[u], rows', Live(kernel'), refused')
  BY DEF AllFirm, Firm, FirmStatement, Live, RowOf, All
<1> QED
  BY <1>1, <1>2

LEMMA RunMoves ==
  ASSUME NEW t \in All, Base, Run(t), UNCHANGED scope
  PROVE  job'[t] = NoJob \/ job'[t].kind = job[t].kind
<1>1. PICK todo, c : Continue(t, todo, c)
  BY DEF Run, InsertRow, RefuseRule, InstallRule, InstallFails, Rollback, GetRow, ListSource, Uninstall,
         UninstallRefused, UninstallFails, DeleteRow, ReadRows, ReadLive, Reinsert, ReconcileFails, Prune, Return, MatchControl,
         Fail, Expand, Advance
<1>2. DOMAIN job = All /\ "kind" \in DOMAIN job[t]
  BY DEF Base, Types, JobTypes, JobTyped
<1> QED
  BY <1>1, <1>2 DEF Continue

LEMMA RunSafeAll ==
  ASSUME Safe, NEW t \in All, Run(t), Remember(t), UNCHANGED scope
  PROVE  Safe'
<1>1. SafeAfter(t) /\ Recalled
  BY RecalledFacts, SafeForEach, RunSafe
<1>2. Base' /\ Bounded(t) /\ \A u \in All : u # t => job'[u] = job[u]
  BY RunBase DEF Safe
<1>3. Disjoint'
  BY <1>2, RunMoves, DisjointKept DEF Safe
<1>4. AllFirm'
  BY <1>1, <1>2, FirmKept DEF Safe, SafeAfter
<1>5. Accounted'
  BY <1>1, HasRowFacts DEF SafeAfter
<1> QED
  BY <1>1, <1>2, <1>3, <1>4, <1>5 DEF Safe, SafeAfter

LEMMA BegunFirm ==
  ASSUME NEW j, NEW kind, Begun(j, kind), NEW R, NEW L, NEW X
  PROVE  Firm(j, R, L, X)
<1>1. \A i \in 1 .. Len(j.todo) : Plain(j.todo[i]) /\ j.todo[i].do # "delete"
  BY DEF Begun, Plain
<1> QED
  BY <1>1, PlainFirm DEF Firm

LEMMA RequestSafe ==
  ASSUME Separate, Safe, NEW t \in Tasks, Request(t), UNCHANGED <<refused, scope>>
  PROVE  Safe'
<1>1. t \in All /\ t # Boot /\ Base /\ Boot \in All
  BY NetAssumption DEF All, Safe
<1>2. Base' /\ Bounded(t) /\ \A u \in All : u # t => job'[u] = job[u]
  BY <1>1, RequestBase
<1>3. UNCHANGED <<rows, kernel>> /\ Recalled
  <2> SUFFICES UNCHANGED <<rows, kernel>>
    BY DEF Recalled
  <2>1. CASE GiveUp(t)
    BY <1>1, <2>1, GiveUpDoes
  <2>2. CASE ~GiveUp(t)
    BY <1>1, <2>2, StartDoes DEF Request
  <2> QED
    BY <2>1, <2>2
<1>4. Disjoint' /\ Firm(job'[t], rows', Live(kernel'), refused')
  <2>1. CASE GiveUp(t)
    <3>1. job'[t] = NoJob \/ (job'[t].kind = job[t].kind /\ job'[t].todo = job[t].todo)
      BY <1>1, <2>1, GiveUpDoes
    <3>2. Firm(job[t], rows, Live(kernel), refused)
      BY <1>1 DEF Safe, AllFirm
    <3>3. Firm(job'[t], rows', Live(kernel'), refused')
      BY <1>3, <3>1, <3>2, FirmNoJob DEF Firm
    <3> QED
      BY <1>1, <1>2, <3>1, <3>3, DisjointKept DEF Safe
  <2>2. CASE ~GiveUp(t)
    <3>1. Up /\ \E kind \in scope[t] : kind \in AllKinds /\ Begun(job'[t], kind)
      BY <1>1, <2>2, StartDoes DEF Request
    <3>2. PICK kind \in scope[t] : Begun(job'[t], kind)
      BY <3>1
    <3>3. Firm(job'[t], rows', Live(kernel'), refused') /\ job'[t].kind = kind
      BY <3>2, BegunFirm DEF Begun
    <3>4. ASSUME NEW u \in All, u # t PROVE RuleSourceOf(job'[u].kind) \intersect RuleSourceOf(kind) = {}
      <4>1. job'[u] = job[u]
        BY <1>2, <3>4
      <4>2. CASE job[u].kind = "none"
        BY <4>1, <4>2, SourceFacts
      <4>3. CASE job[u].kind # "none"
        <5>1. u # Boot
          BY <3>1, <4>3, NoJobFacts DEF Up, Idle
        <5>2. u \in Tasks /\ job[u].kind \in scope[u]
          BY <1>1, <3>4, <4>3, <5>1 DEF Base, Types, JobTypes, All
        <5> QED
          BY <3>2, <3>4, <4>1, <5>2 DEF Separate
      <4> QED
        BY <4>2, <4>3
    <3>5. \A u, v \in All : u # v => RuleSourceOf(job'[u].kind) \intersect RuleSourceOf(job'[v].kind) = {}
      <4>1. ASSUME NEW u \in All, NEW v \in All, u # v
            PROVE  RuleSourceOf(job'[u].kind) \intersect RuleSourceOf(job'[v].kind) = {}
        <5>1. CASE u = t \/ v = t
          BY <3>3, <3>4, <4>1, <5>1
        <5>2. CASE u # t /\ v # t
          BY <1>2, <4>1, <5>2 DEF Safe, Disjoint
        <5> QED
          BY <5>1, <5>2
      <4> QED
        BY <4>1
    <3>6. Disjoint'
      BY <3>5 DEF Disjoint, RuleSourceOf, SourceOf, All
    <3> QED
      BY <3>3, <3>6
  <2> QED
    BY <2>1, <2>2
<1>5. AllFirm'
  BY <1>1, <1>2, <1>3, <1>4, FirmKept DEF Safe
<1>6. OneEntry' /\ Accounted'
  BY <1>3 DEF Safe, OneEntry, Accounted, RowOf
<1> QED
  BY <1>2, <1>4, <1>5, <1>6 DEF Safe

(* After a start of the process only the boot has statements to run.       *)
LEMMA BootSafe ==
  ASSUME NEW j, BootState(j)
  PROVE  /\ \A t, u \in All : t # u => RuleSourceOf(j[t].kind) \intersect RuleSourceOf(j[u].kind) = {}
         /\ \A t \in All : \A R, L, X : Firm(j[t], R, L, X)
<1>1. Begun(j[Boot], Boot) /\ \A t \in All : t # Boot => j[t] = NoJob
  BY BootFacts
<1>2. \A t \in All : t # Boot => RuleSourceOf(j[t].kind) = {}
  BY <1>1, NoJobFacts, SourceFacts
<1>3. \A t \in All : \A R, L, X : Firm(j[t], R, L, X)
  BY <1>1, BegunFirm, FirmNoJob
<1> QED
  BY <1>2, <1>3

LEMMA RestartSafe ==
  ASSUME Safe, Restart, refused' = Remaining(refused), UNCHANGED scope
  PROVE  Safe'
<1>1. BootState(job') /\ (kernel' = kernel \/ kernel' = {}) /\ UNCHANGED rows
  BY RestartDoes
<1>2. Base'
  BY RestartBase DEF Safe
<1>3. Disjoint'
  BY <1>1, BootSafe DEF Disjoint, RuleSourceOf, SourceOf, All
<1>4. AllFirm'
  <2>1. AllFirm' <=> \A u \in All : Firm(job'[u], rows', Live(kernel'), refused')
    BY DEF AllFirm, Firm, FirmStatement, Live, RowOf, All
  <2> QED
    BY <1>1, <2>1, BootSafe
<1>5. OneEntry' /\ Accounted'
  BY <1>1 DEF Safe, OneEntry, Accounted, Remaining, RowOf
<1> QED
  BY <1>2, <1>3, <1>4, <1>5 DEF Safe

LEMMA InitSafe ==
  ASSUME Init
  PROVE  Safe
<1>1. BootState(job) /\ rows = {} /\ (kernel = {} \/ \E e \in Strays : kernel = {e})
  BY DEF Init, BootState, All
<1>2. Disjoint /\ AllFirm
  BY <1>1, BootSafe DEF Disjoint, AllFirm
<1>3. OneEntry /\ Accounted
  BY <1>1, NetAssumption DEF OneEntry, Accounted
<1> QED
  BY <1>2, <1>3, InitBase DEF Safe

LEMMA StutterSafe ==
  ASSUME Safe, UNCHANGED vars
  PROVE  Safe'
<1>1. Base'
  BY StutterBase DEF Safe
<1>2. UNCHANGED <<rows, kernel, job, refused>>
  BY DEF vars
<1>3. Disjoint' /\ OneEntry' /\ Accounted'
  BY <1>2 DEF Safe, Disjoint, RuleSourceOf, SourceOf, OneEntry, Accounted, RowOf, All
<1>4. AllFirm'
  BY <1>2 DEF Safe, AllFirm, Firm, FirmStatement, Live, RowOf, All
<1> QED
  BY <1>1, <1>2, <1>3, <1>4 DEF Safe

LEMMA SafeNext ==
  ASSUME Separate, Safe, [Next /\ UNCHANGED scope]_vars
  PROVE  Safe'
<1>1. CASE UNCHANGED vars
  BY <1>1, StutterSafe
<1>2. ASSUME NEW t \in All, Run(t), Remember(t), UNCHANGED scope PROVE Safe'
  BY <1>2, RunSafeAll
<1>3. ASSUME NEW t \in Tasks, Request(t), UNCHANGED <<refused, scope>> PROVE Safe'
  BY <1>3, RequestSafe
<1>4. CASE Restart /\ refused' = Remaining(refused) /\ UNCHANGED scope
  BY <1>4, RestartSafe
<1> QED
  BY <1>1, <1>2, <1>3, <1>4 DEF Next, All

(* While no two tasks have to do with one source: a rule is in the kernel  *)
(* once and has its row, unless -D was refused for it, and what a task is  *)
(* about to append, roll back or put back has its row and is not in the    *)
(* kernel.                                                                 *)
THEOREM SafeAlways == Spec => [](Separate => Safe)
<1>1. Init => (Separate => Safe)
  BY InitSafe
<1>2. (Separate => Safe) /\ [Next /\ UNCHANGED scope]_vars => (Separate => Safe)'
  <2>1. ASSUME [Next /\ UNCHANGED scope]_vars PROVE Separate' <=> Separate
    <3>1. UNCHANGED scope
      BY <2>1 DEF vars
    <3> QED
      BY <3>1 DEF Separate, RuleSourceOf, SourceOf
  <2> QED
    BY <2>1, SafeNext
<1> QED
  BY <1>1, <1>2, PTL DEF Spec

(* A rule of this installation outlives its row only where iptables has    *)
(* refused -D for it, wherever a task is dropped, an iptables call fails   *)
(* or the process dies, as long as no two of the operations that run       *)
(* together have to do with one source.                                    *)
THEOREM RulesHaveRows == Spec => []RuleHasRow
<1>1. (Separate => Safe) => RuleHasRow
  BY DEF Safe, RuleHasRow
<1> QED
  BY <1>1, SafeAlways, PTL
-----------------------------------------------------------------------------
(* The report of a reconcile.                                              *)
LEMMA HasKept ==
  ASSUME NEW t, Ready(t), NEW do, At(t, do), NEW s, NEW c, Replaces(t, s, c)
  PROVE  /\ \A x : Has(job[t], x) /\ x # Stmt(t) /\ job'[t] # NoJob => Has(job'[t], x)
         /\ \A x : Has(job'[t], x) =>
              \/ \E n \in 1 .. Len(s) : s[n] = x
              \/ Has(job[t], x) /\ May(job[t].kind, Stmt(t), x)
         /\ job'[t] # NoJob => \A n \in 1 .. Len(s) : Has(job'[t], s[n])
<1>1. /\ Runs(t) /\ Stmt(t) = job[t].todo[1]
      /\ \A k \in 2 .. Len(job[t].todo) : May(job[t].kind, Stmt(t), job[t].todo[k])
  BY ReadyFacts
<1>2. Len(job[t].todo) \in Nat
  BY <1>1, StmtFacts
<1>3. ASSUME NEW x, Has(job[t], x), x # Stmt(t), job'[t] # NoJob PROVE Has(job'[t], x)
  <2>1. PICK i \in 1 .. Len(job[t].todo) : job[t].todo[i] = x
    BY <1>3 DEF Has
  <2>2. i \in 2 .. Len(job[t].todo)
    BY <1>1, <1>2, <1>3, <2>1
  <2> QED
    BY <1>3, <2>1, <2>2 DEF Replaces
<1>4. ASSUME NEW x, Has(job'[t], x)
      PROVE  (\E n \in 1 .. Len(s) : s[n] = x) \/ (Has(job[t], x) /\ May(job[t].kind, Stmt(t), x))
  <2>1. PICK i \in 1 .. Len(job'[t].todo) : job'[t].todo[i] = x
    BY <1>4 DEF Has
  <2>2. CASE \E n \in 1 .. Len(s) : job'[t].todo[i] = s[n]
    BY <2>1, <2>2
  <2>3. ASSUME NEW k \in 2 .. Len(job[t].todo), job'[t].todo[i] = job[t].todo[k]
        PROVE  Has(job[t], x) /\ May(job[t].kind, Stmt(t), x)
    <3>1. k \in 1 .. Len(job[t].todo)
      BY <1>2
    <3> QED
      BY <1>1, <2>1, <2>3, <3>1 DEF Has
  <2> QED
    BY <2>2, <2>3 DEF Replaces
<1> QED
  BY <1>3, <1>4 DEF Replaces

(* A task keeps what it owes when it moves on with statements that neither *)
(* list the live rules nor prune, and has no report behind it.             *)
LEMMA AnswersKept ==
  ASSUME NEW t, Ready(t), NEW do, At(t, do), NEW s, NEW c, Replaces(t, s, c),
         NEW O, Answers(job[t], O), \A n \in 1 .. Len(s) : Answering(s[n], O)
  PROVE  Answers(job'[t], O)
<1>1. /\ Stmt(t) = job[t].todo[1] /\ Runs(t)
      /\ \A k \in 2 .. Len(job[t].todo) : May(job[t].kind, Stmt(t), job[t].todo[k])
  BY ReadyFacts
<1>2. Len(job[t].todo) \in Nat
  BY <1>1, StmtFacts
<1>3. \A k \in 2 .. Len(job[t].todo) : k \in 1 .. Len(job[t].todo)
  BY <1>2
<1> QED
  BY <1>3 DEF Replaces, Answers

LEMMA Quiet ==
  ASSUME NEW s, s.do \notin {"listlive", "prune"}, NEW O
  PROVE  Answering(s, O)
BY DEF Answering

(* Nothing but a reconcile that puts back or prunes has a report behind it.*)
LEMMA ReportBehind ==
  ASSUME NEW t, Ready(t), NEW do, At(t, do), job[t].kind \in {"reconcile", Boot}, NEW s, NEW c, Replaces(t, s, c),
         \A n \in 1 .. Len(s) : s[n].do # "report", do \notin {"reinsert", "prune"}
  PROVE  ~Has(job'[t], Report)
<1>1. Report.do = "report" /\ Stmt(t).do = do
  BY ReadyFacts DEF Report
<1>2. SUFFICES ASSUME Has(job'[t], Report) PROVE FALSE
  OBVIOUS
<1>3. May(job[t].kind, Stmt(t), Report)
  <2>1. (\E n \in 1 .. Len(s) : s[n] = Report) \/ (Has(job[t], Report) /\ May(job[t].kind, Stmt(t), Report))
    BY <1>2, HasKept
  <2> QED
    BY <1>1, <2>1
<1> QED
  BY <1>1, <1>3 DEF May

LEMMA FailsOwes ==
  ASSUME NEW t, Fails(t), NEW O, NEW L
  PROVE  Restoring(job'[t], O, L)
<1>1. \A i \in 1 .. Len(job'[t].todo) : job'[t].todo[i].do = "insert"
  BY DEF Fails
<1> QED
  BY <1>1, Quiet DEF Restoring, Answers, Has, Report

(* A step of a reconcile with statements that are none of its own.         *)
LEMMA OwesStill ==
  ASSUME NEW t, Ready(t), NEW do, At(t, do), do \notin {"reinsert", "prune"}, job[t].kind \in {"reconcile", Boot},
         NEW s, NEW c, Replaces(t, s, c), NEW O, NEW L, Answers(job[t], O),
         \A n \in 1 .. Len(s) : s[n].do \notin {"listlive", "prune", "report"}
  PROVE  Restoring(job'[t], O, L)
<1>1. \A n \in 1 .. Len(s) : Answering(s[n], O)
  BY Quiet
<1>2. Answers(job'[t], O)
  BY <1>1, AnswersKept
<1>3. ~Has(job'[t], Report)
  BY ReportBehind
<1> QED
  BY <1>2, <1>3 DEF Restoring

LEMMA EmptyOwes ==
  ASSUME NEW t, Ready(t), NEW do, At(t, do), do \notin {"reinsert", "prune"}, job[t].kind \in {"reconcile", Boot},
         Replaces(t, <<>>, TRUE), NEW O, NEW L, Answers(job[t], O)
  PROVE  Restoring(job'[t], O, L)
<1> DEFINE s == <<>>
<1>1. Replaces(t, s, TRUE) /\ Len(s) = 0
  OBVIOUS
<1> HIDE DEF s
<1>2. \A n \in 1 .. Len(s) : s[n].do \notin {"listlive", "prune", "report"}
  BY <1>1
<1> QED
  BY <1>1, <1>2, OwesStill

LEMMA UninstallsOwe ==
  ASSUME NEW t, Ready(t), NEW do \in {"get", "bysource"}, At(t, do), job[t].kind \in {"reconcile", Boot},
         NEW S, NEW list \in Seq(S), Replaces(t, Uninstalls(list), TRUE), NEW O, NEW L, Answers(job[t], O)
  PROVE  Restoring(job'[t], O, L)
<1> DEFINE s == Uninstalls(list)
<1>1. \A i \in 1 .. Len(s) : \E n \in 1 .. Len(list) :
        s[i] = OnRow("uninstall", list[n]) \/ s[i] = OnRow("delete", list[n])
  BY UninstallsFacts
<1>2. Replaces(t, s, TRUE) /\ do \notin {"reinsert", "prune"}
  OBVIOUS
<1> HIDE DEF s
<1>3. \A n \in 1 .. Len(s) : s[n].do \notin {"listlive", "prune", "report"}
  BY <1>1, OnRowFields
<1> QED
  BY <1>2, <1>3, OwesStill

(* A report that is still to come was to come before, and without an error *)
(* so far.                                                                 *)
LEMMA ReportAhead ==
  ASSUME NEW t, Ready(t), NEW do, At(t, do), Replaces(t, <<>>, TRUE),
         job'[t].kind \in {"reconcile", Boot}, job'[t].clean, Has(job'[t], Report)
  PROVE  /\ job[t].kind \in {"reconcile", Boot} /\ job[t].clean /\ Has(job[t], Report)
         /\ \A x : Has(job[t], x) /\ x # Stmt(t) => Has(job'[t], x)
<1>1. job'[t] # NoJob /\ job[t].kind \in {"reconcile", Boot} /\ job[t].clean
  BY NoJobFacts DEF Replaces, Moves, Boot
<1> DEFINE s == <<>>
<1>2. Replaces(t, s, TRUE) /\ Len(s) = 0
  OBVIOUS
<1> HIDE DEF s
<1>3. /\ \A x : Has(job[t], x) /\ x # Stmt(t) /\ job'[t] # NoJob => Has(job'[t], x)
      /\ \A x : Has(job'[t], x) => (\E n \in 1 .. Len(s) : s[n] = x) \/ Has(job[t], x)
  BY <1>2, HasKept
<1> QED
  BY <1>1, <1>2, <1>3

LEMMA EmptyAnswers ==
  ASSUME NEW t, Ready(t), NEW do, At(t, do), Replaces(t, <<>>, TRUE), NEW O, Answers(job[t], O)
  PROVE  Answers(job'[t], O)
<1> DEFINE s == <<>>
<1>1. Replaces(t, s, TRUE) /\ Len(s) = 0
  OBVIOUS
<1> HIDE DEF s
<1>2. \A n \in 1 .. Len(s) : Answering(s[n], O)
  BY <1>1
<1> QED
  BY <1>1, <1>2, AnswersKept

LEMMA ReinsertOwes ==
  ASSUME NEW t, Ready(t), Reinsert(t), NEW O, Restoring(job[t], O, Live(kernel))
  PROVE  Restoring(job'[t], O, Live(kernel'))
<1> DEFINE row == Stmt(t).row
<1>1. At(t, "reinsert") /\ Stmt(t).do = "reinsert" /\ Stmt(t) = OnRow("reinsert", row)
  BY ReadyFacts, StatementOf DEF Reinsert
<1>2. Replaces(t, <<>>, TRUE) /\ row \in Stored /\ AppendRule(row)
  BY <1>1, AppendDoes
<1>3. Live(kernel') = Live(kernel) \union {row}
  BY <1>2, AppendEffect DEF Ready, Base, Types
<1> HIDE DEF row
<1>4. Answers(job'[t], O)
  BY <1>1, <1>2, EmptyAnswers DEF Restoring
<1>5. ASSUME job'[t].kind \in {"reconcile", Boot}, job'[t].clean, Has(job'[t], Report), NEW r \in O
      PROVE  Found(r, Live(kernel')) \/ Has(job'[t], OnRow("reinsert", r))
  <2>1. /\ Found(r, Live(kernel)) \/ Has(job[t], OnRow("reinsert", r))
        /\ \A x : Has(job[t], x) /\ x # Stmt(t) => Has(job'[t], x)
    BY <1>1, <1>2, <1>5, ReportAhead DEF Restoring
  <2>2. CASE r = row \/ Found(r, Live(kernel))
    BY <1>3, <2>2 DEF Found
  <2>3. CASE r # row /\ Has(job[t], OnRow("reinsert", r))
    BY <1>1, <2>1, <2>3, OnRowFields
  <2> QED
    BY <2>1, <2>2, <2>3
<1> QED
  BY <1>4, <1>5 DEF Restoring

LEMMA PruneOwes ==
  ASSUME NEW t, Ready(t), Prune(t), NEW O, Restoring(job[t], O, Live(kernel))
  PROVE  Restoring(job'[t], O, Live(kernel'))
<1> DEFINE row == Stmt(t).row
<1>1. At(t, "prune") /\ Stmt(t).do = "prune" /\ Stmt(t) = job[t].todo[1] /\ 1 \in 1 .. Len(job[t].todo)
  BY ReadyFacts DEF Prune
<1>2. Replaces(t, <<>>, TRUE) /\ (DeleteRule(row) \/ UNCHANGED kernel)
  BY <1>1, DeleteDoes
<1>3. \A r \in O : r.id # row.id
  BY <1>1 DEF Restoring, Answers, Answering
<1> HIDE DEF row
<1>4. \A q \in Live(kernel) : q.id # row.id => q \in Live(kernel')
  BY <1>2, DeleteEffect DEF Ready, Base, Types
<1>5. Answers(job'[t], O)
  BY <1>1, <1>2, EmptyAnswers DEF Restoring
<1>6. ASSUME job'[t].kind \in {"reconcile", Boot}, job'[t].clean, Has(job'[t], Report), NEW r \in O
      PROVE  Found(r, Live(kernel')) \/ Has(job'[t], OnRow("reinsert", r))
  <2>1. /\ Found(r, Live(kernel)) \/ Has(job[t], OnRow("reinsert", r))
        /\ \A x : Has(job[t], x) /\ x # Stmt(t) => Has(job'[t], x)
    BY <1>1, <1>2, <1>6, ReportAhead DEF Restoring
  <2>2. CASE Found(r, Live(kernel))
    BY <1>3, <1>4, <2>2 DEF Found
  <2>3. CASE Has(job[t], OnRow("reinsert", r))
    BY <1>1, <2>1, <2>3, OnRowFields
  <2> QED
    BY <2>1, <2>2, <2>3
<1> QED
  BY <1>5, <1>6 DEF Restoring

LEMMA ReadLiveOwes ==
  ASSUME NEW t, Ready(t), ReadLive(t), NEW O, Answers(job[t], O)
  PROVE  Restoring(job'[t], O, Live(kernel'))
<1>1. /\ At(t, "listlive") /\ Stmt(t) = job[t].todo[1] /\ 1 \in 1 .. Len(job[t].todo) /\ Stmt(t).do = "listlive"
      /\ UNCHANGED kernel
  BY ReadyFacts DEF ReadLive
<1>2. O \subseteq Stmt(t).rows
  BY <1>1 DEF Answers, Answering
<1>3. PICK s : /\ Replaces(t, s, TRUE)
               /\ \A i \in 1 .. Len(s) :
                    \/ \E r \in Stmt(t).rows : s[i] = OnRow("reinsert", r) /\ ~Installed(kernel, r)
                    \/ \E e \in kernel : s[i] = OnRow("prune", RowOf(e)) /\ \A r \in Stmt(t).rows : r.id # e.id
                    \/ s[i] = Report
               /\ \A r \in Stmt(t).rows : Installed(kernel, r) \/ \E i \in 1 .. Len(s) : s[i] = OnRow("reinsert", r)
               /\ \A e \in kernel : \/ \E r \in Stmt(t).rows : r.id = e.id
                                    \/ \E i \in 1 .. Len(s) : s[i] = OnRow("prune", RowOf(e))
  BY ReadLiveDoes, ZenonT(40)
<1>4. ASSUME NEW n \in 1 .. Len(s) PROVE Answering(s[n], O)
  <2>1. ASSUME NEW e \in kernel, s[n] = OnRow("prune", RowOf(e)), \A r \in Stmt(t).rows : r.id # e.id
        PROVE  Answering(s[n], O)
    <3>1. s[n].do = "prune" /\ s[n].row.id = e.id
      BY <2>1, OnRowFields DEF RowOf
    <3> QED
      BY <1>2, <2>1, <3>1 DEF Answering
  <2>2. ASSUME s[n].do \in {"reinsert", "report"} PROVE Answering(s[n], O)
    BY <2>2 DEF Answering
  <2> QED
    BY <1>3, <2>1, <2>2, OnRowFields DEF Report
<1>5. Answers(job'[t], O)
  BY <1>1, <1>3, <1>4, AnswersKept
<1>6. ASSUME job'[t].kind \in {"reconcile", Boot}, NEW r \in O
      PROVE  Found(r, Live(kernel')) \/ Has(job'[t], OnRow("reinsert", r))
  <2>1. job'[t] # NoJob
    BY <1>6, NoJobFacts DEF Boot
  <2>2. \A n \in 1 .. Len(s) : Has(job'[t], s[n])
    BY <1>1, <1>3, <2>1, HasKept
  <2>3. CASE Installed(kernel, r)
    <3>1. PICK e \in kernel : e.id = r.id
      BY <2>3 DEF Installed
    <3>2. RowOf(e) \in Live(kernel') /\ RowOf(e).id = r.id
      BY <1>1, <3>1 DEF Live, RowOf
    <3> QED
      BY <3>2 DEF Found
  <2>4. CASE ~Installed(kernel, r)
    BY <1>2, <1>3, <2>2, <2>4
  <2> QED
    BY <2>3, <2>4
<1> QED
  BY <1>5, <1>6 DEF Restoring

(* A fresh list of the rows.                                               *)
LEMMA ReadRowsOwes ==
  ASSUME NEW t, Ready(t), ReadRows(t), NEW L
  PROVE  Restoring(job'[t], rows, L)
<1> DEFINE s == <<ListLive(rows)>>
<1>1. At(t, "listrows") /\ Replaces(t, s, TRUE) /\ Runs(t)
  BY ReadyFacts, ReadRowsDoes DEF ReadRows
<1>2. \A n \in 1 .. Len(s) : s[n] = ListLive(rows)
  OBVIOUS
<1> HIDE DEF s
<1>3. \A n \in 1 .. Len(s) : Answering(s[n], rows) /\ s[n].do = "listlive"
  BY <1>2 DEF Answering, ListLive
<1>4. \A k \in 2 .. Len(job[t].todo) : job[t].todo[k].do = "insert"
  <2>1. Stmt(t).do = "listrows" /\ \A k \in 2 .. Len(job[t].todo) : May(job[t].kind, Stmt(t), job[t].todo[k])
    BY <1>1, ReadyFacts
  <2> QED
    BY <2>1 DEF May
<1>5. \A i \in 1 .. Len(job'[t].todo) : Answering(job'[t].todo[i], rows) /\ job'[t].todo[i].do \in {"insert", "listlive"}
  <2>1. ASSUME NEW i \in 1 .. Len(job'[t].todo)
        PROVE  Answering(job'[t].todo[i], rows) /\ job'[t].todo[i].do \in {"insert", "listlive"}
    <3>1. ASSUME NEW k \in 2 .. Len(job[t].todo), job'[t].todo[i] = job[t].todo[k]
          PROVE  Answering(job'[t].todo[i], rows) /\ job'[t].todo[i].do \in {"insert", "listlive"}
      BY <1>4, <3>1, Quiet
    <3> QED
      BY <1>1, <1>3, <3>1 DEF Replaces
  <2> QED
    BY <2>1
<1> QED
  BY <1>5 DEF Restoring, Answers, Has, Report

(* Only a reconcile lists the live rules, prunes and reports on that.      *)
LEMMA OtherOwes ==
  ASSUME Types, NEW t \in All, job[t].kind \notin {"reconcile", Boot}, NEW O, NEW L
  PROVE  Restoring(job[t], O, L)
<1>1. \A i \in 1 .. Len(job[t].todo) : job[t].todo[i] \in Statement(job[t].kind)
  BY DEF Types, JobTypes, JobTyped
<1>2. \A i \in 1 .. Len(job[t].todo) : job[t].todo[i].do \notin {"listlive", "prune"}
  BY <1>1, StatementOf
<1> QED
  BY <1>2, Quiet DEF Restoring, Answers

LEMMA RunOwes ==
  ASSUME NEW t, Ready(t), Run(t), Base', NEW O,
         IF At(t, "listrows") THEN O = rows ELSE Restoring(job[t], O, Live(kernel))
  PROVE  Restoring(job'[t], O, Live(kernel'))
<1>1. Base /\ t \in All /\ UNCHANGED scope
  BY DEF Ready
<1> DEFINE Goal == Restoring(job'[t], O, Live(kernel'))
<1>2. CASE job[t].kind \notin {"reconcile", Boot}
  <2>1. job'[t].kind \notin {"reconcile", Boot}
    BY <1>1, <1>2, RunMoves, NoJobFacts DEF Boot
  <2>2. \A i \in 1 .. Len(job'[t].todo) : job'[t].todo[i] \in Statement(job'[t].kind)
    <3>1. JobTyped(job[t])'
      BY <1>1 DEF Base, Types, JobTypes, All
    <3>2. job'[t].todo \in Seq(Statement(job'[t].kind))
      BY <3>1 DEF JobTyped, Statement, SourceOf, Stored
    <3> QED
      BY <3>2
  <2>3. \A i \in 1 .. Len(job'[t].todo) : job'[t].todo[i].do \notin {"listlive", "prune"}
    BY <2>1, <2>2, StatementOf
  <2> QED
    BY <2>1, <2>3, Quiet DEF Restoring, Answers
<1>3. CASE job[t].kind \in {"reconcile", Boot}
  <2> HIDE DEF Goal
  <2>1. ASSUME ReadRows(t) PROVE Goal
    BY <2>1, ReadRowsOwes DEF ReadRows, Goal
  <2>2. ASSUME ~At(t, "listrows") PROVE Restoring(job[t], O, Live(kernel)) /\ Answers(job[t], O)
    BY <2>2 DEF Restoring
  <2>3. \A do : At(t, do) /\ At(t, "listrows") => do = "listrows"
    BY DEF At
  <2>4. ASSUME NEW do, At(t, do), do \notin {"reinsert", "prune", "listrows"}, Replaces(t, <<>>, TRUE) PROVE Goal
    BY <1>1, <1>3, <2>2, <2>3, <2>4, EmptyOwes DEF Goal
  <2>5. ASSUME Fails(t) PROVE Goal
    BY <2>5, FailsOwes DEF Goal
  <2>6. ASSUME InsertRow(t) PROVE Goal
    <3> DEFINE row == [id |-> fresh + 1, src |-> Stmt(t).src, key |-> Stmt(t).key]
               s   == <<OnRow("append", row)>>
    <3>1. At(t, "insert") /\ Replaces(t, s, TRUE) /\ "insert" \notin {"reinsert", "prune", "listrows"}
      BY <1>1, <2>6, InsertDoes DEF InsertRow
    <3>2. \A n \in 1 .. Len(s) : s[n] = OnRow("append", row)
      OBVIOUS
    <3> HIDE DEF s, row
    <3>3. \A n \in 1 .. Len(s) : s[n].do \notin {"listlive", "prune", "report"}
      BY <3>2, OnRowFields
    <3> QED
      BY <1>1, <1>3, <2>2, <2>3, <3>1, <3>3, OwesStill DEF Goal
  <2>7. ASSUME InstallRule(t) PROVE Goal
    <3>1. At(t, "append") /\ Replaces(t, <<>>, TRUE) /\ "append" \notin {"reinsert", "prune", "listrows"}
      BY <1>1, <2>7, AppendDoes DEF InstallRule
    <3> QED
      BY <2>4, <3>1
  <2>8. ASSUME Uninstall(t) \/ UninstallRefused(t) PROVE Goal
    <3>1. /\ At(t, "uninstall") /\ Replaces(t, <<>>, TRUE)
          /\ "uninstall" \notin {"reinsert", "prune", "listrows"}
      BY <1>1, <2>8, AdvanceDoes DEF Uninstall, UninstallRefused
    <3> QED
      BY <2>4, <3>1
  <2>9. ASSUME DeleteRow(t) PROVE Goal
    <3>1. At(t, "delete") /\ "delete" \notin {"reinsert", "prune", "listrows"} /\ (Replaces(t, <<>>, TRUE) \/ Fails(t))
      BY <1>1, <2>9, DeleteRowDoes DEF DeleteRow
    <3> QED
      BY <2>4, <2>5, <3>1
  <2>10. ASSUME InstallFails(t) PROVE Goal
    <3>1. \A i \in 1 .. Len(job'[t].todo) : job'[t].todo[i] = OnRow("rollback", Stmt(t).row)
      BY <1>1, <2>10, InstallFailsDoes
    <3>2. OnRow("rollback", Stmt(t).row) # Report /\ OnRow("rollback", Stmt(t).row).do = "rollback"
      BY OnRowFields DEF Report
    <3> QED
      BY <3>1, <3>2, Quiet DEF Goal, Restoring, Answers, Has
  <2>11. ASSUME GetRow(t) PROVE Goal
    <3>1. At(t, "get") /\ "get" \in {"get", "bysource"} /\ ~At(t, "listrows")
      BY <2>3, <2>11 DEF GetRow
    <3>2. ASSUME NEW r, Replaces(t, Uninstalls(<<r>>), TRUE) PROVE Goal
      <4> DEFINE S == {r}
                 list == <<r>>
      <4>1. list \in Seq(S)
        OBVIOUS
      <4>2. list \in Seq(S) /\ Replaces(t, Uninstalls(list), TRUE)
        BY <3>2, <4>1
      <4> HIDE DEF S, list
      <4> QED
        BY <1>1, <1>3, <2>2, <3>1, <4>2, UninstallsOwe DEF Goal
    <3> QED
      BY <1>1, <2>5, <2>11, <3>2, GetDoes
  <2>12. ASSUME ListSource(t) PROVE Goal
    <3>1. At(t, "bysource") /\ "bysource" \in {"get", "bysource"} /\ ~At(t, "listrows")
      BY <2>3, <2>12 DEF ListSource
    <3> DEFINE S == {r \in rows : r.src \in SourceOf(job[t].kind)}
    <3>2. PICK list \in Seq(S) : Replaces(t, Uninstalls(list), TRUE)
      BY <1>1, <2>12, ListSourceDoes
    <3> HIDE DEF S
    <3> QED
      BY <1>1, <1>3, <2>2, <3>1, <3>2, UninstallsOwe DEF Goal
  <2>13. ASSUME Return(t) PROVE Goal
    <3>1. At(t, "report") /\ Replaces(t, <<>>, TRUE) /\ "report" \notin {"reinsert", "prune", "listrows"}
      BY <1>1, <2>13, AdvanceDoes DEF Return
    <3> QED
      BY <2>4, <3>1
  <2>14. ASSUME MatchControl(t) PROVE Goal
    BY <1>1, <1>3, <2>14, MatchDoes DEF Boot
  <2>15. ASSUME Rollback(t) \/ Errs(t) PROVE Goal
    BY <1>1, <2>5, <2>15, RollbackDoes, ErrsDoes
  <2>16. ASSUME ReadLive(t) \/ Reinsert(t) \/ Prune(t) PROVE Goal
    <3>1. ~At(t, "listrows")
      BY <2>3, <2>16 DEF ReadLive, Reinsert, Prune
    <3> QED
      BY <2>2, <2>16, <3>1, ReadLiveOwes, ReinsertOwes, PruneOwes DEF Goal
  <2> QED
    BY <2>1, <2>6, <2>7, <2>8, <2>9, <2>10, <2>11, <2>12, <2>13, <2>14, <2>15, <2>16 DEF Run, Errs, Goal
<1> QED
  BY <1>2, <1>3

(* What a step of another task leaves in the kernel.                       *)
LEMMA RulesStay ==
  ASSUME NEW t, Ready(t), Run(t)
  PROVE  \A q \in Live(kernel) : \/ q \in Live(kernel')
                                 \/ (At(t, "uninstall") \/ At(t, "prune")) /\ Stmt(t).row.id = q.id
<1>1. kernel \subseteq Entry /\ IsFiniteSet(kernel)
  BY DEF Ready, Base, Types
<1>2. CASE InstallRule(t) \/ Reinsert(t)
  <2>1. AppendRule(Stmt(t).row)
    BY <1>2 DEF InstallRule, Reinsert
  <2>2. Stmt(t).row \in Stored
    BY <1>2, AppendDoes
  <2> QED
    BY <1>1, <2>1, <2>2, AppendEffect
<1>3. CASE Uninstall(t) \/ Prune(t)
  <2>1. At(t, "uninstall") \/ At(t, "prune")
    BY <1>3 DEF Uninstall, Prune
  <2>2. DeleteRule(Stmt(t).row) \/ UNCHANGED kernel
    BY <1>3 DEF Uninstall, Prune
  <2>3. \A q \in Live(kernel) : q.id # Stmt(t).row.id => q \in Live(kernel')
    BY <1>1, <2>2, DeleteEffect
  <2> QED
    BY <2>1, <2>3
<1>4. CASE UNCHANGED kernel
  BY <1>4
<1> QED
  BY <1>2, <1>3, <1>4 DEF Run, InsertRow, RefuseRule, InstallFails, Rollback, GetRow, ListSource, UninstallRefused,
     UninstallFails, DeleteRow, ReadRows, ReadLive, ReconcileFails, Return, MatchControl

(* What the rest owes shrinks by the rules on which the task calls -D.     *)
LEMMA OtherStill ==
  ASSUME NEW t, Ready(t), Run(t), Remember(t), NEW u \in All, u # t, job'[u] = job[u],
         Restoring(job[u], owed[u], Live(kernel))
  PROVE  Restoring(job'[u], owed'[u], Live(kernel'))
<1> DEFINE calls(r) == (At(t, "uninstall") \/ At(t, "prune")) /\ Stmt(t).row.id = r.id
<1>1. \A r \in owed'[u] : r \in owed[u] /\ ~calls(r)
  BY DEF Remember, All
<1>2. \A q \in Live(kernel) : q \in Live(kernel') \/ calls(q)
  BY RulesStay
<1>3. \A r \in owed'[u] : Found(r, Live(kernel)) => Found(r, Live(kernel'))
  BY <1>1, <1>2 DEF Found
<1> HIDE DEF calls
<1> QED
  BY <1>1, <1>3 DEF Restoring, Answers, Answering

LEMMA NothingOwed ==
  ASSUME NEW j, NEW L
  PROVE  Restoring(j, {}, L)
BY DEF Restoring, Answers, Answering

LEMMA AllRestoringAfter ==
  AllRestoring' <=> \A u \in All : Restoring(job'[u], owed'[u], Live(kernel'))
BY DEF AllRestoring, Restoring, Answers, Answering, Found, Has, Report, OnRow, Live, RowOf, All

(* A request starts an operation or gives one up.                          *)
LEMMA RequestDoes ==
  ASSUME Base, UNCHANGED scope, NEW t \in Tasks, Request(t)
  PROVE  /\ UNCHANGED <<rows, kernel, fresh>>
         /\ \/ job'[t] = NoJob
            \/ \E kind : Begun(job'[t], kind)
            \/ /\ job'[t].kind = job[t].kind /\ job'[t].todo = job[t].todo /\ job'[t].clean = job[t].clean
               /\ job'[t].desired = job[t].desired /\ job'[t].prune = job[t].prune
<1>1. CASE GiveUp(t)
  BY <1>1, GiveUpDoes
<1>2. CASE ~GiveUp(t)
  BY <1>2, StartDoes DEF Request
<1> QED
  BY <1>1, <1>2

LEMMA RestoringNext ==
  ASSUME Base, AllRestoring, [Next /\ UNCHANGED scope]_vars, owed \in [All -> SUBSET Row]
  PROVE  AllRestoring'
<1>1. CASE UNCHANGED vars
  <2>1. UNCHANGED <<kernel, job, owed>>
    BY <1>1 DEF vars
  <2> QED
    BY <2>1, AllRestoringAfter DEF AllRestoring
<1>2. ASSUME NEW t \in All, Run(t), Remember(t), UNCHANGED scope, NEW u \in All
      PROVE  Restoring(job'[u], owed'[u], Live(kernel'))
  <2>1. Base' /\ Ready(t) /\ \A v \in All : v # t => job'[v] = job[v]
    BY <1>2, RunBase DEF Ready
  <2>2. CASE u # t
    BY <1>2, <2>1, <2>2, OtherStill DEF AllRestoring
  <2>3. CASE u = t
    <3> DEFINE O == IF At(t, "listrows") THEN rows ELSE owed[t]
    <3>1. owed'[t] = {} \/ owed'[t] = O
      BY <1>2 DEF Remember, All
    <3>2. IF At(t, "listrows") THEN O = rows ELSE Restoring(job[t], O, Live(kernel))
      BY <1>2 DEF AllRestoring
    <3> HIDE DEF O
    <3>3. Restoring(job'[t], O, Live(kernel'))
      BY <1>2, <2>1, <3>2, RunOwes
    <3> QED
      BY <2>3, <3>1, <3>3, NothingOwed
  <2> QED
    BY <2>2, <2>3
<1>3. ASSUME NEW t \in Tasks, Request(t), owed' = [owed EXCEPT ![t] = {}], UNCHANGED scope, NEW u \in All
      PROVE  Restoring(job'[u], owed'[u], Live(kernel'))
  <2>1. t \in All
    BY DEF All
  <2>2. UNCHANGED kernel /\ \A v \in All : v # t => job'[v] = job[v]
    BY <1>3, <2>1, RequestBase, RequestDoes
  <2>3. owed'[u] = IF u = t THEN {} ELSE owed[u]
    BY <1>3
  <2> QED
    BY <2>2, <2>3, NothingOwed DEF AllRestoring
<1>4. ASSUME Restart, owed' = [t \in Tasks \union {Boot} |-> {}], NEW u \in All
      PROVE  Restoring(job'[u], owed'[u], Live(kernel'))
  BY <1>4, NothingOwed DEF All
<1> QED
  BY <1>1, <1>2, <1>3, <1>4, AllRestoringAfter DEF Next, All

(* When it reports, only rules of the baseline are to come.                *)
LEMMA RestoredAtReport ==
  ASSUME Base, AllRestoring
  PROVE  ReconcileRestores
<1> SUFFICES ASSUME NEW t \in All, Reporting(t), NEW r \in owed[t]
             PROVE  Copies(r) # {}
  BY DEF ReconcileRestores, All
<1>1. /\ Types /\ Shapes /\ Restoring(job[t], owed[t], Live(kernel))
      /\ At(t, "report") /\ job[t].kind \in {"reconcile", Boot} /\ job[t].clean
  BY DEF Base, AllRestoring, Reporting
<1>2. /\ job[t].todo # <<>> /\ Head(job[t].todo).do = "report" /\ Good(job[t].kind, job[t].todo)
  BY <1>1, TaskFacts DEF At
<1>3. /\ Len(job[t].todo) \in Nat /\ Len(job[t].todo) > 0 /\ Head(job[t].todo) = job[t].todo[1]
      /\ job[t].todo[1] \in Statement(job[t].kind)
      /\ \A k \in 2 .. Len(job[t].todo) : May(job[t].kind, job[t].todo[1], job[t].todo[k])
  BY <1>2, FirstOnly
<1>4. job[t].todo[1] = Report /\ 1 \in 1 .. Len(job[t].todo)
  BY <1>2, <1>3, StatementOf
<1>5. ~Has(job[t], OnRow("reinsert", r))
  <2>1. \A i \in 1 .. Len(job[t].todo) : i = 1 \/ i \in 2 .. Len(job[t].todo)
    BY <1>3
  <2>2. \A k \in 2 .. Len(job[t].todo) : job[t].todo[k].do = "insert"
    BY <1>2, <1>3 DEF May
  <2>3. \A i \in 1 .. Len(job[t].todo) : job[t].todo[i].do \in {"insert", "report"}
    BY <1>4, <2>1, <2>2 DEF Report
  <2> QED
    BY <2>3, OnRowFields DEF Has
<1>6. Has(job[t], Report)
  BY <1>4 DEF Has
<1>7. Found(r, Live(kernel))
  BY <1>1, <1>5, <1>6 DEF Restoring
<1> QED
  BY <1>7 DEF Found, Copies, Live, RowOf

(* When a reconcile reports without an error, each row that it listed has  *)
(* its rule in the kernel unless another task has called -D on that rule   *)
(* since: whatever ran beside it, whichever calls of iptables were refused *)
(* and whatever earlier operations, drops and crashes left behind.         *)
THEOREM Restored == Spec => []ReconcileRestores
<1>1. Init => AllRestoring
  <2> SUFFICES ASSUME Init, NEW u \in All PROVE Restoring(job[u], owed[u], Live(kernel))
    BY DEF AllRestoring
  <2>1. owed[u] = {}
    BY DEF Init, All
  <2> QED
    BY <2>1, NothingOwed
<1>2. Base /\ HistoryTypes /\ AllRestoring /\ [Next /\ UNCHANGED scope]_vars => AllRestoring'
  BY RestoringNext DEF HistoryTypes
<1>3. Base /\ AllRestoring => ReconcileRestores
  BY RestoredAtReport
<1> QED
  BY <1>1, <1>2, <1>3, BaseAlways, HistoryAlways, PTL DEF Spec
-----------------------------------------------------------------------------
(* The report of a pass over the control center's rules.                   *)
LEMMA ControlOnly ==
  /\ \A r \in ControlRowsOf(rows) : r \in rows /\ r.src = "control"
  /\ \A r \in rows : r.src = "control" => r \in ControlRowsOf(rows)
  /\ \A r \in ControlRowsOf(rows') : r \in rows' /\ r.src = "control"
  /\ \A r \in rows' : r.src = "control" => r \in ControlRowsOf(rows')
BY DEF ControlRowsOf

LEMMA StatementFields ==
  /\ \A id, src, key : Get(id, src).do = "get" /\ Get(id, src).id = id /\ Insert(src, key).do = "insert"
                       /\ Insert(src, key).key = key
  /\ Report.do = "report"
BY DEF Get, Insert, Report

(* What is to come of a pass is as it was, whatever becomes of the rows    *)
(* that its first statement is not about.                                  *)
LEMMA DeclaringReplaced ==
  ASSUME NEW t, Ready(t), NEW do, At(t, do), job[t].kind = "control", NEW s, NEW c, Replaces(t, s, c),
         Declaring(job[t], rows, fresh), fresh' \in Nat, fresh \in Nat, fresh <= fresh',
         \A n \in 1 .. Len(s) : DeclaredStatement(job[t].desired, s[n], rows', fresh') /\ s[n].do # "report",
         \A r \in ControlRowsOf(rows') :
           r \in ControlRowsOf(rows) \/ (do = "insert" /\ r.key = Stmt(t).key /\ r.id \notin 1 .. fresh),
         \A r \in ControlRowsOf(rows) : r.key \in job[t].desired => r \in ControlRowsOf(rows'),
         do = "insert" => \E r \in ControlRowsOf(rows') : r.key = Stmt(t).key,
         do = "get" => \A r \in ControlRowsOf(rows') :
           r.id = Stmt(t).id => \E n \in 1 .. Len(s) : s[n] = OnRow("delete", r),
         do = "delete" => Stmt(t).row \notin rows'
  PROVE  Declaring(job'[t], rows', fresh')
<1> DEFINE D == job[t].desired
           todo == job[t].todo
<1>1. /\ Runs(t) /\ Stmt(t).do = do /\ Stmt(t) = todo[1] /\ 1 \in 1 .. Len(todo)
      /\ Stmt(t) \in Statement("control")
      /\ \A k \in 2 .. Len(todo) : May("control", Stmt(t), todo[k])
  BY ReadyFacts
<1>2. Len(todo) \in Nat
  BY <1>1, StmtFacts
<1>3. \A i \in 1 .. Len(todo) : DeclaredStatement(D, todo[i], rows, fresh)
  BY DEF Declaring
<1>4. ASSUME NEW k \in 2 .. Len(todo) PROVE DeclaredStatement(D, todo[k], rows', fresh')
  <2> DEFINE x == todo[k]
  <2>1. k \in 1 .. Len(todo) /\ May("control", Stmt(t), x)
    BY <1>1, <1>2
  <2>2. DeclaredStatement(D, x, rows, fresh)
    BY <1>3, <2>1
  <2> HIDE DEF x, D
  <2>3. ASSUME x.do = "insert" PROVE x.key \in D /\ \A r \in ControlRowsOf(rows') : r.key # x.key
    <3>1. x.key \in D /\ \A r \in ControlRowsOf(rows) : r.key # x.key
      BY <2>2, <2>3 DEF DeclaredStatement
    <3>2. do = "insert" => Stmt(t).key # x.key
      BY <1>1, <2>1, <2>3 DEF May
    <3> QED
      BY <3>1, <3>2
  <2>4. ASSUME x.do = "get"
        PROVE  x.id \in 1 .. fresh' /\ \A r \in ControlRowsOf(rows') : r.id = x.id => r.key \notin D
    <3>1. x.id \in 1 .. fresh /\ \A r \in ControlRowsOf(rows) : r.id = x.id => r.key \notin D
      BY <2>2, <2>4 DEF DeclaredStatement
    <3>2. x.id \in 1 .. fresh'
      BY <3>1
    <3> QED
      BY <3>1, <3>2
  <2>5. (x.do \in {"uninstall", "delete"} => x.row.key \notin D) /\ x.do # "bysource"
    BY <2>2 DEF DeclaredStatement
  <2> QED
    BY <2>3, <2>4, <2>5 DEF DeclaredStatement, x
<1> SUFFICES ASSUME job'[t].kind = "control"
             PROVE  /\ \A i \in 1 .. Len(job'[t].todo) : DeclaredStatement(D, job'[t].todo[i], rows', fresh')
                    /\ Has(job'[t], Report) =>
                         /\ \A k \in D : (\E r \in ControlRowsOf(rows') : r.key = k) \/ Has(job'[t], Insert("control", k))
                         /\ job[t].prune => \A r \in ControlRowsOf(rows') :
                              r.key \in D \/ Has(job'[t], Get(r.id, "control")) \/ Has(job'[t], OnRow("delete", r))
  <2>1. ASSUME job'[t].kind = "control" PROVE job'[t].desired = D /\ job'[t].prune = job[t].prune
    BY <2>1, NoJobFacts DEF Replaces, Moves
  <2> QED
    BY <2>1 DEF Declaring
<1>5. job'[t] # NoJob
  BY NoJobFacts
<1>6. \A i \in 1 .. Len(job'[t].todo) : DeclaredStatement(D, job'[t].todo[i], rows', fresh')
  BY <1>4 DEF Replaces
<1>7. ASSUME Has(job'[t], Report)
      PROVE  /\ \A k \in D : (\E r \in ControlRowsOf(rows') : r.key = k) \/ Has(job'[t], Insert("control", k))
             /\ job[t].prune => \A r \in ControlRowsOf(rows') :
                  r.key \in D \/ Has(job'[t], Get(r.id, "control")) \/ Has(job'[t], OnRow("delete", r))
  <2>1. /\ \A x : Has(job[t], x) /\ x # Stmt(t) /\ job'[t] # NoJob => Has(job'[t], x)
        /\ \A x : Has(job'[t], x) => (\E n \in 1 .. Len(s) : s[n] = x) \/ Has(job[t], x)
        /\ job'[t] # NoJob => \A n \in 1 .. Len(s) : Has(job'[t], s[n])
    BY HasKept
  <2>2. Has(job[t], Report)
    <3>1. ~\E n \in 1 .. Len(s) : s[n] = Report
      BY StatementFields
    <3> QED
      BY <1>7, <2>1, <3>1
  <2>3. /\ \A k \in D : (\E r \in ControlRowsOf(rows) : r.key = k) \/ Has(job[t], Insert("control", k))
        /\ job[t].prune => \A r \in ControlRowsOf(rows) :
             r.key \in D \/ Has(job[t], Get(r.id, "control")) \/ Has(job[t], OnRow("delete", r))
    BY <2>2 DEF Declaring
  <2>4. do = "insert" => Stmt(t).key \in D
    BY <1>1, <1>3 DEF DeclaredStatement
  <2>5. ASSUME NEW k \in D PROVE (\E r \in ControlRowsOf(rows') : r.key = k) \/ Has(job'[t], Insert("control", k))
    <3>1. CASE \E r \in ControlRowsOf(rows) : r.key = k
      BY <3>1
    <3>2. CASE Has(job[t], Insert("control", k)) /\ Insert("control", k) # Stmt(t)
      BY <1>5, <2>1, <3>2
    <3>3. CASE Insert("control", k) = Stmt(t)
      BY <1>1, <3>3, StatementFields
    <3> QED
      BY <2>3, <3>1, <3>2, <3>3
  <2>6. ASSUME job[t].prune, NEW r \in ControlRowsOf(rows')
        PROVE  r.key \in D \/ Has(job'[t], Get(r.id, "control")) \/ Has(job'[t], OnRow("delete", r))
    <3>1. CASE r \notin ControlRowsOf(rows)
      BY <2>4, <3>1
    <3>2. CASE r \in ControlRowsOf(rows) /\ Has(job[t], Get(r.id, "control"))
      <4>1. CASE Get(r.id, "control") # Stmt(t)
        BY <1>5, <2>1, <3>2, <4>1
      <4>2. CASE Get(r.id, "control") = Stmt(t)
        <5>1. do = "get" /\ r.id = Stmt(t).id
          BY <1>1, <4>2, StatementFields
        <5>2. PICK n \in 1 .. Len(s) : s[n] = OnRow("delete", r)
          BY <5>1
        <5> QED
          BY <1>5, <2>1, <5>2
      <4> QED
        BY <4>1, <4>2
    <3>3. CASE r \in ControlRowsOf(rows) /\ Has(job[t], OnRow("delete", r))
      <4>1. OnRow("delete", r) # Stmt(t)
        BY <1>1, OnRowFields, ControlOnly
      <4> QED
        BY <1>5, <2>1, <3>3, <4>1
    <3> QED
      BY <2>3, <2>6, <3>1, <3>2, <3>3
  <2> QED
    BY <2>5, <2>6
<1> QED
  BY <1>6, <1>7

(* A pass of another kind, and one that has failed, has nothing to declare.*)
LEMMA FailsDeclaring ==
  ASSUME NEW t, Fails(t), job[t].kind = "control", NEW R, NEW n
  PROVE  Declaring(job'[t], R, n)
<1>1. \A i \in 1 .. Len(job'[t].todo) : FALSE
  BY DEF Fails
<1> QED
  BY <1>1 DEF Declaring, Has

(* What a pass may count on before its step, and what the step leaves.     *)
DeclaringFor(t) == Ready(t) /\ job[t].kind = "control" /\ OneControlRow /\ Declaring(job[t], rows, fresh)
DeclaringAfter(t) == OneControlRow' /\ Declaring(job'[t], rows', fresh')

LEMMA DeclaringFacts ==
  ASSUME NEW t, DeclaringFor(t)
  PROVE  /\ Ready(t) /\ t \in All /\ UNCHANGED scope /\ fresh \in Nat /\ rows \subseteq Stored /\ Base /\ OneRow
         /\ \A r \in rows : r.id \in 1 .. fresh
<1>1. Ready(t) /\ t \in All /\ UNCHANGED scope /\ fresh \in Nat /\ rows \subseteq Stored /\ Base /\ OneRow
  BY NetAssumption DEF DeclaringFor, Ready, Base, Types
<1>2. ASSUME NEW r \in rows PROVE r.id \in 1 .. fresh
  <2>1. r.id \in 0 .. fresh /\ r.id # 0 /\ r.id \in Nat
    BY <1>1, MentionedFacts, StoredId DEF OneRow
  <2> QED
    BY <1>1, <2>1
<1> QED
  BY <1>1, <1>2

LEMMA FewerRows ==
  ASSUME OneControlRow, rows' \subseteq rows
  PROVE  OneControlRow' /\ \A r \in ControlRowsOf(rows') : r \in ControlRowsOf(rows)
<1>1. \A r \in ControlRowsOf(rows') : r \in ControlRowsOf(rows)
  BY DEF ControlRowsOf
<1>2. OneControlRow' <=> \A r, q \in ControlRowsOf(rows') : r.key = q.key => r = q
  BY DEF OneControlRow, ControlRowsOf
<1> QED
  BY <1>1, <1>2 DEF OneControlRow

LEMMA InsertDeclaring ==
  ASSUME NEW t, DeclaringFor(t), InsertRow(t)
  PROVE  DeclaringAfter(t)
<1> DEFINE row == [id |-> fresh + 1, src |-> Stmt(t).src, key |-> Stmt(t).key]
           s   == <<OnRow("append", row)>>
<1>1. /\ At(t, "insert") /\ Ready(t) /\ job[t].kind = "control" /\ Declaring(job[t], rows, fresh) /\ OneControlRow
      /\ fresh \in Nat /\ \A r \in rows : r.id \in 1 .. fresh
  BY DeclaringFacts DEF DeclaringFor, InsertRow
<1>2. /\ row \in Stored /\ row.src \in SourceOf(job[t].kind) /\ rows' = rows \union {row} /\ fresh' = fresh + 1
      /\ Replaces(t, s, TRUE) /\ Stmt(t).do = "insert"
  BY <1>1, InsertDoes
<1>3. row.id = fresh + 1 /\ row.key = Stmt(t).key /\ row.src = "control"
  BY <1>1, <1>2, SourceFacts
<1>4. \A n \in 1 .. Len(s) : s[n] = OnRow("append", row)
  OBVIOUS
<1> HIDE DEF row, s
<1>5. Stmt(t).key \in job[t].desired /\ \A r \in ControlRowsOf(rows) : r.key # Stmt(t).key
  <2>1. Stmt(t) = job[t].todo[1] /\ 1 \in 1 .. Len(job[t].todo)
    BY <1>1, ReadyFacts
  <2>2. DeclaredStatement(job[t].desired, Stmt(t), rows, fresh)
    BY <1>1, <2>1 DEF Declaring
  <2> QED
    BY <1>2, <2>2 DEF DeclaredStatement
<1>6. ControlRowsOf(rows') = ControlRowsOf(rows) \union {row}
  BY <1>2, <1>3 DEF ControlRowsOf
<1>7. OneControlRow'
  <2>1. \A r, q \in ControlRowsOf(rows') : r.key = q.key => r = q
    BY <1>1, <1>3, <1>5, <1>6 DEF OneControlRow
  <2> QED
    BY <2>1 DEF OneControlRow, ControlRowsOf
<1>8. \A n \in 1 .. Len(s) : DeclaredStatement(job[t].desired, s[n], rows', fresh') /\ s[n].do # "report"
  BY <1>4, OnRowFields DEF DeclaredStatement
<1>9. \A r \in ControlRowsOf(rows') :
        r \in ControlRowsOf(rows) \/ ("insert" = "insert" /\ r.key = Stmt(t).key /\ r.id \notin 1 .. fresh)
  BY <1>1, <1>3, <1>6
<1>10. fresh' \in Nat /\ fresh <= fresh'
  BY <1>1, <1>2
<1>11. Declaring(job'[t], rows', fresh')
  <2>1. \A r \in ControlRowsOf(rows) : r.key \in job[t].desired => r \in ControlRowsOf(rows')
    BY <1>6
  <2>2. \E r \in ControlRowsOf(rows') : r.key = Stmt(t).key
    BY <1>3, <1>6
  <2>3. "insert" # "get" /\ "insert" # "delete"
    OBVIOUS
  <2> DEFINE do == "insert"
  <2>4. do = "insert" /\ do # "get" /\ do # "delete" /\ At(t, do)
    BY <1>1
  <2> HIDE DEF do
  <2> QED
    BY <1>1, <1>2, <1>8, <1>9, <1>10, <2>1, <2>2, <2>4, DeclaringReplaced
<1> QED
  BY <1>7, <1>11 DEF DeclaringAfter

(* A statement that leaves the rest, and takes away no rule that is wanted.*)
LEMMA EmptyDeclaring ==
  ASSUME NEW t, DeclaringFor(t), NEW do, At(t, do), do \notin {"insert", "get"}, Replaces(t, <<>>, TRUE),
         UNCHANGED fresh,
         \/ UNCHANGED rows /\ do # "delete"
         \/ do = "delete" /\ rows' = rows \ {Stmt(t).row}
  PROVE  DeclaringAfter(t)
<1> DEFINE s == <<>>
<1>1. /\ Ready(t) /\ job[t].kind = "control" /\ Declaring(job[t], rows, fresh) /\ OneControlRow
      /\ fresh \in Nat /\ fresh' \in Nat /\ fresh <= fresh'
  BY DeclaringFacts DEF DeclaringFor
<1>2. Replaces(t, s, TRUE) /\ Len(s) = 0
  OBVIOUS
<1> HIDE DEF s
<1>3. \A n \in 1 .. Len(s) : DeclaredStatement(job[t].desired, s[n], rows', fresh') /\ s[n].do # "report"
  BY <1>2
<1>4. rows' \subseteq rows /\ (do = "delete" => Stmt(t).row \notin rows')
  OBVIOUS
<1>5. OneControlRow' /\ \A r \in ControlRowsOf(rows') : r \in ControlRowsOf(rows)
  BY <1>1, <1>4, FewerRows
<1>6. ASSUME NEW r \in ControlRowsOf(rows), r.key \in job[t].desired PROVE r \in ControlRowsOf(rows')
  <2>1. r \in rows /\ r.src = "control"
    BY ControlOnly
  <2>2. CASE UNCHANGED rows
    BY <2>1, <2>2, ControlOnly
  <2>3. CASE do = "delete" /\ rows' = rows \ {Stmt(t).row}
    <3>1. Stmt(t) = job[t].todo[1] /\ 1 \in 1 .. Len(job[t].todo) /\ Stmt(t).do = do
      BY <1>1, ReadyFacts
    <3>2. DeclaredStatement(job[t].desired, Stmt(t), rows, fresh)
      BY <1>1, <3>1 DEF Declaring
    <3>3. Stmt(t).row.key \notin job[t].desired
      BY <2>3, <3>1, <3>2 DEF DeclaredStatement
    <3>4. r \in rows'
      BY <1>6, <2>1, <2>3, <3>3
    <3> QED
      BY <2>1, <3>4, ControlOnly
  <2> QED
    BY <2>2, <2>3
<1>7. Declaring(job'[t], rows', fresh')
  BY <1>1, <1>2, <1>3, <1>4, <1>5, <1>6, DeclaringReplaced
<1> QED
  BY <1>5, <1>7 DEF DeclaringAfter

LEMMA GetDeclaring ==
  ASSUME NEW t, DeclaringFor(t), GetRow(t)
  PROVE  DeclaringAfter(t)
<1>1. /\ Ready(t) /\ job[t].kind = "control" /\ Declaring(job[t], rows, fresh) /\ OneControlRow /\ OneRow
      /\ fresh \in Nat /\ fresh' \in Nat /\ fresh <= fresh' /\ At(t, "get") /\ Stmt(t).do = "get"
      /\ rows' = rows /\ rows \subseteq Stored /\ UNCHANGED fresh
  <2>1. Ready(t) /\ fresh \in Nat /\ rows \subseteq Stored /\ OneRow
    BY DeclaringFacts
  <2>2. Stmt(t).do = "get" /\ rows' = rows /\ fresh' = fresh
    BY <2>1, GetDoes
  <2> QED
    BY <2>1, <2>2 DEF DeclaringFor, GetRow
<1>2. OneControlRow' /\ ControlRowsOf(rows') = ControlRowsOf(rows)
  BY <1>1, FewerRows
<1>3. CASE Fails(t)
  BY <1>1, <1>2, <1>3, FailsDeclaring DEF DeclaringAfter
<1>4. ASSUME NEW r \in Owned(Stmt(t).id, Stmt(t).src), r.src \in SourceOf(job[t].kind),
             Replaces(t, Uninstalls(<<r>>), TRUE)
      PROVE  DeclaringAfter(t)
  <2>1. r \in rows /\ r.id = Stmt(t).id /\ r.src = "control" /\ r \in ControlRowsOf(rows)
    BY <1>1, <1>4, SourceFacts, ControlOnly DEF Owned
  <2>2. r.key \notin job[t].desired
    <3>1. Stmt(t) = job[t].todo[1] /\ 1 \in 1 .. Len(job[t].todo)
      BY <1>1, ReadyFacts
    <3>2. DeclaredStatement(job[t].desired, Stmt(t), rows, fresh)
      BY <1>1, <3>1 DEF Declaring
    <3> QED
      BY <1>1, <2>1, <3>2 DEF DeclaredStatement
  <2> DEFINE S == {r}
             list == <<r>>
             s == Uninstalls(list)
  <2>3. list \in Seq(S) /\ Len(list) = 1 /\ list[1] = r
    OBVIOUS
  <2>4. Replaces(t, s, TRUE)
    BY <1>4
  <2> HIDE DEF S, list
  <2>5. list \in Seq(S)
    BY <2>3
  <2>6. /\ Len(s) = 2 * Len(list) /\ Len(s) \in Nat /\ DOMAIN s = 1 .. Len(s)
        /\ \A i \in 1 .. Len(s) : \E n \in 1 .. Len(list) :
             s[i] = OnRow("uninstall", list[n]) \/ s[i] = OnRow("delete", list[n])
        /\ Len(s) > 0 => s[1].do = "uninstall"
        /\ Paired(s)
    BY <2>5, UninstallsFacts
  <2> HIDE DEF s
  <2>7. Len(s) = 2 /\ s[1].do = "uninstall"
    BY <2>3, <2>6
  <2>8. \A i \in 1 .. Len(s) : s[i] = OnRow("uninstall", r) \/ s[i] = OnRow("delete", r)
    <3>1. \A n \in 1 .. Len(list) : list[n] = r
      BY <2>3
    <3> QED
      BY <2>6, <3>1
  <2>9. s[2] = OnRow("delete", r)
    <3>1. 1 \in 1 .. Len(s)
      BY <2>7
    <3>2. s[1 + 1] = OnRow("delete", s[1].row)
      BY <2>6, <3>1 DEF Paired
    <3>3. s[1] = OnRow("uninstall", r)
      BY <2>7, <2>8, <3>1, OnRowFields
    <3> QED
      BY <3>2, <3>3, OnRowFields
  <2>10. \A n \in 1 .. Len(s) : DeclaredStatement(job[t].desired, s[n], rows', fresh') /\ s[n].do # "report"
    <3>1. ASSUME NEW n \in 1 .. Len(s) PROVE s[n].do \in {"uninstall", "delete"} /\ s[n].row = r
      BY <2>8, OnRowFields
    <3> QED
      BY <2>2, <3>1 DEF DeclaredStatement
  <2>11. \A q \in ControlRowsOf(rows') : q.id = Stmt(t).id => \E n \in 1 .. Len(s) : s[n] = OnRow("delete", q)
    <3>1. ASSUME NEW q \in ControlRowsOf(rows'), q.id = Stmt(t).id PROVE q = r
      <4>1. q \in rows
        BY <1>2, ControlOnly
      <4> QED
        BY <1>1, <2>1, <3>1, <4>1, SameRow, StoredId, MentionedFacts
    <3>2. 2 \in 1 .. Len(s)
      BY <2>7
    <3> QED
      BY <2>9, <3>1, <3>2
  <2> DEFINE do == "get"
  <2>12. do = "get" /\ do # "insert" /\ do # "delete" /\ At(t, do)
    BY <1>1
  <2> HIDE DEF do
  <2>13. Declaring(job'[t], rows', fresh')
    BY <1>1, <1>2, <2>4, <2>10, <2>11, <2>12, DeclaringReplaced
  <2> QED
    BY <1>2, <2>13 DEF DeclaringAfter
<1> QED
  BY <1>1, <1>3, <1>4, GetDoes
(* The rules of a section that are not there are added, and those there    *)
(* that the section does not name are removed.                             *)
LEMMA MatchDeclaring ==
  ASSUME NEW t, DeclaringFor(t), MatchControl(t)
  PROVE  DeclaringAfter(t)
<1> DEFINE D == job[t].desired
           C == ControlRowsOf(rows)
<1>1. /\ Ready(t) /\ job[t].kind = "control" /\ OneControlRow /\ OneRow /\ fresh \in Nat
      /\ At(t, "match") /\ rows \subseteq Stored /\ \A r \in rows : r.id \in 1 .. fresh
  BY DeclaringFacts DEF DeclaringFor, MatchControl
<1>2. UNCHANGED <<rows, fresh>>
  BY DEF MatchControl
<1>3. OneControlRow' /\ ControlRowsOf(rows') = C
  BY <1>1, <1>2, FewerRows
<1>4. CASE Fails(t)
  BY <1>1, <1>3, <1>4, FailsDeclaring DEF DeclaringAfter
<1>5. ASSUME NEW s, Replaces(t, s, TRUE),
             \A i \in 1 .. Len(s) :
               \/ \E r \in Removed(job[t]) : s[i] = Get(r.id, "control")
               \/ \E k \in Wanted(job[t].desired, ControlSet) : s[i] = Insert("control", k)
               \/ s[i] = Report,
             \A r \in Removed(job[t]) : \E i \in 1 .. Len(s) : s[i] = Get(r.id, "control"),
             \A k \in Wanted(job[t].desired, ControlSet) : \E i \in 1 .. Len(s) : s[i] = Insert("control", k)
      PROVE  DeclaringAfter(t)
  <2>1. ControlSet = C
    BY DEF ControlSet, ControlRowsOf
  <2>2. \A k \in Wanted(D, ControlSet) : k \in D /\ \A r \in C : r.key # k
    BY <2>1 DEF Wanted
  <2>3. \A k \in D : (\E r \in C : r.key = k) \/ k \in Wanted(D, ControlSet)
    BY <2>1 DEF Wanted
  <2>4. \A r \in Removed(job[t]) : r \in C /\ r.key \notin D
    <3>1. ASSUME NEW r \in Removed(job[t]) PROVE r \in C /\ r.key \notin D
      <4>1. r \in C /\ (r.key \notin D \/ \E q \in C : q.key = r.key /\ Earlier(q, r))
        BY <2>1 DEF Removed, Extra
      <4>2. ASSUME NEW q \in C, q.key = r.key, Earlier(q, r) PROVE FALSE
        <5>1. q = r
          BY <1>1, <4>1, <4>2 DEF OneControlRow
        <5>2. r \in Stored
          BY <1>1, <4>1, ControlOnly
        <5>3. r.id \in Nat /\ Prio[r.key] \in Nat
          BY <5>2, NetAssumption, StoredId DEF Stored
        <5> QED
          BY <4>2, <5>1, <5>3 DEF Earlier
      <4> QED
        BY <4>1, <4>2
    <3> QED
      BY <3>1
  <2>5. job[t].prune => \A r \in C : r.key \in D \/ r \in Removed(job[t])
    BY <2>1 DEF Removed, Extra
  <2>6. \A k \in 2 .. Len(job[t].todo) : FALSE
    <3>1. Stmt(t).do = "match" /\ \A k \in 2 .. Len(job[t].todo) : May("control", Stmt(t), job[t].todo[k])
      BY <1>1, ReadyFacts
    <3> QED
      BY <3>1 DEF May
  <2>7. \A i \in 1 .. Len(job'[t].todo) : \E n \in 1 .. Len(s) : job'[t].todo[i] = s[n]
    BY <1>5, <2>6 DEF Replaces
  <2>8. ASSUME NEW i \in 1 .. Len(s) PROVE DeclaredStatement(D, s[i], rows', fresh')
    <3>1. ASSUME NEW r \in Removed(job[t]), s[i] = Get(r.id, "control") PROVE DeclaredStatement(D, s[i], rows', fresh')
      <4>1. r \in C /\ r.key \notin D /\ r \in rows
        BY <2>4, ControlOnly
      <4>2. s[i].do = "get" /\ s[i].id = r.id
        BY <3>1, StatementFields
      <4>3. r.id \in 1 .. fresh'
        BY <1>1, <1>2, <4>1
      <4>4. \A q \in C : q.id = r.id => q = r
        BY <1>1, <4>1, SameRow, StoredId, MentionedFacts, ControlOnly
      <4> HIDE DEF C, D
      <4> QED
        BY <1>3, <4>1, <4>2, <4>3, <4>4 DEF DeclaredStatement
    <3>2. ASSUME NEW k \in Wanted(D, ControlSet), s[i] = Insert("control", k)
          PROVE  DeclaredStatement(D, s[i], rows', fresh')
      <4>1. s[i].do = "insert" /\ s[i].key = k
        BY <3>2, StatementFields
      <4> HIDE DEF C, D
      <4> QED
        BY <1>3, <2>2, <4>1 DEF DeclaredStatement
    <3>3. ASSUME s[i] = Report PROVE DeclaredStatement(D, s[i], rows', fresh')
      BY <3>3 DEF Report, DeclaredStatement
    <3> QED
      BY <1>5, <3>1, <3>2, <3>3
  <2>9. \A i \in 1 .. Len(job'[t].todo) : DeclaredStatement(D, job'[t].todo[i], rows', fresh')
    BY <2>7, <2>8
  <2>10. ASSUME job'[t].kind = "control" PROVE Declaring(job'[t], rows', fresh')
    <3>1. job'[t].desired = D /\ job'[t].prune = job[t].prune /\ job'[t] # NoJob
      BY <1>5, <2>10, NoJobFacts DEF Replaces, Moves
    <3>2. \A n \in 1 .. Len(s) : Has(job'[t], s[n])
      BY <1>5, <3>1 DEF Replaces
    <3>3. \A k \in D : (\E r \in C : r.key = k) \/ Has(job'[t], Insert("control", k))
      BY <1>5, <2>3, <3>2
    <3>4. job[t].prune => \A r \in C : r.key \in D \/ Has(job'[t], Get(r.id, "control"))
      BY <1>5, <2>5, <3>2
    <3> HIDE DEF C, D
    <3> QED
      BY <1>3, <2>9, <3>1, <3>3, <3>4 DEF Declaring
  <2>11. Declaring(job'[t], rows', fresh')
    BY <2>10 DEF Declaring
  <2> QED
    BY <1>3, <2>11 DEF DeclaringAfter
<1> HIDE DEF D, C
<1> QED
  BY <1>1, <1>4, <1>5, MatchDoes

LEMMA RunDeclaring ==
  ASSUME NEW t, DeclaringFor(t), Run(t)
  PROVE  DeclaringAfter(t)
<1>1. Ready(t) /\ job[t].kind = "control" /\ OneControlRow /\ Declaring(job[t], rows, fresh)
  BY DEF DeclaringFor
<1>2. ASSUME NEW do, At(t, do) PROVE Stmt(t).do = do /\ do \notin {"bysource", "listrows", "listlive", "reinsert", "prune"}
  <2>1. Stmt(t).do = do /\ Stmt(t) \in Statement("control") /\ Stmt(t) = job[t].todo[1] /\ 1 \in 1 .. Len(job[t].todo)
    BY <1>1, <1>2, ReadyFacts
  <2>2. DeclaredStatement(job[t].desired, Stmt(t), rows, fresh)
    BY <1>1, <2>1 DEF Declaring
  <2>3. do # "bysource"
    BY <2>1, <2>2 DEF DeclaredStatement
  <2>4. do \notin {"listrows", "listlive", "reinsert", "prune"}
    BY <2>1, StatementOf DEF Boot
  <2> QED
    BY <2>1, <2>3, <2>4
<1>3. ASSUME Fails(t), rows' \subseteq rows PROVE DeclaringAfter(t)
  BY <1>1, <1>3, FailsDeclaring, FewerRows DEF DeclaringAfter
<1>4. ASSUME InstallRule(t) PROVE DeclaringAfter(t)
  <2> DEFINE do == "append"
  <2>1. /\ At(t, do) /\ do \notin {"insert", "get"} /\ do # "delete" /\ Replaces(t, <<>>, TRUE)
        /\ UNCHANGED <<rows, fresh>>
    BY <1>1, <1>4, AppendDoes DEF InstallRule
  <2> HIDE DEF do
  <2> QED
    BY <2>1, EmptyDeclaring
<1>5. ASSUME Uninstall(t) \/ UninstallRefused(t) PROVE DeclaringAfter(t)
  <2> DEFINE do == "uninstall"
  <2>1. /\ At(t, do) /\ do \notin {"insert", "get"} /\ do # "delete" /\ Replaces(t, <<>>, TRUE)
        /\ UNCHANGED <<rows, fresh>>
    BY <1>1, <1>5, AdvanceDoes DEF Uninstall, UninstallRefused
  <2> HIDE DEF do
  <2> QED
    BY <2>1, EmptyDeclaring
<1>6. ASSUME Return(t) PROVE DeclaringAfter(t)
  <2> DEFINE do == "report"
  <2>1. /\ At(t, do) /\ do \notin {"insert", "get"} /\ do # "delete" /\ Replaces(t, <<>>, TRUE)
        /\ UNCHANGED <<rows, fresh>>
    BY <1>1, <1>6, AdvanceDoes DEF Return
  <2> HIDE DEF do
  <2> QED
    BY <2>1, EmptyDeclaring
<1>7. ASSUME DeleteRow(t) PROVE DeclaringAfter(t)
  <2> DEFINE do == "delete"
  <2>1. /\ At(t, do) /\ do \notin {"insert", "get"} /\ do = "delete" /\ rows' = rows \ {Stmt(t).row}
        /\ UNCHANGED fresh
    BY <1>1, <1>7, DeleteRowDoes DEF DeleteRow
  <2> HIDE DEF do
  <2>2. ASSUME Replaces(t, <<>>, TRUE) PROVE DeclaringAfter(t)
    BY <2>1, <2>2, EmptyDeclaring
  <2>3. rows' \subseteq rows
    BY <2>1
  <2> QED
    BY <1>1, <1>3, <1>7, <2>2, <2>3, DeleteRowDoes
<1>8. ASSUME InstallFails(t) PROVE DeclaringAfter(t)
  <2>1. /\ \A i \in 1 .. Len(job'[t].todo) : job'[t].todo[i] = OnRow("rollback", Stmt(t).row)
        /\ UNCHANGED <<rows, fresh>>
    BY <1>1, <1>8, InstallFailsDoes DEF InstallFails
  <2>2. \A i \in 1 .. Len(job'[t].todo) : job'[t].todo[i].do = "rollback"
    BY <2>1, OnRowFields
  <2>3. ~Has(job'[t], Report)
    BY <2>2, StatementFields DEF Has
  <2>4. \A i \in 1 .. Len(job'[t].todo) : DeclaredStatement(job'[t].desired, job'[t].todo[i], rows', fresh')
    BY <2>2 DEF DeclaredStatement
  <2>5. Declaring(job'[t], rows', fresh')
    BY <2>3, <2>4 DEF Declaring
  <2> QED
    BY <1>1, <2>1, <2>5, FewerRows DEF DeclaringAfter
<1>9. ASSUME Rollback(t) \/ Errs(t) PROVE DeclaringAfter(t)
  <2>1. Fails(t) /\ rows' \subseteq rows
    BY <1>1, <1>9, RollbackDoes, ErrsDoes
  <2> QED
    BY <1>3, <2>1
<1>10. ~(ListSource(t) \/ ReadRows(t) \/ ReadLive(t) \/ Reinsert(t) \/ Prune(t))
  BY <1>2 DEF ListSource, ReadRows, ReadLive, Reinsert, Prune
<1> QED
  BY <1>4, <1>5, <1>6, <1>7, <1>8, <1>9, <1>10, InsertDeclaring, GetDeclaring, MatchDeclaring DEF Run, Errs

(* Beside a pass nobody changes the control center's rows.                 *)
LEMMA ControlApart ==
  ASSUME Base, NEW t \in All, Bounded(t), job[t].kind # "control"
  PROVE  ControlRowsOf(rows') = ControlRowsOf(rows)
<1>1. "control" \notin SourceOf(job[t].kind)
  BY SourcesOf
<1>2. \A r \in Difference(rows, rows') : r.src \in SourceOf(job[t].kind)
  BY DEF Bounded
<1>3. \A r : r.src = "control" => (r \in rows <=> r \in rows')
  BY <1>1, <1>2 DEF Difference
<1> QED
  BY <1>3 DEF ControlRowsOf

(* No two passes run side by side, and the boot is none.                   *)
LEMMA ControlSole ==
  ASSUME OnePoller, Base, NEW t \in All, NEW u \in All, job[t].kind = "control", job[u].kind = "control"
  PROVE  t = u
<1>1. Types /\ scope \in Scopes
  BY DEF Base, Types
<1>2. ASSUME NEW v \in All, job[v].kind = "control" PROVE v \in Tasks /\ "control" \in scope[v]
  BY <1>1, <1>2 DEF Types, JobTypes, All, Boot
<1> QED
  BY <1>1, <1>2 DEF OnePoller

LEMMA DeclaringOther ==
  ASSUME NEW j, NEW R, NEW Q, ControlRowsOf(Q) = ControlRowsOf(R), NEW m \in Nat, NEW n \in Nat, m <= n,
         Declaring(j, R, m)
  PROVE  Declaring(j, Q, n)
<1>1. ASSUME NEW s, DeclaredStatement(j.desired, s, R, m) PROVE DeclaredStatement(j.desired, s, Q, n)
  BY <1>1 DEF DeclaredStatement
<1> QED
  BY <1>1 DEF Declaring

LEMMA DeclaringKept ==
  ASSUME OnePoller, Base, AllDeclaring, NEW t \in All, Bounded(t), \A u \in All : u # t => job'[u] = job[u],
         fresh' \in Nat, fresh <= fresh', Declaring(job'[t], rows', fresh')
  PROVE  AllDeclaring'
<1>1. fresh \in Nat
  BY NetAssumption DEF Base, Types
<1>2. ASSUME NEW u \in All PROVE Declaring(job'[u], rows', fresh')
  <2>1. CASE u = t
    BY <2>1
  <2>2. CASE u # t /\ job[u].kind = "control"
    <3>1. job'[u] = job[u] /\ Declaring(job[u], rows, fresh)
      BY <2>2 DEF AllDeclaring
    <3>2. job[t].kind # "control"
      BY <2>2, ControlSole
    <3>3. ControlRowsOf(rows') = ControlRowsOf(rows)
      BY <3>2, ControlApart
    <3> QED
      BY <1>1, <3>1, <3>3, DeclaringOther
  <2>3. CASE u # t /\ job[u].kind # "control"
    BY <2>3 DEF Declaring
  <2> QED
    BY <2>1, <2>2, <2>3
<1>3. AllDeclaring' <=> \A u \in All : Declaring(job'[u], rows', fresh')
  BY DEF AllDeclaring, Declaring, DeclaredStatement, ControlRowsOf, Has, Report, Insert, Get, OnRow, All
<1> QED
  BY <1>2, <1>3

LEMMA FreshGrows ==
  ASSUME NEW t \in All, Base, Run(t), UNCHANGED scope
  PROVE  fresh \in Nat /\ fresh' \in Nat /\ fresh <= fresh'
<1>1. fresh \in Nat
  BY NetAssumption DEF Base, Types
<1>2. fresh' = fresh \/ fresh' = fresh + 1
  BY DEF Run, InsertRow, RefuseRule, InstallRule, InstallFails, Rollback, GetRow, ListSource, Uninstall,
         UninstallRefused, UninstallFails, DeleteRow, ReadRows, ReadLive, Reinsert, ReconcileFails, Prune, Return, MatchControl
<1> QED
  BY <1>1, <1>2

LEMMA SameControlRows ==
  ASSUME OneControlRow, ControlRowsOf(rows') = ControlRowsOf(rows)
  PROVE  OneControlRow'
<1>1. OneControlRow' <=> \A r, q \in ControlRowsOf(rows') : r.key = q.key => r = q
  BY DEF OneControlRow, ControlRowsOf
<1> QED
  BY <1>1 DEF OneControlRow

LEMMA NotDeclaring ==
  ASSUME NEW j, j.kind # "control", NEW R, NEW n
  PROVE  Declaring(j, R, n)
BY DEF Declaring

LEMMA DeclaringNext ==
  ASSUME OnePoller, Base, OneControlRow, AllDeclaring, [Next /\ UNCHANGED scope]_vars
  PROVE  (OneControlRow /\ AllDeclaring)'
<1>1. CASE UNCHANGED vars
  BY <1>1 DEF vars, OneControlRow, AllDeclaring, Declaring, DeclaredStatement, ControlRowsOf, Has, Report, Insert,
              Get, OnRow, All
<1>2. ASSUME NEW t \in All, Run(t), UNCHANGED scope PROVE (OneControlRow /\ AllDeclaring)'
  <2>1. Base /\ Base' /\ Bounded(t) /\ \A u \in All : u # t => job'[u] = job[u]
    BY <1>2, RunBase
  <2>2. fresh' \in Nat /\ fresh <= fresh'
    BY <1>2, <2>1, FreshGrows
  <2>3. OneControlRow' /\ Declaring(job'[t], rows', fresh')
    <3>1. CASE job[t].kind = "control"
      <4>1. DeclaringFor(t)
        BY <1>2, <2>1, <3>1 DEF DeclaringFor, Ready, AllDeclaring
      <4> QED
        BY <1>2, <4>1, RunDeclaring DEF DeclaringAfter
    <3>2. CASE job[t].kind # "control"
      <4>1. job'[t].kind # "control"
        BY <1>2, <2>1, <3>2, RunMoves, NoJobFacts
      <4>2. ControlRowsOf(rows') = ControlRowsOf(rows)
        BY <2>1, <3>2, ControlApart
      <4> QED
        BY <4>1, <4>2, SameControlRows, NotDeclaring
    <3> QED
      BY <3>1, <3>2
  <2> QED
    BY <2>1, <2>2, <2>3, DeclaringKept
<1>3. ASSUME NEW t \in Tasks, Request(t), UNCHANGED scope PROVE (OneControlRow /\ AllDeclaring)'
  <2>1. t \in All /\ Base /\ fresh \in Nat
    BY NetAssumption DEF All, Base, Types
  <2>2. Bounded(t) /\ \A u \in All : u # t => job'[u] = job[u]
    BY <1>3, <2>1, RequestBase
  <2>3. /\ UNCHANGED <<rows, fresh>>
        /\ \/ job'[t] = NoJob
           \/ \E kind : Begun(job'[t], kind)
           \/ /\ job'[t].kind = job[t].kind /\ job'[t].todo = job[t].todo
              /\ job'[t].desired = job[t].desired /\ job'[t].prune = job[t].prune
    BY <1>3, <2>1, RequestDoes
  <2>4. Declaring(job'[t], rows, fresh)
    <3>1. CASE job'[t] = NoJob
      BY <3>1, NoJobFacts, NotDeclaring
    <3>2. ASSUME NEW kind, Begun(job'[t], kind), job'[t].kind = "control" PROVE Declaring(job'[t], rows, fresh)
      <4>1. \A i \in 1 .. Len(job'[t].todo) : job'[t].todo[i].do = "match"
        BY <3>2 DEF Begun
      <4>2. \A i \in 1 .. Len(job'[t].todo) : DeclaredStatement(job'[t].desired, job'[t].todo[i], rows, fresh)
        BY <4>1 DEF DeclaredStatement
      <4>3. ~Has(job'[t], Report)
        BY <4>1, StatementFields DEF Has
      <4> QED
        BY <4>2, <4>3 DEF Declaring
    <3>3. CASE /\ job'[t].kind = job[t].kind /\ job'[t].todo = job[t].todo
               /\ job'[t].desired = job[t].desired /\ job'[t].prune = job[t].prune
      <4>1. Declaring(job[t], rows, fresh)
        BY <2>1 DEF AllDeclaring
      <4>2. \A x : Has(job'[t], x) <=> Has(job[t], x)
        BY <3>3 DEF Has
      <4> QED
        BY <3>3, <4>1, <4>2 DEF Declaring
    <3> QED
      BY <2>3, <3>1, <3>2, <3>3, NotDeclaring
  <2>5. Declaring(job'[t], rows', fresh') /\ fresh' \in Nat /\ fresh <= fresh'
    BY <2>1, <2>3, <2>4
  <2>6. ControlRowsOf(rows') = ControlRowsOf(rows)
    BY <2>3
  <2> QED
    BY <2>1, <2>2, <2>5, <2>6, DeclaringKept, SameControlRows
<1>4. ASSUME Restart PROVE (OneControlRow /\ AllDeclaring)'
  <2>1. BootState(job') /\ UNCHANGED rows
    BY <1>4, RestartDoes
  <2>2. \A u \in All : job'[u].kind # "control"
    BY <2>1, BootFacts, NoJobFacts DEF Boot, Begun
  <2>3. AllDeclaring' <=> \A u \in All : Declaring(job'[u], rows', fresh')
    BY DEF AllDeclaring, Declaring, DeclaredStatement, ControlRowsOf, Has, Report, Insert, Get, OnRow, All
  <2>4. ControlRowsOf(rows') = ControlRowsOf(rows)
    BY <2>1
  <2> QED
    BY <2>2, <2>3, <2>4, NotDeclaring, SameControlRows
<1> QED
  BY <1>1, <1>2, <1>3, <1>4 DEF Next, All

LEMMA InitDeclaring ==
  ASSUME Init
  PROVE  OneControlRow /\ AllDeclaring
<1>1. BootState(job) /\ rows = {}
  BY DEF Init, BootState, All
<1>2. \A u \in All : job[u].kind # "control"
  BY <1>1, BootFacts, NoJobFacts DEF Boot, Begun
<1>3. OneControlRow
  BY <1>1 DEF OneControlRow, ControlRowsOf
<1> QED
  BY <1>2, <1>3, NotDeclaring DEF AllDeclaring

(* When a pass reports, nothing of it is to come.                          *)
LEMMA DeclaredAtReport ==
  ASSUME Base, OneControlRow, AllDeclaring
  PROVE  ControlDeclared
<1> SUFFICES ASSUME NEW t \in Tasks, At(t, "report"), job[t].kind = "control"
             PROVE  /\ \A k \in job[t].desired : Cardinality(ControlRows(k)) = 1
                    /\ job[t].prune => \A r \in rows : r.src = "control" => r.key \in job[t].desired
  BY DEF ControlDeclared
<1>1. t \in All /\ Types /\ Shapes /\ Declaring(job[t], rows, fresh)
  BY DEF Base, AllDeclaring, All
<1>2. job[t].todo # <<>> /\ Head(job[t].todo).do = "report" /\ Good(job[t].kind, job[t].todo)
  BY <1>1, TaskFacts DEF At
<1>3. /\ Len(job[t].todo) \in Nat /\ Len(job[t].todo) > 0 /\ Head(job[t].todo) = job[t].todo[1]
      /\ job[t].todo[1] \in Statement(job[t].kind)
      /\ \A k \in 2 .. Len(job[t].todo) : May(job[t].kind, job[t].todo[1], job[t].todo[k])
  BY <1>2, FirstOnly
<1>4. job[t].todo[1] = Report /\ 1 \in 1 .. Len(job[t].todo)
  BY <1>2, <1>3, StatementOf
<1>5. \A k \in 2 .. Len(job[t].todo) : FALSE
  BY <1>2, <1>3 DEF May
<1>6. \A x : Has(job[t], x) <=> x = Report
  <2>1. \A i \in 1 .. Len(job[t].todo) : i = 1 \/ i \in 2 .. Len(job[t].todo)
    BY <1>3
  <2> QED
    BY <1>4, <1>5, <2>1 DEF Has
<1>7. \A k, id, r : /\ ~Has(job[t], Insert("control", k)) /\ ~Has(job[t], Get(id, "control"))
                    /\ ~Has(job[t], OnRow("delete", r))
  BY <1>6, StatementFields, OnRowFields
<1>8. /\ \A k \in job[t].desired : \E r \in ControlRowsOf(rows) : r.key = k
      /\ job[t].prune => \A r \in ControlRowsOf(rows) : r.key \in job[t].desired
  BY <1>1, <1>6, <1>7 DEF Declaring
<1>9. ASSUME NEW k \in job[t].desired PROVE Cardinality(ControlRows(k)) = 1
  <2>1. PICK r \in ControlRowsOf(rows) : r.key = k
    BY <1>8
  <2>2. ControlRows(k) = {r}
    BY <2>1 DEF ControlRows, OneControlRow, ControlRowsOf
  <2> QED
    BY <2>2, FS_Singleton
<1> QED
  BY <1>8, <1>9, ControlOnly

(* When a pass over the control center's rules reports, each rule that the *)
(* section declares has one row, and after a pruning pass no other control *)
(* rule has one, whatever else runs beside it, as long as there is one     *)
(* poller.                                                                 *)
THEOREM Declared == ASSUME OnePoller PROVE Spec => []ControlDeclared
<1> DEFINE IInv == Base /\ OneControlRow /\ AllDeclaring
<1>1. Init => IInv
  BY InitBase, InitDeclaring
<1>2. IInv /\ [Next /\ UNCHANGED scope]_vars => IInv'
  BY BaseNext, DeclaringNext
<1>3. IInv => ControlDeclared
  BY DeclaredAtReport
<1> QED
  BY <1>1, <1>2, <1>3, PTL DEF Spec
=============================================================================
