------------------------------ MODULE MCCatalog ------------------------------
(* Catalog and Packages on small instances.                                *)
EXTENDS Packages, TLC

CONSTANTS e1, e2, a1, a2, s1, p, q, i1

Released == "Effective"
(* No operation tells one environment from another, nor actions, nor texts.*)
Symmetry == Permutations(Env) \cup Permutations(Action) \cup Permutations(Source)

Lives == {"Draft", Released}

MCCodeStates == [a \in Action |-> {s1}]

NoCode == [s \in {} |-> NoRow]
CodeFor(as) == {[s \in as \X {s1} |-> src] : src \in Source}
AllTo(as, life) == [a \in as |-> life]

(* The lifecycle states vary with the uploads that keep them.              *)
SpecFiles ==
  {[kind |-> "spec", env |-> e, life |-> Draft, lives |-> AllTo(as, Draft), code |-> c] :
     e \in Env, as \in SUBSET Action, c \in {NoCode} \cup CodeFor(Action)}
SingleFiles ==
  {[kind |-> "single", env |-> e, life |-> l, lives |-> AllTo(as, l), code |-> NoCode] :
     e \in Env, l \in Life, as \in SUBSET Action}
ActionFiles ==
  {[kind |-> "action", env |-> e, life |-> Draft, lives |-> AllTo({a}, Draft), code |-> c] :
     e \in Env, a \in Action, c \in {NoCode} \cup CodeFor(Action)}
MCFiles == SpecFiles \cup SingleFiles \cup ActionFiles
Plain == {f \in SpecFiles : f.code = NoCode}
MCPairs == Plain \X Plain

MCCodeImports == UNION {CodeFor({a}) : a \in Action}

MCSnapshots ==
  {[env |-> Env, action |-> h, code |-> c] :
     h \in [Action -> [env : Env, timeout : {NoTimeout}] \cup {NoRow}],
     c \in {NoCode} \cup CodeFor(Action)}
=============================================================================
