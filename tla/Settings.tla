------------------------------ MODULE Settings ------------------------------
(***************************************************************************)
(* What the settings of the console promise (runtime_config.py): one store *)
(* of the instances wired to each role and of the instances that have a    *)
(* description, changed by one operation at a time.  The promise holds     *)
(* while the operations do not overlap (calm); a console that dies in the  *)
(* middle of one loses everything or nothing but that operation.           *)
(***************************************************************************)
EXTENDS SequencesExt

CONSTANTS Roles, Arns

VARIABLES store, calm

\* The instances of a role, in order, none of them twice.
Fleets == {f \in Seq(Arns) : IsInjective(f)}

Stores == [fleets : [Roles -> Fleets], described : SUBSET Arns]

Empty == [fleets |-> [r \in Roles |-> <<>>], described |-> {}]

Init == store = Empty /\ calm = TRUE

\* "SET one role's deployed runtime to a single ARN".
Save(r, a) == store' = [store EXCEPT !.fleets[r] = <<a>>]

\* "ADD one runtime instance to a role's fleet (keeps the existing
\* instances)"; an instance that is there stays where it is.
Add(r, a) ==
  LET f == store'.fleets[r] IN
  /\ f \in Fleets
  /\ IsPrefix(store.fleets[r], f)
  /\ ToSet(f) = ToSet(store.fleets[r]) \cup {a}
  /\ store' = [store EXCEPT !.fleets[r] = f]

\* "Remove ONE instance from a role's fleet".
Unwire(r, a) == store' = [store EXCEPT !.fleets[r] = RemoveFirst(@, a)]

\* "Unwire one role's whole fleet"; when none is left nothing is.
Clear(r) ==
  LET rest == [store.fleets EXCEPT ![r] = <<>>] IN
  store' = IF rest = Empty.fleets THEN Empty ELSE [store EXCEPT !.fleets = rest]

ClearAll == store' = Empty

Describe(a) == store' = [store EXCEPT !.described = @ \cup {a}]

Undescribe(a) == store' = [store EXCEPT !.described = @ \ {a}]

Operation ==
  /\ calm /\ calm'
  /\ \/ ClearAll
     \/ \E r \in Roles : Clear(r)
     \/ \E a \in Arns : Describe(a) \/ Undescribe(a)
     \/ \E r \in Roles, a \in Arns : Save(r, a) \/ Add(r, a) \/ Unwire(r, a)

\* The console dies while it writes.
Lose == calm' /\ store' = Empty

\* Operations overlap: nothing is promised until all are over.
Disturb == ~calm' /\ store' \in Stores

Settle == ~calm /\ calm' /\ store' \in Stores

Next == Operation \/ Lose \/ Disturb \/ Settle

Spec == Init /\ [][Next]_<<store, calm>>
===========================================================================
