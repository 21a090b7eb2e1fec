-------------------------- MODULE IntakeProperties --------------------------
(***************************************************************************)
(* What Intake guarantees.                                                 *)
(***************************************************************************)
EXTENDS Intake

PayRow == [status : {"pending", "succeeded", "failed"}, approved : BOOLEAN,
           bound : BOOLEAN, invoice : Charges \cup {None}]

TypeOK ==
  /\ way \in [Contracts -> {"none", "invoice", "page", "stripe"}]
  /\ charge \in [Charges -> {"none", "declined", "paid", "cheap"}]
  /\ DOMAIN pay \subseteq PaymentIds /\ \A p \in DOMAIN pay : pay[p] \in PayRow
  /\ sub \in [Contracts -> {"none", "active", "past_due"}]
  /\ opened \in [Charges -> 0..1]
  /\ alerted \subseteq Charges /\ told \subseteq covered /\ covered \subseteq Charges
  /\ latest \in [Conditions -> {"none", "open", "resolved"}] /\ closed \subseteq Conditions

Served(c) == \E p \in DOMAIN pay : pay[p].invoice = c /\ pay[p].status = "succeeded"

\* Access is opened once for a charge and only for one that was paid, and one
\* payment never stands for two, however webhooks are repeated, reordered or
\* forgotten between the answer and the commit (webhooks_in.py, deps.py).
OpenedOnce ==
  /\ TypeOK
  /\ \A c \in Charges :
       /\ opened[c] = (IF Served(c) THEN 1 ELSE 0)
       /\ opened[c] = 1 => Paid(c)
  /\ \A p, q \in DOMAIN pay :
       pay[p].invoice # None /\ pay[p].invoice = pay[q].invoice => p = q

\* The team has been told about the charge: at once, or by an item on its list.
Reported(c) == c \in alerted \cup told

\* An operator has resolved an item about a sale of the contract.  The next items
\* of that condition are born resolved, whatever sale they name, so a sale after
\* a resolution can stay off the list: the guarantee is about the others.
SaleKinds == {"sale without payment", "sale not succeeded", "sale never fulfilled"}
WrittenOff(c) == \E x \in closed : x[1] \in SaleKinds /\ x[2][1] = c[1]

\* "account for every completed sale locally": a run that read Lava's journal
\* leaves no sale in it that was neither fulfilled nor shown to an operator nor
\* written off with its contract, also when its webhook never came or was
\* forgotten (compare_lava_remote).
SaleAccounted == \A c \in covered : Served(c) \/ Reported(c) \/ WrittenOff(c)

\* Every charge of a Lava invoice is fulfilled, shown or written off in the end,
\* with no webhook at all (reconciliation_job).
SaleSurfaces ==
  \A c \in Charges :
    (way[c[1]] = "invoice" /\ Paid(c)) ~> (Served(c) \/ Reported(c) \/ WrittenOff(c))
=============================================================================
